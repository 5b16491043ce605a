-------------------------- MODULE RoundRobinProofs --------------------------
(***************************************************************************)
(* Theorems about the round robin scheduler, for every timeslice, every    *)
(* minimum remaining timeslice, any events, sleep times and number of      *)
(* processes.  The invariant Coherent says which PCBs may be in which      *)
(* place; TypeOK, StateMatchesPlace and DecisionMatchesState follow from   *)
(* it.  EachProcessOnce is inductive with it; so is that all have time     *)
(* left, which is why no call aborts.  The last two parts are about the    *)
(* calls: the order of service, and that every sleep finds a process.      *)
(***************************************************************************)
EXTENDS RoundRobin, PcbTheorems

RunningPcbs == {p \in PcbType : p.state = Running /\ p.wakeup = NoWakeup}
ReadyPcbs == {p \in PcbType : Parked(p)}
WaitingPcbs == {p \in PcbType : Parked(p) \/ Blocked(p)}

Nothing ==
  /\ running_process = {}
  /\ ready_processes = << >>
  /\ waiting_processes = << >>
  /\ highest_pid = 0

Coherent ==
  /\ running_process \in SUBSET RunningPcbs
  /\ \A p, q \in running_process : p = q
  /\ stopped_process \in SUBSET PcbType
  /\ \A p, q \in stopped_process : p = q
  /\ remaining_time \in 0..Timeslice
  /\ ready_processes \in Seq(ReadyPcbs)
  /\ waiting_processes \in Seq(WaitingPcbs)
  /\ highest_pid \in 0..MaxPid
  /\ sleep_time \in Nat
  /\ decision \in Decision
  /\ decision.kind = "Start" => Nothing
  /\ DecisionMatchesState

-----------------------------------------------------------------------------
(* The PCBs. *)

\* The states and the wakeup conditions are told apart by their kinds.
LEMMA Kinds ==
  /\ Ready.kind = "Ready" /\ Running.kind = "Running"
  /\ \A event : Waiting(event).kind = "Waiting"
  /\ NoWakeup.kind = "None"
  /\ \A event : SignalWakeup(event).kind = "Signal"
BY DEF Ready, Running, Waiting, NoWakeup, SignalWakeup

LEMMA PcbOperations ==
  ASSUME NEW p \in PcbType
  PROVE  /\ SetReady(p) \in ReadyPcbs
         /\ \A time \in Nat : PutToSleep(p, time) \in WaitingPcbs
         /\ \A event \in Events : AwaitEvent(p, event) \in WaitingPcbs
         /\ p.wakeup = NoWakeup => SetRunning(p) \in RunningPcbs
<1>1. SetReady(p) \in ReadyPcbs
  BY DEF SetReady, ReadyPcbs, Parked, PcbType, Ready, NoWakeup, ProcessState, WakeupCondition
<1>2. ASSUME NEW time \in Nat PROVE PutToSleep(p, time) \in WaitingPcbs
  BY DEF PutToSleep, WaitingPcbs, Blocked, Asleep, PcbType, Waiting, SleepWakeup,
         ProcessState, WakeupCondition
<1>3. ASSUME NEW event \in Events PROVE AwaitEvent(p, event) \in WaitingPcbs
  <2>1. event \in Nat
    BY RoundRobinAssumption
  <2> QED
    BY <2>1 DEF AwaitEvent, WaitingPcbs, Blocked, Awaiting, PcbType, Waiting,
                SignalWakeup, ProcessState, WakeupCondition
<1>4. ASSUME p.wakeup = NoWakeup PROVE SetRunning(p) \in RunningPcbs
  BY <1>4 DEF SetRunning, RunningPcbs, PcbType, Running, ProcessState
<1> QED
  BY <1>1, <1>2, <1>3, <1>4

LEMMA NewPcbReady ==
  ASSUME NEW pid \in Pid
  PROVE  NewPcb(pid) \in ReadyPcbs
BY DEF NewPcb, ReadyPcbs, Parked, PcbType, Ready, NoWakeup, ProcessState, WakeupCondition

LEMMA ElapseWaiting ==
  ASSUME NEW p \in WaitingPcbs, NEW time \in Nat
  PROVE  Elapse(p, time) \in WaitingPcbs
<1>1. CASE p.wakeup.kind # "Sleep"
  BY <1>1 DEF Elapse
<1>2. CASE p.wakeup.kind = "Sleep" /\ p.wakeup.arg > time
  <2>1. Asleep(p)
    BY <1>2, Kinds DEF WaitingPcbs, Parked, Blocked, Awaiting
  <2>2. p \in PcbType
    BY DEF WaitingPcbs
  <2>3. p.wakeup.arg - time \in Nat
    BY <1>2, <2>2 DEF PcbType, WakeupCondition
  <2> QED
    BY <1>2, <2>1, <2>2, <2>3
       DEF Elapse, WaitingPcbs, Blocked, Asleep, PcbType, SleepWakeup, WakeupCondition
<1>3. CASE p.wakeup.kind = "Sleep" /\ ~(p.wakeup.arg > time)
  BY <1>3, PcbOperations DEF Elapse, WaitingPcbs, ReadyPcbs
<1> QED
  BY <1>1, <1>2, <1>3

LEMMA NotifyWaiting ==
  ASSUME NEW p \in WaitingPcbs, NEW event
  PROVE  Notify(p, event) \in WaitingPcbs
BY PcbOperations DEF Notify, WaitingPcbs, ReadyPcbs

-----------------------------------------------------------------------------
(* The lists. *)

LEMMA ElapsedWaiting ==
  ASSUME NEW list \in Seq(WaitingPcbs), NEW time \in Nat
  PROVE  Elapsed(list, time) \in Seq(WaitingPcbs)
<1>1. \A i \in DOMAIN list : Elapsed(list, time)[i] \in WaitingPcbs
  BY ElapseWaiting DEF Elapsed
<1>2. Elapsed(list, time) = [i \in DOMAIN list |-> Elapsed(list, time)[i]]
  BY DEF Elapsed
<1> QED
  BY <1>1, <1>2, MappedType

LEMMA NotifiedWaiting ==
  ASSUME NEW list \in Seq(WaitingPcbs), NEW event
  PROVE  Notified(list, event) \in Seq(WaitingPcbs)
<1>1. \A i \in DOMAIN list : Notified(list, event)[i] \in WaitingPcbs
  BY NotifyWaiting DEF Notified
<1>2. Notified(list, event) = [i \in DOMAIN list |-> Notified(list, event)[i]]
  BY DEF Notified
<1> QED
  BY <1>1, <1>2, MappedType

LEMMA WakeupWaiting ==
  ASSUME NEW list \in Seq(WaitingPcbs)
  PROVE  /\ Woken(list) \in Seq(ReadyPcbs)
         /\ StillWaiting(list) \in Seq(WaitingPcbs)
<1>1. {p \in WaitingPcbs : p.state = Ready} \subseteq ReadyPcbs
  BY Kinds DEF WaitingPcbs, ReadyPcbs, Blocked, Asleep, Awaiting
<1>2. {p \in WaitingPcbs : p.state # Ready} \subseteq WaitingPcbs
  OBVIOUS
<1> QED
  BY <1>1, <1>2, WakeupType, SeqMonotonic

LEMMA SleepTimeIsNat ==
  ASSUME NEW list \in Seq(WaitingPcbs)
  PROVE  FindSleepTime(list) \subseteq Nat
BY DEF FindSleepTime, SleepingTimes, WaitingPcbs, PcbType, WakeupCondition

-----------------------------------------------------------------------------
(* The pieces the calls are made of. *)

\* A call that lets `waiting' be the waiting list and wakes who is Ready in it.
LEMMA WakeupStep ==
  ASSUME NEW queue \in Seq(ReadyPcbs), NEW waiting \in Seq(WaitingPcbs)
  PROVE  /\ queue \o Woken(waiting) \in Seq(ReadyPcbs)
         /\ StillWaiting(waiting) \in Seq(WaitingPcbs)
BY WakeupWaiting, ConcatProperties

LEMMA YieldStep ==
  ASSUME NEW p \in PcbType, NEW queue \in Seq(ReadyPcbs), Yield(p, queue)
  PROVE  /\ running_process' = {}
         /\ ready_processes' \in Seq(ReadyPcbs)
         /\ remaining_time' \in 0..Timeslice
<1>1. SetReady(p) \in ReadyPcbs
  BY PcbOperations
<1> QED
  BY <1>1, RoundRobinAssumption DEF Yield, Enqueue

LEMMA ContinueOrYieldStep ==
  ASSUME NEW p \in PcbType, p.wakeup = NoWakeup, NEW queue \in Seq(ReadyPcbs),
         NEW remaining \in 0..Timeslice, ContinueOrYield(p, queue, remaining)
  PROVE  /\ running_process' \in SUBSET RunningPcbs
         /\ \A q, r \in running_process' : q = r
         /\ ready_processes' \in Seq(ReadyPcbs)
         /\ remaining_time' \in 0..Timeslice
<1>1. SetRunning(p) \in RunningPcbs
  BY PcbOperations
<1>2. CASE remaining >= MinimumRemainingTimeslice
  BY <1>1, <1>2 DEF ContinueOrYield
<1>3. CASE ~(remaining >= MinimumRemainingTimeslice)
  <2>1. Yield(p, queue)
    BY <1>3 DEF ContinueOrYield
  <2> QED
    BY <2>1, YieldStep
<1> QED
  BY <1>2, <1>3

\* What every stop of a running process starts from.
LEMMA RunningStep ==
  ASSUME Coherent, decision.kind = "Run", NEW p \in running_process
  PROVE  /\ p \in PcbType /\ p.wakeup = NoWakeup
         /\ running_process = {p}
         /\ sleep_time = 0
         /\ remaining_time \in 0..Timeslice
         /\ \A time \in Nat : WaitingAfter(time) \in Seq(WaitingPcbs)
BY ElapsedWaiting DEF Coherent, RunningPcbs, DecisionMatchesState, WaitingAfter

\* A system call leaves some of the time, so that time has passed.
LEMMA RemainingStep ==
  ASSUME remaining_time \in 0..Timeslice, NEW remaining \in Remaining
  PROVE  /\ remaining \in 0..Timeslice
         /\ remaining_time - remaining \in Nat
BY RoundRobinAssumption DEF Remaining

\* The end of every stop.
LEMMA StoppedStep ==
  ASSUME running_process' \in SUBSET RunningPcbs,
         \A p, q \in running_process' : p = q,
         stopped_process' \in SUBSET PcbType,
         \A p, q \in stopped_process' : p = q,
         remaining_time' \in 0..Timeslice,
         ready_processes' \in Seq(ReadyPcbs),
         waiting_processes' \in Seq(WaitingPcbs),
         highest_pid' \in 0..MaxPid,
         sleep_time' = 0,
         decision' = Outcome("Stopped")
  PROVE  Coherent'
BY DEF Coherent, DecisionMatchesState, Outcome, Decision

\* What every next() starts from: the sleep that was announced has been played.
LEMMA NextStep ==
  ASSUME Coherent
  PROVE  /\ ReadyOnNext \in Seq(ReadyPcbs)
         /\ WaitingOnNext \in Seq(WaitingPcbs)
<1>1. WaitingAfter(sleep_time) \in Seq(WaitingPcbs)
  BY ElapsedWaiting DEF Coherent, WaitingAfter
<1> QED
  BY <1>1, WakeupStep DEF Coherent, ReadyOnNext, WaitingOnNext

\* The final decisions.
LEMMA HaltStep ==
  ASSUME Coherent, NEW kind \in Final, Halt(kind)
  PROVE  Coherent'
BY NextStep DEF Coherent, Halt, DecisionMatchesState, Outcome, Decision, Final

-----------------------------------------------------------------------------
(* Every call keeps the invariant. *)

LEMMA InitCoherent == Init => Coherent
BY RoundRobinAssumption
   DEF Init, Coherent, Nothing, DecisionMatchesState, Outcome, Decision

LEMMA StartCoherent ==
  ASSUME Coherent, Start
  PROVE  Coherent'
<1>1. Nothing
  BY DEF Coherent, Start
<1>2. sleep_time' = 0
  BY DEF Coherent, Start, DecisionMatchesState
<1>3. highest_pid' = 1 /\ ready_processes' = <<NewPcb(1)>>
  BY <1>1 DEF Start, Nothing
<1>4. NewPcb(1) \in ReadyPcbs
  BY NewPcbReady DEF Pid
<1>5. 1 \in 0..MaxPid
  BY RoundRobinAssumption
<1> QED
  BY <1>1, <1>2, <1>3, <1>4, <1>5, StoppedStep DEF Coherent, Start, Nothing

LEMMA ExpiredCoherent ==
  ASSUME Coherent, Expired
  PROVE  Coherent'
<1> DEFINE waiting == WaitingAfter(remaining_time)
<1>1. PICK p \in running_process :
         /\ Yield(p, ready_processes \o Woken(waiting))
         /\ waiting_processes' = StillWaiting(waiting)
  BY DEF Expired
<1>2. p \in PcbType /\ sleep_time = 0 /\ waiting \in Seq(WaitingPcbs)
  BY <1>1, RunningStep DEF Expired, Coherent
<1> HIDE DEF waiting
<1>3. /\ ready_processes \o Woken(waiting) \in Seq(ReadyPcbs)
      /\ StillWaiting(waiting) \in Seq(WaitingPcbs)
  BY <1>2, WakeupStep DEF Coherent
<1>4. /\ running_process' = {}
      /\ ready_processes' \in Seq(ReadyPcbs)
      /\ remaining_time' \in 0..Timeslice
  BY <1>1, <1>2, <1>3, YieldStep
<1> QED
  BY <1>1, <1>2, <1>3, <1>4, StoppedStep DEF Expired, Coherent

LEMMA ForkCoherent ==
  ASSUME Coherent, NEW remaining \in Remaining, Fork(remaining)
  PROVE  Coherent'
<1> DEFINE waiting == WaitingAfter(remaining_time - remaining)
           forked == Append(ready_processes, NewPcb(highest_pid + 1))
<1>1. PICK p \in running_process :
         /\ ContinueOrYield(p, forked \o Woken(waiting), remaining)
         /\ waiting_processes' = StillWaiting(waiting)
  BY DEF Fork
<1>2. p \in PcbType /\ p.wakeup = NoWakeup /\ sleep_time = 0
  BY <1>1, RunningStep DEF Fork
<1>3. remaining \in 0..Timeslice /\ waiting \in Seq(WaitingPcbs)
  BY <1>1, RunningStep, RemainingStep DEF Fork
<1>4. highest_pid + 1 \in Pid /\ highest_pid' \in 0..MaxPid
  BY RoundRobinAssumption DEF Fork, Coherent, Pid
<1>5. forked \in Seq(ReadyPcbs)
  BY <1>4, NewPcbReady DEF Coherent
<1> HIDE DEF waiting, forked
<1>6. /\ forked \o Woken(waiting) \in Seq(ReadyPcbs)
      /\ StillWaiting(waiting) \in Seq(WaitingPcbs)
  BY <1>3, <1>5, WakeupStep
<1>7. /\ running_process' \in SUBSET RunningPcbs
      /\ \A q, r \in running_process' : q = r
      /\ ready_processes' \in Seq(ReadyPcbs)
      /\ remaining_time' \in 0..Timeslice
  BY <1>1, <1>2, <1>3, <1>6, ContinueOrYieldStep
<1> QED
  BY <1>1, <1>2, <1>4, <1>6, <1>7, StoppedStep DEF Fork

LEMMA SignalCoherent ==
  ASSUME Coherent, NEW event, NEW remaining \in Remaining, Signal(event, remaining)
  PROVE  Coherent'
<1> DEFINE waiting == Notified(WaitingAfter(remaining_time - remaining), event)
<1>1. PICK p \in running_process :
         /\ ContinueOrYield(p, ready_processes \o Woken(waiting), remaining)
         /\ waiting_processes' = StillWaiting(waiting)
  BY DEF Signal
<1>2. p \in PcbType /\ p.wakeup = NoWakeup /\ sleep_time = 0
  BY <1>1, RunningStep DEF Signal
<1>3. remaining \in 0..Timeslice /\ waiting \in Seq(WaitingPcbs)
  BY <1>1, RunningStep, RemainingStep, NotifiedWaiting DEF Signal
<1> HIDE DEF waiting
<1>4. /\ ready_processes \o Woken(waiting) \in Seq(ReadyPcbs)
      /\ StillWaiting(waiting) \in Seq(WaitingPcbs)
  BY <1>3, WakeupStep DEF Coherent
<1>5. /\ running_process' \in SUBSET RunningPcbs
      /\ \A q, r \in running_process' : q = r
      /\ ready_processes' \in Seq(ReadyPcbs)
      /\ remaining_time' \in 0..Timeslice
  BY <1>1, <1>2, <1>3, <1>4, ContinueOrYieldStep
<1> QED
  BY <1>1, <1>2, <1>4, <1>5, StoppedStep DEF Signal, Coherent

LEMMA BlockCoherent ==
  ASSUME Coherent, decision.kind = "Run", NEW remaining \in Remaining,
         NEW p \in running_process, NEW asleep \in WaitingPcbs,
         Block(asleep, remaining)
  PROVE  Coherent'
<1>1. sleep_time = 0 /\ WaitingAfter(remaining_time - remaining) \in Seq(WaitingPcbs)
  BY RunningStep, RemainingStep
<1>2. waiting_processes' \in Seq(WaitingPcbs)
  BY <1>1 DEF Block
<1> QED
  BY <1>1, <1>2, StoppedStep DEF Block, Coherent

LEMMA SleepCoherent ==
  ASSUME Coherent, NEW time \in SleepTimes, NEW remaining \in Remaining,
         Sleep(time, remaining)
  PROVE  Coherent'
<1>1. PICK p \in running_process : Block(PutToSleep(p, time), remaining)
  BY DEF Sleep
<1>2. PutToSleep(p, time) \in WaitingPcbs
  BY <1>1, RunningStep, PcbOperations, RoundRobinAssumption DEF Sleep
<1> QED
  BY <1>1, <1>2, BlockCoherent DEF Sleep

LEMMA WaitCoherent ==
  ASSUME Coherent, NEW event \in Events, NEW remaining \in Remaining,
         Wait(event, remaining)
  PROVE  Coherent'
<1>1. PICK p \in running_process : Block(AwaitEvent(p, event), remaining)
  BY DEF Wait
<1>2. AwaitEvent(p, event) \in WaitingPcbs
  BY <1>1, RunningStep, PcbOperations DEF Wait
<1> QED
  BY <1>1, <1>2, BlockCoherent DEF Wait

LEMMA ExitCoherent ==
  ASSUME Coherent, NEW remaining \in Remaining, Exit(remaining)
  PROVE  Coherent'
<1> DEFINE waiting == WaitingAfter(remaining_time - remaining)
<1>1. PICK p \in running_process : TRUE
  BY DEF Exit, Coherent, DecisionMatchesState
<1>2. sleep_time = 0 /\ waiting \in Seq(WaitingPcbs)
  BY <1>1, RunningStep, RemainingStep DEF Exit
<1>3. running_process \in SUBSET PcbType
  BY DEF Coherent, RunningPcbs
<1>4. /\ ready_processes' = ready_processes \o Woken(waiting)
      /\ waiting_processes' = StillWaiting(waiting)
  BY DEF Exit
<1> HIDE DEF waiting
<1>5. /\ ready_processes' \in Seq(ReadyPcbs)
      /\ waiting_processes' \in Seq(WaitingPcbs)
  BY <1>2, <1>4, WakeupStep DEF Coherent
<1> QED
  BY <1>2, <1>3, <1>5, StoppedStep DEF Exit, Coherent

LEMMA ContinueCoherent ==
  ASSUME Coherent, DecideContinue
  PROVE  Coherent'
<1>1. PICK p \in running_process :
         decision' = NonZero(remaining_time, RunFor(p.pid, remaining_time))
  BY DEF DecideContinue
<1>2. p.pid \in Nat /\ remaining_time \in Nat
  BY <1>1, RoundRobinAssumption DEF Coherent, RunningPcbs, PcbType, Pid
<1>3. decision' \in Decision
  BY <1>1, <1>2 DEF NonZero, RunFor, Outcome, Decision, Final
<1>4. decision'.kind = "Run" => decision' = RunFor(p.pid, remaining_time)
  BY <1>1 DEF NonZero, RunFor, Outcome
<1>5. decision'.kind \in {"Run", "Abort"}
  BY <1>1 DEF NonZero, RunFor, Outcome
<1>6. DecisionMatchesState'
  BY <1>4, <1>5 DEF DecisionMatchesState, DecideContinue
<1> QED
  BY <1>3, <1>5, <1>6, NextStep DEF Coherent, DecideContinue

LEMMA DispatchCoherent ==
  ASSUME Coherent, DecideDispatch
  PROVE  Coherent'
<1> DEFINE p == Head(ReadyOnNext)
<1>1. p \in ReadyPcbs /\ Tail(ReadyOnNext) \in Seq(ReadyPcbs)
  BY NextStep, HeadTailProperties DEF DecideDispatch
<1>2. p \in PcbType /\ p.wakeup = NoWakeup /\ p.pid \in Nat
  BY <1>1 DEF ReadyPcbs, Parked, PcbType, Pid
<1>3. SetRunning(p) \in RunningPcbs /\ SetRunning(p).pid = p.pid
  BY <1>2, PcbOperations DEF SetRunning, PcbType
<1>4. Timeslice \in 0..Timeslice /\ Timeslice \in Nat
  BY RoundRobinAssumption
<1>5. /\ running_process' = {SetRunning(p)}
      /\ remaining_time' = Timeslice
      /\ decision' = RunFor(p.pid, Timeslice)
      /\ sleep_time' = 0
  BY DEF DecideDispatch, Dispatch
<1> HIDE DEF p
<1>6. decision' \in Decision /\ decision'.kind = "Run"
  BY <1>2, <1>4, <1>5 DEF RunFor, Decision
<1>7. DecisionMatchesState'
  BY <1>3, <1>5, <1>6 DEF DecisionMatchesState
<1>8. ready_processes' \in Seq(ReadyPcbs) /\ waiting_processes' \in Seq(WaitingPcbs)
  BY <1>1, NextStep DEF DecideDispatch
<1> QED
  BY <1>3, <1>4, <1>5, <1>6, <1>7, <1>8 DEF Coherent, DecideDispatch

LEMMA SleepDecisionCoherent ==
  ASSUME Coherent, DecideSleep
  PROVE  Coherent'
<1>1. PICK time \in FindSleepTime(WaitingOnNext) : PlanSleep(time)
  BY DEF DecideSleep
<1>2. time \in Nat
  BY <1>1, NextStep, SleepTimeIsNat
<1>3. sleep_time' = time /\ decision' = NonZero(time, SleepFor(time))
  BY <1>1 DEF PlanSleep
<1>4. decision' \in Decision /\ decision'.kind \in {"Sleep", "Abort"}
  BY <1>2, <1>3 DEF NonZero, SleepFor, Outcome, Decision, Final
<1>5. /\ decision'.kind = "Sleep" => decision' = SleepFor(time)
      /\ time # 0 => decision'.kind = "Sleep"
  BY <1>3 DEF NonZero, SleepFor, Outcome
<1>6. running_process' = {} /\ ready_processes' = << >>
  BY DEF DecideSleep, NobodyToRun
<1>7. DecisionMatchesState'
  BY <1>3, <1>4, <1>5, <1>6 DEF DecisionMatchesState
<1> QED
  BY <1>2, <1>3, <1>4, <1>6, <1>7, NextStep DEF Coherent, DecideSleep

LEMMA StopCoherent ==
  ASSUME Coherent, Stop
  PROVE  Coherent'
<1>1. CASE Start
  BY <1>1, StartCoherent
<1>2. CASE Expired
  BY <1>2, ExpiredCoherent
<1>3. ASSUME NEW remaining \in Remaining, Fork(remaining) PROVE Coherent'
  BY <1>3, ForkCoherent
<1>4. ASSUME NEW remaining \in Remaining, Exit(remaining) PROVE Coherent'
  BY <1>4, ExitCoherent
<1>5. ASSUME NEW remaining \in Remaining, NEW event \in Events, Signal(event, remaining)
      PROVE  Coherent'
  BY <1>5, SignalCoherent
<1>6. ASSUME NEW remaining \in Remaining, NEW event \in Events, Wait(event, remaining)
      PROVE  Coherent'
  BY <1>6, WaitCoherent
<1>7. ASSUME NEW remaining \in Remaining, NEW time \in SleepTimes, Sleep(time, remaining)
      PROVE  Coherent'
  BY <1>7, SleepCoherent
<1> QED
  BY <1>1, <1>2, <1>3, <1>4, <1>5, <1>6, <1>7 DEF Stop

LEMMA NextDecisionCoherent ==
  ASSUME Coherent, NextDecision
  PROVE  Coherent'
<1>1. CASE DecideDone
  BY <1>1, HaltStep DEF DecideDone, Final
<1>2. CASE DecidePanic
  BY <1>2, HaltStep DEF DecidePanic, Final
<1>3. CASE DecideContinue
  BY <1>3, ContinueCoherent
<1>4. CASE DecideDispatch
  BY <1>4, DispatchCoherent
<1>5. CASE DecideSleep
  BY <1>5, SleepDecisionCoherent
<1>6. CASE DecideDeadlock
  BY <1>6, HaltStep DEF DecideDeadlock, Final
<1> QED
  BY <1>1, <1>2, <1>3, <1>4, <1>5, <1>6 DEF NextDecision

LEMMA StutterCoherent ==
  ASSUME Coherent, UNCHANGED vars
  PROVE  Coherent'
BY DEF Coherent, Nothing, DecisionMatchesState, vars

LEMMA NextCoherent == Coherent /\ [Next]_vars => Coherent'
BY StopCoherent, NextDecisionCoherent, StutterCoherent DEF Next, Halted

\* The PCBs are always in the places their state says, and the decision is matched.
THEOREM Coherence == Spec => []Coherent
<1>1. Init => Coherent
  BY InitCoherent
<1>2. Coherent /\ [Next]_vars => Coherent'
  BY NextCoherent
<1> QED
  BY <1>1, <1>2, PTL DEF Spec

-----------------------------------------------------------------------------
(* What the invariant says of the checked properties. *)

LEMMA ListTypes ==
  /\ RunningPcbs \subseteq PcbType
  /\ Seq(ReadyPcbs) \subseteq Seq(PcbType)
  /\ Seq(WaitingPcbs) \subseteq Seq(PcbType)
<1>1. RunningPcbs \subseteq PcbType /\ ReadyPcbs \subseteq PcbType /\ WaitingPcbs \subseteq PcbType
  BY DEF RunningPcbs, ReadyPcbs, WaitingPcbs
<1> QED
  BY <1>1, SeqMonotonic

(***************************************************************************)
(* Type correctness of the scheduler's state through every sequence of     *)
(* calls; in particular remaining_time never exceeds the timeslice and the *)
(* two Options hold at most one process.                                   *)
(***************************************************************************)
THEOREM TypeCorrect == Spec => []TypeOK
<1>1. Coherent => TypeOK
  BY ListTypes DEF Coherent, TypeOK
<1> QED
  BY <1>1, Coherence, PTL

(***************************************************************************)
(* The state and the wakeup condition written in a PCB always agree with   *)
(* the place the scheduler keeps it in.                                    *)
(***************************************************************************)
THEOREM PlacesMatch == Spec => []StateMatchesPlace
<1>1. ASSUME NEW S, NEW list \in Seq(S), NEW i \in DOMAIN list
      PROVE  list[i] \in S
  OBVIOUS
<1>2. Coherent => StateMatchesPlace
  BY <1>1 DEF Coherent, StateMatchesPlace, RunningPcbs, ReadyPcbs, WaitingPcbs
<1> QED
  BY <1>2, Coherence, PTL

(***************************************************************************)
(* The decision the processor acts on always agrees with what the scheduler*)
(* will do in the next call: who runs, for how long, and which sleep is    *)
(* still to be played.                                                     *)
(***************************************************************************)
THEOREM DecisionsMatch == Spec => []DecisionMatchesState
<1>1. Coherent => DecisionMatchesState
  BY DEF Coherent
<1> QED
  BY <1>1, Coherence, PTL

-----------------------------------------------------------------------------
(* Each process once. *)

LEMMA OnceNow ==
  ASSUME EachProcessOnce
  PROVE  Apart(RunningPids, ready_processes, waiting_processes, highest_pid)
BY DEF EachProcessOnce, Apart, ReadyPids, WaitingPids, LivePids

LEMMA OnceNext ==
  ASSUME NEW R, RunningPids' = R,
         Apart(R, ready_processes', waiting_processes', highest_pid')
  PROVE  EachProcessOnce'
BY DEF EachProcessOnce, Apart, ReadyPids, WaitingPids, LivePids

\* Time passes, or a signal is sent, for the waiting list.
LEMMA OnceElapsed ==
  ASSUME NEW R, NEW q, NEW w \in Seq(PcbType), NEW h, NEW time, Apart(R, q, w, h)
  PROVE  Apart(R, q, Elapsed(w, time), h)
<1>1. \A i \in DOMAIN w : w[i] \in PcbType
  OBVIOUS
<1> QED
  BY <1>1, ElapsedPids DEF Apart

LEMMA OnceNotified ==
  ASSUME NEW R, NEW q, NEW w \in Seq(PcbType), NEW h, NEW event, Apart(R, q, w, h)
  PROVE  Apart(R, q, Notified(w, event), h)
<1>1. \A i \in DOMAIN w : w[i] \in PcbType
  OBVIOUS
<1> QED
  BY <1>1, NotifiedPids DEF Apart

-----------------------------------------------------------------------------
(* Every call keeps each process in one place. *)

\* Changing the state of a process does not change who it is.
LEMMA SamePid ==
  ASSUME NEW p \in PcbType
  PROVE  /\ SetRunning(p).pid = p.pid /\ SetReady(p).pid = p.pid
         /\ \A time : PutToSleep(p, time).pid = p.pid
         /\ \A event : AwaitEvent(p, event).pid = p.pid
BY DEF SetRunning, SetReady, PutToSleep, AwaitEvent, PcbType

\* What a stop of the running process p starts from.
LEMMA RunningOnce ==
  ASSUME Coherent, EachProcessOnce, decision.kind = "Run", NEW p \in running_process,
         NEW time \in Nat
  PROVE  /\ WaitingAfter(time) \in Seq(PcbType)
         /\ Apart({p.pid}, ready_processes, WaitingAfter(time), highest_pid)
<1>1. RunningPids = {p.pid}
  BY RunningStep DEF RunningPids
<1>2. waiting_processes \in Seq(PcbType)
  BY ListTypes DEF Coherent
<1> QED
  BY <1>1, <1>2, OnceNow, OnceElapsed, RunningStep, ListTypes DEF WaitingAfter

LEMMA YieldOnce ==
  ASSUME NEW p \in PcbType, NEW queue \in Seq(PcbType),
         Apart({p.pid}, queue, waiting_processes', highest_pid'),
         Yield(p, queue)
  PROVE  EachProcessOnce'
<1>1. SetReady(p) \in PcbType /\ SetReady(p).pid = p.pid
  BY PcbOperations, SamePid DEF ReadyPcbs
<1>2. Apart({}, Append(queue, SetReady(p)), waiting_processes', highest_pid')
  BY <1>1, ApartReady
<1>3. RunningPids' = {} /\ ready_processes' = Append(queue, SetReady(p))
  BY DEF RunningPids, Yield, Enqueue
<1> QED
  BY <1>2, <1>3, OnceNext

LEMMA ContinueOrYieldOnce ==
  ASSUME NEW p \in PcbType, NEW queue \in Seq(PcbType), NEW remaining,
         Apart({p.pid}, queue, waiting_processes', highest_pid'),
         ContinueOrYield(p, queue, remaining)
  PROVE  EachProcessOnce'
<1>1. CASE Yield(p, queue)
  BY <1>1, YieldOnce
<1>2. CASE running_process' = {SetRunning(p)} /\ ready_processes' = queue
  <2>1. RunningPids' = {p.pid}
    BY <1>2, SamePid DEF RunningPids
  <2> QED
    BY <1>2, <2>1, OnceNext
<1> QED
  BY <1>1, <1>2 DEF ContinueOrYield

LEMMA StartOnce ==
  ASSUME Coherent, Start
  PROVE  EachProcessOnce'
<1>1. Nothing
  BY DEF Coherent, Start
<1>2. /\ running_process' = {} /\ waiting_processes' = << >>
      /\ highest_pid' = 1 /\ ready_processes' = <<NewPcb(1)>>
  BY <1>1 DEF Start, Nothing
<1>3. NewPcb(1) \in PcbType /\ NewPcb(1).pid = 0 + 1
  BY NewPcbReady DEF ReadyPcbs, Pid, NewPcb
<1>4. Apart({}, << >>, << >>, 0)
  BY DEF Apart, Pids, PidsDiffer
<1>5. Apart({}, Append(<< >>, NewPcb(1)), << >>, 0 + 1)
  <2>1. << >> \in Seq(PcbType)
    OBVIOUS
  <2> QED
    BY <1>3, <1>4, <2>1, ApartForked
<1>6. Append(<< >>, NewPcb(1)) = <<NewPcb(1)>> /\ 0 + 1 = 1
  OBVIOUS
<1>7. RunningPids' = {}
  BY <1>2 DEF RunningPids
<1> QED
  BY <1>2, <1>5, <1>6, <1>7, OnceNext

LEMMA ExpiredOnce ==
  ASSUME Coherent, EachProcessOnce, Expired
  PROVE  EachProcessOnce'
<1> DEFINE waiting == WaitingAfter(remaining_time)
<1>1. PICK p \in running_process :
         /\ Yield(p, ready_processes \o Woken(waiting))
         /\ waiting_processes' = StillWaiting(waiting)
  BY DEF Expired
<1>2. remaining_time \in Nat /\ highest_pid' = highest_pid /\ p \in PcbType
  BY <1>1, RunningStep, RoundRobinAssumption DEF Expired
<1>3. waiting \in Seq(PcbType) /\ Apart({p.pid}, ready_processes, waiting, highest_pid)
  BY <1>1, <1>2, RunningOnce DEF Expired
<1>4. ready_processes \in Seq(PcbType)
  BY ListTypes DEF Coherent
<1> HIDE DEF waiting
<1>5. Apart({p.pid}, ready_processes \o Woken(waiting), StillWaiting(waiting), highest_pid)
  BY <1>3, <1>4, ApartWakeup
<1>6. ready_processes \o Woken(waiting) \in Seq(PcbType)
  BY <1>3, <1>4, WokenSeq
<1> QED
  BY <1>1, <1>2, <1>5, <1>6, YieldOnce

LEMMA ForkOnce ==
  ASSUME Coherent, EachProcessOnce, NEW remaining \in Remaining, Fork(remaining)
  PROVE  EachProcessOnce'
<1> DEFINE waiting == WaitingAfter(remaining_time - remaining)
           child == NewPcb(highest_pid + 1)
           queue == Append(ready_processes, child)
<1>1. PICK p \in running_process :
         /\ ContinueOrYield(p, queue \o Woken(waiting), remaining)
         /\ waiting_processes' = StillWaiting(waiting)
  BY DEF Fork
<1>2. /\ highest_pid' = highest_pid + 1 /\ p \in PcbType
      /\ remaining_time - remaining \in Nat
  BY <1>1, RunningStep, RemainingStep DEF Fork
<1>3. waiting \in Seq(PcbType) /\ Apart({p.pid}, ready_processes, waiting, highest_pid)
  BY <1>1, <1>2, RunningOnce DEF Fork
<1>4. ready_processes \in Seq(PcbType) /\ highest_pid \in Nat
  BY ListTypes, RoundRobinAssumption DEF Coherent
<1>5. child \in PcbType /\ child.pid = highest_pid + 1
  BY <1>4, NewPcbReady DEF ReadyPcbs, Pid, NewPcb
<1> HIDE DEF waiting, child
<1>6. queue \in Seq(PcbType) /\ Apart({p.pid}, queue, waiting, highest_pid + 1)
  BY <1>3, <1>4, <1>5, ApartForked
<1> HIDE DEF queue
<1>7. /\ Apart({p.pid}, queue \o Woken(waiting), StillWaiting(waiting), highest_pid')
      /\ queue \o Woken(waiting) \in Seq(PcbType)
  BY <1>2, <1>3, <1>6, ApartWakeup, WokenSeq
<1> QED
  BY <1>1, <1>2, <1>7, ContinueOrYieldOnce

LEMMA SignalOnce ==
  ASSUME Coherent, EachProcessOnce, NEW event, NEW remaining \in Remaining,
         Signal(event, remaining)
  PROVE  EachProcessOnce'
<1> DEFINE before == WaitingAfter(remaining_time - remaining)
           waiting == Notified(before, event)
<1>1. PICK p \in running_process :
         /\ ContinueOrYield(p, ready_processes \o Woken(waiting), remaining)
         /\ waiting_processes' = StillWaiting(waiting)
  BY DEF Signal
<1>2. /\ highest_pid' = highest_pid /\ p \in PcbType
      /\ remaining_time - remaining \in Nat
  BY <1>1, RunningStep, RemainingStep DEF Signal
<1>3. before \in Seq(PcbType) /\ Apart({p.pid}, ready_processes, before, highest_pid)
  BY <1>1, <1>2, RunningOnce DEF Signal
<1>4. waiting \in Seq(PcbType)
  <2>1. waiting \in Seq(WaitingPcbs)
    BY <1>1, <1>2, RunningStep, NotifiedWaiting DEF Signal
  <2> QED
    BY <2>1, ListTypes
<1>5. ready_processes \in Seq(PcbType)
  BY ListTypes DEF Coherent
<1> HIDE DEF before
<1>6. Apart({p.pid}, ready_processes, waiting, highest_pid)
  BY <1>3, OnceNotified
<1> HIDE DEF waiting
<1>7. /\ Apart({p.pid}, ready_processes \o Woken(waiting), StillWaiting(waiting), highest_pid)
      /\ ready_processes \o Woken(waiting) \in Seq(PcbType)
  BY <1>4, <1>5, <1>6, ApartWakeup, WokenSeq
<1> QED
  BY <1>1, <1>2, <1>7, ContinueOrYieldOnce

LEMMA BlockOnce ==
  ASSUME Coherent, EachProcessOnce, decision.kind = "Run", NEW remaining \in Remaining,
         NEW p \in running_process, NEW asleep \in PcbType, asleep.pid = p.pid,
         Block(asleep, remaining)
  PROVE  EachProcessOnce'
<1> DEFINE waiting == WaitingAfter(remaining_time - remaining)
<1>1. remaining_time - remaining \in Nat
  BY RunningStep, RemainingStep
<1>2. waiting \in Seq(PcbType) /\ Apart({asleep.pid}, ready_processes, waiting, highest_pid)
  BY <1>1, RunningOnce
<1>3. /\ waiting_processes' = Append(waiting, asleep) /\ running_process' = {}
      /\ ready_processes' = ready_processes /\ highest_pid' = highest_pid
  BY DEF Block
<1> HIDE DEF waiting
<1>4. Apart({}, ready_processes, Append(waiting, asleep), highest_pid)
  BY <1>2, ApartBlocked
<1>5. RunningPids' = {}
  BY <1>3 DEF RunningPids
<1> QED
  BY <1>3, <1>4, <1>5, OnceNext

LEMMA SleepWaitOnce ==
  ASSUME Coherent, EachProcessOnce, NEW remaining \in Remaining,
         \/ \E time \in SleepTimes : Sleep(time, remaining)
         \/ \E event \in Events : Wait(event, remaining)
  PROVE  EachProcessOnce'
<1>1. ASSUME NEW p \in PcbType
      PROVE  /\ \A time \in SleepTimes :
                   PutToSleep(p, time) \in PcbType /\ PutToSleep(p, time).pid = p.pid
             /\ \A event \in Events :
                   AwaitEvent(p, event) \in PcbType /\ AwaitEvent(p, event).pid = p.pid
  BY PcbOperations, SamePid, RoundRobinAssumption DEF WaitingPcbs
<1>2. CASE \E time \in SleepTimes : Sleep(time, remaining)
  <2>1. PICK time \in SleepTimes, p \in running_process : Block(PutToSleep(p, time), remaining)
    BY <1>2 DEF Sleep
  <2>2. decision.kind = "Run" /\ p \in PcbType
    BY <1>2, <2>1, RunningStep DEF Sleep
  <2> QED
    BY <1>1, <2>1, <2>2, BlockOnce
<1>3. CASE \E event \in Events : Wait(event, remaining)
  <2>1. PICK event \in Events, p \in running_process : Block(AwaitEvent(p, event), remaining)
    BY <1>3 DEF Wait
  <2>2. decision.kind = "Run" /\ p \in PcbType
    BY <1>3, <2>1, RunningStep DEF Wait
  <2> QED
    BY <1>1, <2>1, <2>2, BlockOnce
<1> QED
  BY <1>2, <1>3

LEMMA ExitOnce ==
  ASSUME Coherent, EachProcessOnce, NEW remaining \in Remaining, Exit(remaining)
  PROVE  EachProcessOnce'
<1> DEFINE waiting == WaitingAfter(remaining_time - remaining)
<1>1. PICK p \in running_process : TRUE
  BY DEF Exit, Coherent, DecisionMatchesState
<1>2. remaining_time - remaining \in Nat
  BY <1>1, RunningStep, RemainingStep DEF Exit
<1>3. waiting \in Seq(PcbType) /\ Apart({p.pid}, ready_processes, waiting, highest_pid)
  BY <1>1, <1>2, RunningOnce DEF Exit
<1>4. ready_processes \in Seq(PcbType)
  BY ListTypes DEF Coherent
<1>5. /\ ready_processes' = ready_processes \o Woken(waiting)
      /\ waiting_processes' = StillWaiting(waiting)
      /\ running_process' = {} /\ highest_pid' = highest_pid
  BY DEF Exit
<1> HIDE DEF waiting
<1>6. Apart({}, ready_processes, waiting, highest_pid)
  BY <1>3 DEF Apart
<1>7. Apart({}, ready_processes \o Woken(waiting), StillWaiting(waiting), highest_pid)
  BY <1>3, <1>4, <1>6, ApartWakeup
<1>8. RunningPids' = {}
  BY <1>5 DEF RunningPids
<1> QED
  BY <1>5, <1>7, <1>8, OnceNext

\* Nothing moves but for the sleep that was announced.
LEMMA NextOnce ==
  ASSUME Coherent, EachProcessOnce
  PROVE  Apart(RunningPids, ReadyOnNext, WaitingOnNext, highest_pid)
<1>1. /\ ready_processes \in Seq(PcbType)
      /\ waiting_processes \in Seq(PcbType)
      /\ WaitingAfter(sleep_time) \in Seq(PcbType)
  BY ElapsedWaiting, ListTypes DEF Coherent, WaitingAfter
<1>2. Apart(RunningPids, ready_processes, WaitingAfter(sleep_time), highest_pid)
  BY <1>1, OnceNow, OnceElapsed DEF WaitingAfter
<1>3. Apart(RunningPids, ready_processes \o Woken(WaitingAfter(sleep_time)),
           StillWaiting(WaitingAfter(sleep_time)), highest_pid)
  BY <1>1, <1>2, ApartWakeup
<1> QED
  BY <1>3, OnceNow DEF ReadyOnNext, WaitingOnNext

\* The decisions that leave the running process and the lists as they are.
LEMMA DecideOnce ==
  ASSUME Coherent, EachProcessOnce,
         ready_processes' = ReadyOnNext,
         waiting_processes' = WaitingOnNext,
         UNCHANGED <<running_process, highest_pid>>
  PROVE  EachProcessOnce'
BY NextOnce, OnceNext DEF RunningPids

LEMMA DispatchOnce ==
  ASSUME Coherent, EachProcessOnce, DecideDispatch
  PROVE  EachProcessOnce'
<1> DEFINE p == Head(ReadyOnNext)
<1>1. /\ ready_processes' = Tail(ReadyOnNext) /\ waiting_processes' = WaitingOnNext
      /\ running_process' = {SetRunning(p)} /\ highest_pid' = highest_pid
      /\ running_process = {} /\ ReadyOnNext # << >>
  BY DEF DecideDispatch, Dispatch
<1>2. Apart({}, ReadyOnNext, WaitingOnNext, highest_pid)
  BY <1>1, NextOnce DEF RunningPids
<1>3. ReadyOnNext \in Seq(PcbType)
  BY NextStep, ListTypes
<1>4. p \in PcbType
  BY <1>1, <1>3, HeadTailProperties
<1>5. RunningPids' = {p.pid}
  BY <1>1, <1>4, SamePid DEF RunningPids
<1>6. Apart({p.pid}, Tail(ReadyOnNext), WaitingOnNext, highest_pid)
  BY <1>1, <1>2, <1>3, ApartDispatched
<1> QED
  BY <1>1, <1>5, <1>6, OnceNext

LEMMA StopOnce ==
  ASSUME Coherent, EachProcessOnce, Stop
  PROVE  EachProcessOnce'
<1>1. CASE Start
  BY <1>1, StartOnce
<1>2. CASE Expired
  BY <1>2, ExpiredOnce
<1>3. ASSUME NEW remaining \in Remaining, Fork(remaining) PROVE EachProcessOnce'
  BY <1>3, ForkOnce
<1>4. ASSUME NEW remaining \in Remaining, Exit(remaining) PROVE EachProcessOnce'
  BY <1>4, ExitOnce
<1>5. ASSUME NEW remaining \in Remaining, NEW event \in Events, Signal(event, remaining)
      PROVE  EachProcessOnce'
  BY <1>5, SignalOnce
<1>6. ASSUME NEW remaining \in Remaining,
             \/ \E time \in SleepTimes : Sleep(time, remaining)
             \/ \E event \in Events : Wait(event, remaining)
      PROVE  EachProcessOnce'
  BY <1>6, SleepWaitOnce
<1> QED
  BY <1>1, <1>2, <1>3, <1>4, <1>5, <1>6 DEF Stop

LEMMA NextDecisionOnce ==
  ASSUME Coherent, EachProcessOnce, NextDecision
  PROVE  EachProcessOnce'
<1>1. CASE DecideDispatch
  BY <1>1, DispatchOnce
<1>2. CASE DecideDone \/ DecidePanic \/ DecideDeadlock
  BY <1>2, DecideOnce DEF DecideDone, DecidePanic, DecideDeadlock, Halt
<1>3. CASE DecideContinue
  BY <1>3, DecideOnce DEF DecideContinue
<1>4. CASE DecideSleep
  BY <1>4, DecideOnce DEF DecideSleep
<1> QED
  BY <1>1, <1>2, <1>3, <1>4 DEF NextDecision

(***************************************************************************)
(* No process is ever in two places, or twice in one, and no PID is used   *)
(* twice, for any number of processes and any sequence of calls: the moves *)
(* through stopped_process and the cloned waiting list of wakeup_processes *)
(* neither duplicate nor mix up processes.                                 *)
(***************************************************************************)
THEOREM ProcessOnce == Spec => []EachProcessOnce
<1>1. Init => EachProcessOnce
  BY RoundRobinAssumption
     DEF Init, EachProcessOnce, RunningPids, ReadyPids, WaitingPids, LivePids, Pids, PidsDiffer
<1>2. Coherent /\ EachProcessOnce /\ [Next]_vars => EachProcessOnce'
  <2>1. ASSUME EachProcessOnce, UNCHANGED vars PROVE EachProcessOnce'
    BY <2>1 DEF vars, EachProcessOnce, RunningPids, ReadyPids, WaitingPids, LivePids
  <2> QED
    BY <2>1, StopOnce, NextDecisionOnce DEF Next, Halted
<1> QED
  BY <1>1, <1>2, Coherence, PTL DEF Spec

-----------------------------------------------------------------------------
(***************************************************************************)
(* next() always answers.  It calls exit(-1) when a process would go on for*)
(* no time, or when the shortest sleep is 0; neither happens if the minimum*)
(* remaining timeslice is not 0 and nobody asks to sleep for 0.            *)
(***************************************************************************)
PositiveTimes == MinimumRemainingTimeslice # 0 /\ 0 \notin SleepTimes

CountdownPcbs == {p \in WaitingPcbs : p.wakeup.kind = "Sleep" => p.wakeup.arg # 0}

TimeIsLeft ==
  /\ waiting_processes \in Seq(CountdownPcbs)
  /\ running_process # {} => remaining_time # 0
  /\ NeverAborts

\* A sleep that has not run out has some time left, whatever passes.
LEMMA CountdownLists ==
  ASSUME NEW list \in Seq(CountdownPcbs)
  PROVE  /\ \A time \in Nat : Elapsed(list, time) \in Seq(CountdownPcbs)
         /\ \A event : Notified(list, event) \in Seq(CountdownPcbs)
         /\ StillWaiting(list) \in Seq(CountdownPcbs)
<1>1. \A p \in PcbType : SetReady(p) \in CountdownPcbs
  BY PcbOperations, Kinds DEF CountdownPcbs, WaitingPcbs, ReadyPcbs, Parked
<1>2. ASSUME NEW p \in CountdownPcbs, NEW time \in Nat PROVE Elapse(p, time) \in CountdownPcbs
  <2>1. p \in PcbType /\ Elapse(p, time) \in WaitingPcbs
    BY ElapseWaiting DEF CountdownPcbs, WaitingPcbs
  <2>2. CASE p.wakeup.kind = "Sleep" /\ p.wakeup.arg > time
    <3>1. Elapse(p, time).wakeup = SleepWakeup(p.wakeup.arg - time)
      BY <2>1, <2>2 DEF Elapse, PcbType
    <3>2. p.wakeup.arg - time # 0
      BY <2>1, <2>2 DEF PcbType, WakeupCondition
    <3> QED
      BY <2>1, <3>1, <3>2 DEF CountdownPcbs, SleepWakeup
  <2> QED
    BY <2>1, <2>2, <1>1 DEF Elapse
<1>3. ASSUME NEW p \in CountdownPcbs, NEW event PROVE Notify(p, event) \in CountdownPcbs
  BY <1>1 DEF Notify, CountdownPcbs, WaitingPcbs
<1>4. ASSUME NEW time \in Nat PROVE Elapsed(list, time) \in Seq(CountdownPcbs)
  <2>1. \A i \in DOMAIN list : Elapsed(list, time)[i] \in CountdownPcbs
    BY <1>2 DEF Elapsed
  <2>2. Elapsed(list, time) = [i \in DOMAIN list |-> Elapsed(list, time)[i]]
    BY DEF Elapsed
  <2> QED
    BY <2>1, <2>2, MappedType
<1>5. ASSUME NEW event PROVE Notified(list, event) \in Seq(CountdownPcbs)
  <2>1. \A i \in DOMAIN list : Notified(list, event)[i] \in CountdownPcbs
    BY <1>3 DEF Notified
  <2>2. Notified(list, event) = [i \in DOMAIN list |-> Notified(list, event)[i]]
    BY DEF Notified
  <2> QED
    BY <2>1, <2>2, MappedType
<1>6. StillWaiting(list) \in Seq(CountdownPcbs)
  <2>1. {p \in CountdownPcbs : p.state # Ready} \subseteq CountdownPcbs
    OBVIOUS
  <2> QED
    BY <2>1, WakeupType, SeqMonotonic
<1> QED
  BY <1>4, <1>5, <1>6

\* The end of a stop: the process goes on only for at least the minimum.
LEMMA StoppedTime ==
  ASSUME PositiveTimes, TimeIsLeft, NEW waiting \in Seq(CountdownPcbs),
         NEW p, NEW queue, NEW remaining \in 0..Timeslice,
         ContinueOrYield(p, queue, remaining),
         waiting_processes' = StillWaiting(waiting),
         decision' = Outcome("Stopped")
  PROVE  TimeIsLeft'
<1>1. waiting_processes' \in Seq(CountdownPcbs)
  BY CountdownLists
<1>2. running_process' # {} => remaining_time' # 0
  BY RoundRobinAssumption DEF ContinueOrYield, Yield, PositiveTimes
<1> QED
  BY <1>1, <1>2 DEF TimeIsLeft, NeverAborts, Outcome

LEMMA StopTime ==
  ASSUME PositiveTimes, Coherent, TimeIsLeft, Stop
  PROVE  TimeIsLeft'
<1>1. \A time \in Nat : WaitingAfter(time) \in Seq(CountdownPcbs)
  BY CountdownLists DEF TimeIsLeft, WaitingAfter
<1>2. ASSUME running_process' = {}, decision' = Outcome("Stopped"),
             waiting_processes' \in Seq(CountdownPcbs)
      PROVE  TimeIsLeft'
  BY <1>2 DEF TimeIsLeft, NeverAborts, Outcome
<1>3. CASE Start
  BY <1>3, <1>2 DEF Start, Coherent, Nothing, TimeIsLeft
<1>4. CASE Expired
  <2>1. WaitingAfter(remaining_time) \in Seq(CountdownPcbs)
    BY <1>1, RoundRobinAssumption DEF Coherent
  <2>2. StillWaiting(WaitingAfter(remaining_time)) \in Seq(CountdownPcbs)
    BY <2>1, CountdownLists
  <2> QED
    BY <1>2, <1>4, <2>2 DEF Expired, Yield
<1>5. ASSUME NEW remaining \in Remaining
      PROVE  /\ remaining \in 0..Timeslice
             /\ WaitingAfter(remaining_time - remaining) \in Seq(CountdownPcbs)
  BY <1>1, RemainingStep DEF Coherent
<1>6. ASSUME NEW remaining \in Remaining, Fork(remaining) PROVE TimeIsLeft'
  BY <1>5, <1>6, StoppedTime DEF Fork
<1>7. ASSUME NEW remaining \in Remaining, Exit(remaining) PROVE TimeIsLeft'
  BY <1>2, <1>5, <1>7, CountdownLists DEF Exit
<1>8. ASSUME NEW remaining \in Remaining, NEW event \in Events, Signal(event, remaining)
      PROVE  TimeIsLeft'
  <2>1. Notified(WaitingAfter(remaining_time - remaining), event) \in Seq(CountdownPcbs)
    BY <1>5, CountdownLists
  <2> QED
    BY <1>5, <1>8, <2>1, StoppedTime DEF Signal
<1>9. ASSUME NEW remaining \in Remaining, NEW asleep \in CountdownPcbs, Block(asleep, remaining)
      PROVE  TimeIsLeft'
  BY <1>2, <1>5, <1>9 DEF Block
<1>10. ASSUME NEW remaining \in Remaining, NEW event \in Events, Wait(event, remaining)
       PROVE  TimeIsLeft'
  <2>1. PICK p \in running_process : Block(AwaitEvent(p, event), remaining)
    BY <1>10 DEF Wait
  <2>2. p \in PcbType
    BY <1>10, <2>1, RunningStep DEF Wait
  <2>3. AwaitEvent(p, event) \in CountdownPcbs
    BY <2>2, PcbOperations DEF CountdownPcbs, AwaitEvent, SignalWakeup, PcbType
  <2> QED
    BY <1>9, <2>1, <2>3
<1>11. ASSUME NEW remaining \in Remaining, NEW time \in SleepTimes, Sleep(time, remaining)
       PROVE  TimeIsLeft'
  <2>1. PICK p \in running_process : Block(PutToSleep(p, time), remaining)
    BY <1>11 DEF Sleep
  <2>2. p \in PcbType
    BY <1>11, <2>1, RunningStep DEF Sleep
  <2>3. time \in Nat /\ time # 0
    BY RoundRobinAssumption DEF PositiveTimes
  <2>4. PutToSleep(p, time).wakeup.arg = time
    BY <2>2 DEF PutToSleep, SleepWakeup, PcbType
  <2>5. PutToSleep(p, time) \in CountdownPcbs
    BY <2>2, <2>3, <2>4, PcbOperations DEF CountdownPcbs
  <2> QED
    BY <1>9, <2>1, <2>5
<1> QED
  BY <1>3, <1>4, <1>6, <1>7, <1>8, <1>10, <1>11 DEF Stop

LEMMA NextDecisionTime ==
  ASSUME PositiveTimes, Coherent, TimeIsLeft, NextDecision
  PROVE  TimeIsLeft'
<1>1. WaitingOnNext \in Seq(CountdownPcbs)
  <2>1. WaitingAfter(sleep_time) \in Seq(CountdownPcbs)
    BY CountdownLists DEF Coherent, TimeIsLeft, WaitingAfter
  <2> QED
    BY <2>1, CountdownLists DEF TimeIsLeft, WaitingOnNext
<1>2. waiting_processes' = WaitingOnNext
  BY DEF NextDecision, DecideDone, DecidePanic, DecideContinue, DecideDispatch,
         DecideSleep, DecideDeadlock, Halt
<1>3. running_process' # {} => remaining_time' # 0
  <2>1. CASE DecideDispatch
    BY <2>1, RoundRobinAssumption DEF DecideDispatch, Dispatch
  <2>2. CASE ~ DecideDispatch
    BY <2>2 DEF NextDecision, DecideDone, DecidePanic, DecideContinue,
                DecideSleep, DecideDeadlock, Halt, TimeIsLeft
  <2> QED
    BY <2>1, <2>2
<1>4. NeverAborts'
  <2>1. CASE DecideDone \/ DecidePanic \/ DecideDeadlock
    BY <2>1 DEF DecideDone, DecidePanic, DecideDeadlock, Halt, NeverAborts, Outcome
  <2>2. CASE DecideContinue
    BY <2>2 DEF DecideContinue, TimeIsLeft, NeverAborts, NonZero, RunFor
  <2>3. CASE DecideDispatch
    BY <2>3 DEF DecideDispatch, NeverAborts, RunFor
  <2>4. CASE DecideSleep
    <3>1. PICK time \in FindSleepTime(WaitingOnNext) : PlanSleep(time)
      BY <2>4 DEF DecideSleep
    <3>2. time # 0
      BY <1>1, <3>1 DEF FindSleepTime, SleepingTimes, CountdownPcbs
    <3> QED
      BY <3>1, <3>2 DEF PlanSleep, NeverAborts, NonZero, SleepFor
  <2> QED
    BY <2>1, <2>2, <2>3, <2>4 DEF NextDecision
<1> QED
  BY <1>1, <1>2, <1>3, <1>4 DEF TimeIsLeft

\* Whoever runs, and whoever sleeps, has some time to go, in every state.
LEMMA TimeStaysLeft ==
  ASSUME PositiveTimes
  PROVE  Spec => []TimeIsLeft
<1>1. Init => TimeIsLeft
  BY DEF Init, TimeIsLeft, NeverAborts, Outcome
<1>2. Coherent /\ TimeIsLeft /\ [Next]_vars => TimeIsLeft'
  <2>1. ASSUME TimeIsLeft, UNCHANGED vars PROVE TimeIsLeft'
    BY <2>1 DEF vars, TimeIsLeft, NeverAborts
  <2> QED
    BY <2>1, StopTime, NextDecisionTime DEF Next, Halted
<1> QED
  BY <1>1, <1>2, Coherence, PTL DEF Spec

(***************************************************************************)
(* With these two assumptions on the configuration and the programs, next()*)
(* always returns a decision and never ends the program with exit(-1).     *)
(***************************************************************************)
THEOREM NoAbort ==
  ASSUME PositiveTimes
  PROVE  Spec => []NeverAborts
<1>1. TimeIsLeft => NeverAborts
  BY DEF TimeIsLeft
<1> QED
  BY <1>1, TimeStaysLeft, PTL

-----------------------------------------------------------------------------
(***************************************************************************)
(* The order of service.                                                   *)
(***************************************************************************)
Grow(queue, longer) == \E more \in Seq(ReadyPcbs) : longer = queue \o more

LEMMA GrowNot ==
  ASSUME NEW queue \in Seq(ReadyPcbs)
  PROVE  Grow(queue, queue)
<1>1. << >> \in Seq(ReadyPcbs) /\ queue = queue \o << >>
  OBVIOUS
<1> QED
  BY <1>1 DEF Grow

LEMMA GrowAppend ==
  ASSUME NEW queue \in Seq(ReadyPcbs), NEW p \in ReadyPcbs
  PROVE  Grow(queue, Append(queue, p))
<1>1. <<p>> \in Seq(ReadyPcbs) /\ Append(queue, p) = queue \o <<p>>
  OBVIOUS
<1> QED
  BY <1>1 DEF Grow

LEMMA GrowTwice ==
  ASSUME NEW queue \in Seq(ReadyPcbs), NEW longer, NEW longest,
         Grow(queue, longer), Grow(longer, longest)
  PROVE  Grow(queue, longest)
<1>1. PICK more \in Seq(ReadyPcbs) : longer = queue \o more
  BY DEF Grow
<1>2. PICK most \in Seq(ReadyPcbs) : longest = longer \o most
  BY DEF Grow
<1>3. \A s, t, u \in Seq(ReadyPcbs) : (s \o t) \o u = s \o (t \o u)
  BY ConcatAssociative
<1>4. (queue \o more) \o most = queue \o (more \o most)
  BY <1>3
<1>5. more \o most \in Seq(ReadyPcbs)
  OBVIOUS
<1> QED
  BY <1>1, <1>2, <1>4, <1>5 DEF Grow

LEMMA GrowBegins ==
  ASSUME NEW queue \in Seq(ReadyPcbs), NEW longer, Grow(queue, longer)
  PROVE  BeginsWith(longer, queue)
BY ConcatPrefix DEF BeginsWith, Grow

\* The processes that are woken join the end of the queue.
LEMMA GrowWoken ==
  ASSUME NEW queue \in Seq(ReadyPcbs), NEW waiting \in Seq(WaitingPcbs)
  PROVE  /\ queue \o Woken(waiting) \in Seq(ReadyPcbs)
         /\ Grow(queue, queue \o Woken(waiting))
BY WakeupStep, WakeupWaiting DEF Grow

\* And so does a process that stops.
LEMMA GrowYield ==
  ASSUME NEW p \in PcbType, NEW queue \in Seq(ReadyPcbs), NEW remaining,
         ContinueOrYield(p, queue, remaining) \/ Yield(p, queue)
  PROVE  Grow(queue, ready_processes')
<1>1. SetReady(p) \in ReadyPcbs
  BY PcbOperations
<1>2. ready_processes' \in {queue, Append(queue, SetReady(p))}
  BY DEF ContinueOrYield, Yield, Enqueue
<1> QED
  BY <1>1, <1>2, GrowAppend, GrowNot

LEMMA StopGrows ==
  ASSUME Coherent, Stop
  PROVE  Grow(ready_processes, ready_processes')
<1>1. ready_processes \in Seq(ReadyPcbs)
  BY DEF Coherent
<1>2. ASSUME NEW queue \in Seq(ReadyPcbs), Grow(ready_processes, queue),
             NEW waiting \in Seq(WaitingPcbs), NEW p \in PcbType, NEW remaining,
             \/ ContinueOrYield(p, queue \o Woken(waiting), remaining)
             \/ Yield(p, queue \o Woken(waiting))
      PROVE  Grow(ready_processes, ready_processes')
  <2> DEFINE longer == queue \o Woken(waiting)
  <2>1. longer \in Seq(ReadyPcbs) /\ Grow(queue, longer)
    BY GrowWoken
  <2>2. Grow(longer, ready_processes')
    BY <1>2, <2>1, GrowYield
  <2> HIDE DEF longer
  <2>3. Grow(ready_processes, longer)
    BY <1>1, <1>2, <2>1, GrowTwice
  <2> QED
    BY <1>1, <2>2, <2>3, GrowTwice
<1>3. CASE Start
  <2>1. ready_processes = << >> /\ highest_pid + 1 \in Pid
    BY <1>3, RoundRobinAssumption DEF Start, Coherent, Nothing, Pid
  <2>2. <<NewPcb(highest_pid + 1)>> \in Seq(ReadyPcbs)
    BY <2>1, NewPcbReady
  <2>3. \A list \in Seq(ReadyPcbs) : << >> \o list = list
    OBVIOUS
  <2> QED
    BY <1>3, <2>1, <2>2, <2>3 DEF Start, Grow
<1>4. ASSUME NEW p \in running_process, decision.kind = "Run"
      PROVE  /\ p \in PcbType /\ remaining_time \in Nat
             /\ \A time \in Nat : WaitingAfter(time) \in Seq(WaitingPcbs)
  BY <1>4, RunningStep, RoundRobinAssumption
<1>5. \A remaining \in Remaining : remaining_time - remaining \in Nat
  BY RemainingStep DEF Coherent
<1>6. CASE Expired
  <2>1. PICK p \in running_process :
          Yield(p, ready_processes \o Woken(WaitingAfter(remaining_time)))
    BY <1>6 DEF Expired
  <2>2. p \in PcbType /\ WaitingAfter(remaining_time) \in Seq(WaitingPcbs)
    BY <1>4, <1>6 DEF Expired
  <2> QED
    BY <1>1, <1>2, <2>1, <2>2, GrowNot
<1>7. ASSUME NEW remaining \in Remaining, Fork(remaining)
      PROVE  Grow(ready_processes, ready_processes')
  <2> DEFINE queue == Append(ready_processes, NewPcb(highest_pid + 1))
             waiting == WaitingAfter(remaining_time - remaining)
  <2>1. PICK p \in running_process : ContinueOrYield(p, queue \o Woken(waiting), remaining)
    BY <1>7 DEF Fork
  <2>2. p \in PcbType /\ waiting \in Seq(WaitingPcbs)
    BY <1>4, <1>5, <1>7 DEF Fork
  <2>3. highest_pid + 1 \in Pid
    BY RoundRobinAssumption DEF Coherent, Pid
  <2>4. queue \in Seq(ReadyPcbs) /\ Grow(ready_processes, queue)
    BY <1>1, <2>3, NewPcbReady, AppendProperties, GrowAppend
  <2> HIDE DEF queue, waiting
  <2> QED
    BY <1>2, <2>1, <2>2, <2>4
<1>8. ASSUME NEW event \in Events, NEW remaining \in Remaining, Signal(event, remaining)
      PROVE  Grow(ready_processes, ready_processes')
  <2> DEFINE waiting == Notified(WaitingAfter(remaining_time - remaining), event)
  <2>1. PICK p \in running_process :
          ContinueOrYield(p, ready_processes \o Woken(waiting), remaining)
    BY <1>8 DEF Signal
  <2>2. p \in PcbType /\ WaitingAfter(remaining_time - remaining) \in Seq(WaitingPcbs)
    BY <1>4, <1>5, <1>8 DEF Signal
  <2>3. waiting \in Seq(WaitingPcbs)
    BY <2>2, NotifiedWaiting
  <2> HIDE DEF waiting
  <2> QED
    BY <1>1, <1>2, <2>1, <2>2, <2>3, GrowNot
<1>9. ASSUME NEW remaining \in Remaining, Exit(remaining)
      PROVE  Grow(ready_processes, ready_processes')
  <2>1. PICK p \in running_process : TRUE
    BY <1>9 DEF Exit, Coherent, DecisionMatchesState
  <2>2. WaitingAfter(remaining_time - remaining) \in Seq(WaitingPcbs)
    BY <1>4, <1>5, <1>9, <2>1 DEF Exit
  <2> QED
    BY <1>1, <1>9, <2>2, GrowWoken DEF Exit
<1>10. ASSUME ready_processes' = ready_processes PROVE Grow(ready_processes, ready_processes')
  BY <1>1, <1>10, GrowNot
<1> QED
  BY <1>3, <1>6, <1>7, <1>8, <1>9, <1>10 DEF Stop, Sleep, Wait, Block

LEMMA NextDecisionGrows ==
  ASSUME Coherent
  PROVE  Grow(ready_processes, ReadyOnNext)
<1>1. ready_processes \in Seq(ReadyPcbs)
  BY DEF Coherent
<1>2. WaitingAfter(sleep_time) \in Seq(WaitingPcbs)
  BY ElapsedWaiting DEF Coherent, WaitingAfter
<1> QED
  BY <1>1, <1>2, GrowNot, GrowWoken DEF ReadyOnNext

InOrder ==
  \/ BeginsWith(ready_processes', ready_processes)
  \/ /\ ready_processes # << >>
     /\ RunningPids' = {Head(ready_processes).pid}
     /\ BeginsWith(ready_processes', Tail(ready_processes))

\* A dispatch takes the head, which was there or has just been woken.
LEMMA DispatchInOrder ==
  ASSUME Coherent, DecideDispatch
  PROVE  InOrder
<1>1. /\ ReadyOnNext \in Seq(ReadyPcbs) /\ ReadyOnNext # << >>
      /\ running_process' = {SetRunning(Head(ReadyOnNext))}
      /\ ready_processes' = Tail(ReadyOnNext)
  BY NextStep DEF DecideDispatch, Dispatch
<1>2. ready_processes \in Seq(ReadyPcbs)
  BY DEF Coherent
<1>3. CASE ready_processes = << >>
  <2>1. << >> \in Seq(ReadyPcbs) /\ \A list \in Seq(ReadyPcbs) : list = << >> \o list
    OBVIOUS
  <2>2. ready_processes' \in Seq(ReadyPcbs)
    BY <1>1, HeadTailProperties
  <2> QED
    BY <1>3, <2>1, <2>2, ConcatPrefix DEF InOrder, BeginsWith
<1>4. CASE ready_processes # << >>
  <2>1. PICK more \in Seq(ReadyPcbs) : ReadyOnNext = ready_processes \o more
    BY NextDecisionGrows DEF Grow
  <2>2. /\ Head(ReadyOnNext) = Head(ready_processes)
        /\ ready_processes' = Tail(ready_processes) \o more
    BY <1>1, <1>2, <1>4, <2>1, ConcatHeadTail
  <2>3. Tail(ready_processes) \in Seq(ReadyPcbs) /\ Head(ready_processes) \in PcbType
    BY <1>2, <1>4, HeadTailProperties DEF ReadyPcbs
  <2>4. BeginsWith(ready_processes', Tail(ready_processes))
    BY <2>2, <2>3, ConcatPrefix DEF BeginsWith
  <2>5. RunningPids' = {Head(ready_processes).pid}
    BY <1>1, <2>2, <2>3 DEF RunningPids, SetRunning, PcbType
  <2> QED
    BY <1>4, <2>4, <2>5 DEF InOrder
<1> QED
  BY <1>3, <1>4

(***************************************************************************)
(* The ready processes are served in the order they became ready, for any  *)
(* number of them: no call puts a process in front of another, and what    *)
(* leaves the queue is its head, and runs.                                 *)
(***************************************************************************)
THEOREM FirstComeFirstServed == Spec => ServedInOrder
<1>1. ASSUME Coherent, Grow(ready_processes, ready_processes') PROVE InOrder
  BY <1>1, GrowBegins DEF Coherent, InOrder
<1>2. ASSUME Coherent, Next PROVE InOrder
  <2>1. CASE Stop
    BY <1>1, <1>2, <2>1, StopGrows
  <2>2. CASE DecideDispatch
    BY <1>2, <2>2, DispatchInOrder
  <2>3. CASE NextDecision /\ ~ DecideDispatch
    <3>1. ready_processes' = ReadyOnNext
      BY <2>3 DEF NextDecision, DecideDone, DecidePanic, DecideContinue, DecideSleep,
                  DecideDeadlock, Halt
    <3> QED
      BY <1>1, <1>2, <3>1, NextDecisionGrows
  <2>4. CASE Halted
    BY <1>1, <1>2, <2>4, GrowNot DEF Halted, vars, Coherent
  <2> QED
    BY <1>2, <2>1, <2>2, <2>3, <2>4 DEF Next
<1>3. Coherent /\ [Next]_vars => [InOrder]_vars
  BY <1>2
<1>4. Spec => [][InOrder]_vars
  BY <1>3, Coherence, PTL DEF Spec
<1> QED
  BY <1>4 DEF ServedInOrder, InOrder

-----------------------------------------------------------------------------
(***************************************************************************)
(* The time of a Sleep decision is the one some process waits for.         *)
(***************************************************************************)
SleepIsExact ==
  decision.kind = "Sleep" =>
    /\ sleep_time # 0
    /\ sleep_time \in SleepingTimes(waiting_processes)
    /\ 1 \in Pids(waiting_processes)

\* Only one decision is to sleep, and it takes the time from the waiting list.
LEMMA NextSleepIsExact ==
  ASSUME Coherent, Next
  PROVE  SleepIsExact' \/ Halted
<1>1. CASE DecideSleep
  <2>1. PICK time \in FindSleepTime(WaitingOnNext) : PlanSleep(time)
    BY <1>1 DEF DecideSleep
  <2>2. decision'.kind = "Sleep" => sleep_time' # 0
    BY <2>1 DEF PlanSleep, NonZero, Outcome
  <2>3. sleep_time' \in SleepingTimes(waiting_processes')
    BY <1>1, <2>1 DEF PlanSleep, DecideSleep, FindSleepTime
  <2>4. 1 \in Pids(waiting_processes')
    BY <1>1 DEF DecideSleep, NobodyToRun, Pid1Exists, RunningPids, Pids
  <2> QED
    BY <2>2, <2>3, <2>4 DEF SleepIsExact
<1>2. CASE NextDecision /\ ~ DecideSleep
  <2>1. decision'.kind # "Sleep"
    BY <1>2 DEF NextDecision, DecideDone, DecidePanic, DecideContinue, DecideDispatch,
                DecideDeadlock, Halt, NonZero, RunFor, Outcome
  <2> QED
    BY <2>1 DEF SleepIsExact
<1>3. CASE Stop
  <2>1. decision' = Outcome("Stopped")
    BY <1>3 DEF Stop, Start, Expired, Fork, Signal, Sleep, Wait, Block, Exit
  <2> QED
    BY <2>1 DEF SleepIsExact, Outcome
<1> QED
  BY <1>1, <1>2, <1>3 DEF Next

\* When the sleep has passed that process is woken, and is dispatched.
LEMMA SleepEnds ==
  ASSUME Coherent, SleepIsExact, Next, decision.kind = "Sleep"
  PROVE  decision'.kind = "Run"
<1> DEFINE waiting == WaitingAfter(sleep_time)
<1>1. /\ sleep_time # 0 /\ sleep_time \in Nat
      /\ waiting_processes \in Seq(WaitingPcbs)
      /\ running_process = {} /\ ready_processes = << >>
  BY DEF Coherent, DecisionMatchesState, SleepIsExact
<1>2. /\ waiting \in Seq(WaitingPcbs)
      /\ Pids(waiting) = Pids(waiting_processes)
  <2>1. Elapsed(waiting_processes, sleep_time) \in Seq(WaitingPcbs)
    BY <1>1, ElapsedWaiting
  <2>2. \A i \in DOMAIN waiting_processes : waiting_processes[i] \in PcbType
    BY <1>1 DEF WaitingPcbs
  <2>3. Pids(Elapsed(waiting_processes, sleep_time)) = Pids(waiting_processes)
    BY <2>2, ElapsedPids
  <2> QED
    BY <2>1, <2>3 DEF WaitingAfter
<1>3. PICK p \in Elements(waiting_processes) :
         p.wakeup.kind = "Sleep" /\ p.wakeup.arg = sleep_time
  BY DEF SleepIsExact, SleepingTimes, Elements
<1>4. SetReady(p) \in Elements(waiting)
  <2>1. Elapse(p, sleep_time) = SetReady(p)
    BY <1>1, <1>3 DEF Elapse
  <2> QED
    BY <1>3, <2>1, ElapsedElements DEF WaitingAfter
<1>5. SetReady(p).state = Ready
  <2>1. p \in PcbType
    BY <1>1, ElementsType DEF WaitingPcbs
  <2> QED
    BY <2>1, PcbOperations DEF ReadyPcbs, Parked
<1> HIDE DEF waiting
<1>6. Woken(waiting) # << >>
  <2>1. SetReady(p) \in Elements(Woken(waiting))
    BY <1>2, <1>4, <1>5, WakeupElements
  <2> QED
    BY <2>1 DEF Elements
<1>7. /\ ReadyOnNext = Woken(waiting)
      /\ WaitingOnNext = StillWaiting(waiting)
  BY <1>1, <1>2, WakeupWaiting DEF ReadyOnNext, WaitingOnNext, waiting
<1>8. 1 \in Pids(ReadyOnNext) \cup Pids(WaitingOnNext)
  <2>1. Pids(Woken(waiting)) \cup Pids(StillWaiting(waiting)) = Pids(waiting)
    BY <1>2, WakeupPids
  <2> QED
    BY <1>2, <1>7, <2>1 DEF SleepIsExact
<1>9. Pid1Exists /\ ReadyOnNext # << >>
  BY <1>6, <1>7, <1>8 DEF Pid1Exists
<1>10. NextDecision
  BY DEF Next, Stop, Start, Expired, Fork, Signal, Sleep, Wait, Exit, Halted, Final
<1>11. DecideDispatch
  BY <1>1, <1>9, <1>10
     DEF NextDecision, DecideDone, IsDone, DecidePanic, DecideContinue, DecideSleep,
         DecideDeadlock, NobodyToRun
<1> QED
  BY <1>11 DEF DecideDispatch, RunFor

(***************************************************************************)
(* The decision after a Sleep is to run a process: the sleep is never too  *)
(* short, and the processor never sleeps twice in a row.                   *)
(***************************************************************************)
THEOREM NoSecondSleep == Spec => RunsAfterSleep
<1> DEFINE Runs == decision.kind = "Sleep" => decision'.kind = "Run"
<1>1. Init => SleepIsExact
  BY DEF Init, SleepIsExact, Outcome
<1>2. Coherent /\ SleepIsExact /\ [Next]_vars => SleepIsExact'
  <2>1. ASSUME SleepIsExact, UNCHANGED vars PROVE SleepIsExact'
    BY <2>1 DEF vars, SleepIsExact
  <2> QED
    BY <2>1, NextSleepIsExact DEF Halted
<1>3. Coherent /\ SleepIsExact /\ [Next]_vars => [Runs]_vars
  BY SleepEnds
<1>4. Spec => [][Runs]_vars
  <2> HIDE DEF Runs
  <2> QED
    BY <1>1, <1>2, <1>3, Coherence, PTL DEF Spec
<1> QED
  BY <1>4 DEF RunsAfterSleep

=============================================================================
