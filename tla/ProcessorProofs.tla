-------------------------- MODULE ProcessorProofs ---------------------------
(***************************************************************************)
(* Theorems about Processor, for all values of its constants: any number   *)
(* of threads, any timeslices that fit a usize, any number of spurious     *)
(* wakeups.  TypeOK and the four safety invariants are not inductive: that *)
(* the threads take turns depends on what the scheduler last decided, and  *)
(* what is logged on both.  Coherent adds what they depend on.             *)
(***************************************************************************)
EXTENDS Processor, TLAPS

Existing == S!Existing

(***************************************************************************)
(* What the processor may rely on of the scheduler.                        *)
(***************************************************************************)
SchedulerOK ==
  /\ highest_pid \in 0..MaxPid
  /\ Existing \subseteq 1..highest_pid
  /\ wakeup \in [Existing -> S!WakeupCondition]
  /\ decision \in Decision
  /\ decision.kind = "Run" =>
       1 \in Existing /\ decision.pid \in Existing /\ decision.time \in Times

(***************************************************************************)
(* The mutex of current_process is held by one thread at a time, and what  *)
(* a thread found when it tested the condition is still so when it waits.  *)
(***************************************************************************)
OneHolds ==
  \A t, u \in Threads :
    pc[t] \in {"parking", "deciding"} /\ t # u => pc[u] \notin {"parking", "deciding"}

\* The places where a thread calls the scheduler.
Calling == {"start", "stopped", "deciding"}

\* Where the threads may be, and where scheduler() returns to.
MainPath ==
  /\ pc[Main] \in Calling \cup {"spawning", "joining", "ended", "panicked"}
  /\ \A t \in Threads : pc[t] \in {"start", "joining"} => t = Main
  /\ pc[Main] = "ended" => pc[1] = "ended"

ReturnsTo(t) ==
  IF t = Main THEN {"spawning"} ELSE {"suspend", "spawning", WhenExited(t)}

Returns ==
  /\ \A t \in Threads : pc[t] \in {"stopped", "deciding"} => after[t] \in ReturnsTo(t)
  /\ pc[1] \in {"stopped", "deciding"} /\ after[1] = "exited" => 1 \notin Existing
  /\ \A t \in Threads : pc[t] = "exited" => t = 1 /\ ~ running

\* t has to spawn the thread of its child, now or when scheduler() returns.
HasChild(t) ==
  \/ pc[t] = "spawning"
  \/ pc[t] \in {"stopped", "deciding"} /\ after[t] = "spawning"

\* A child has no thread before its one parent spawns it.
Children ==
  /\ \A t \in Threads :
       HasChild(t) => forked[t] \in 1..highest_pid /\ pc[forked[t]] = "none"
  /\ \A t, u \in Threads : HasChild(t) /\ HasChild(u) /\ t # u => forked[t] # forked[u]
  /\ \A t \in Threads : t > highest_pid => pc[t] = "none"

\* Before the first system call.
Beginning ==
  pc[Main] = "start" =>
    /\ running
    /\ decision.kind = "Start"
    /\ highest_pid = 0
    /\ current_process = {}
    /\ last_log = NoLog

(***************************************************************************)
(* Whose turn it is, while the simulation runs.                            *)
(***************************************************************************)
OneCalls ==
  \A t, u \in Threads : pc[t] \in Calling /\ t # u => pc[u] \notin Calling \cup {"body"}

BodyIsCurrent ==
  \A t \in Threads : pc[t] = "body" => decision.kind = "Run" /\ decision.pid = t

SomeoneRuns ==
  (\A t \in Threads : pc[t] \notin Calling) => decision.kind = "Run"

StoppedIsCurrent ==
  \A t \in Threads :
    pc[t] = "stopped" => decision.kind = "Stopped" /\ current_process \subseteq {t}

DecidingUntilRun ==
  \A t \in Threads :
    pc[t] = "deciding" =>
      decision.kind \in IF current_process = {} THEN {"Stopped", "Sleep"} ELSE {"Run"}

RunIsCurrent ==
  decision.kind = "Run" =>
    current_process = {decision.pid} /\ remaining \in 1..decision.time

Turns ==
  running =>
    /\ OneCalls
    /\ BodyIsCurrent
    /\ SomeoneRuns
    /\ StoppedIsCurrent
    /\ DecidingUntilRun
    /\ RunIsCurrent

(***************************************************************************)
(* The last log is that of the last decision, with the stop that answered  *)
(* it.                                                                     *)
(***************************************************************************)
LogOfDecision ==
  running =>
    /\ decision.kind \in {"Run", "Sleep"} =>
         last_log = [decision |-> decision, stop_reason |-> None]
    /\ decision.kind = "Stopped" =>
         \/ last_log = NoLog
         \/ /\ last_log.decision.kind = "Run"
            /\ last_log.stop_reason = last_log.decision.pid

LogOfHalt ==
  /\ ~ running /\ pc[1] # "ended" => last_log.decision.kind \in Final
  /\ pc[1] = "ended" => returned_log.decision.kind \in Final

Coherent ==
  /\ TypeOK
  /\ SchedulerOK
  /\ OneHolds
  /\ NobodySleepsThroughItsTurn
  /\ MainPath
  /\ Returns
  /\ Children
  /\ Beginning
  /\ Turns
  /\ LogOfDecision
  /\ LogOfHalt

-----------------------------------------------------------------------------
(* The arithmetic of remaining. *)

\* One less, unless it is 0: then it wraps around.
LEMMA DecrementIsOneLess ==
  /\ \A n \in 1..(Usize - 1) : Decrement(n) = n - 1
  /\ \A n \in 0..(Usize - 1) : Decrement(n) \in 0..(Usize - 1)
BY ProcessorAssumption DEF Decrement

-----------------------------------------------------------------------------
(* The scheduler. *)

\* The wakeup conditions are conditions after any time.
LEMMA AfterType ==
  ASSUME SchedulerOK, NEW time \in Nat
  PROVE  S!After(time) \in [Existing -> S!WakeupCondition]
<1>1. ASSUME NEW pid \in Existing
      PROVE  S!Countdown(wakeup[pid], time) \in S!WakeupCondition
  <2>1. wakeup[pid] \in S!WakeupCondition
    BY DEF SchedulerOK
  <2> QED
    BY <2>1 DEF S!Countdown, S!WakeupCondition, S!NoWakeup, S!SleepWakeup
<1> QED
  BY <1>1 DEF S!After, Existing

\* The processes that exist are those with a wakeup condition.
LEMMA ExistingIsDomain ==
  /\ Existing = DOMAIN wakeup
  /\ Existing' = DOMAIN wakeup'
BY DEF Existing, S!Existing

\* next() changes neither who exists nor the highest PID, and decides to run only a process
\* that exists, while PID 1 does.
LEMMA NextDecisionStep ==
  ASSUME SchedulerOK, S!NextDecision
  PROVE  /\ SchedulerOK'
         /\ Existing' = Existing
         /\ highest_pid' = highest_pid
         /\ decision'.kind \in {"Run", "Sleep"} \cup Final
<1> USE DEF Existing
<1>1. S!Passed \in [Existing -> S!WakeupCondition]
  <2>1. decision.time \in Nat
    BY DEF SchedulerOK, Decision
  <2>2. S!Slept \in Nat
    BY <2>1 DEF S!Slept
  <2> QED
    BY <2>2, AfterType DEF S!Passed, SchedulerOK
<1>2. ASSUME NEW d, S!Decided(d), d \in Decision,
             d.kind = "Run" => 1 \in Existing /\ d.pid \in Existing /\ d.time \in Times
      PROVE  SchedulerOK' /\ Existing' = Existing /\ highest_pid' = highest_pid /\ decision' = d
  <2>1. wakeup' = S!Passed /\ decision' = d /\ highest_pid' = highest_pid
    BY <1>2 DEF S!Decided
  <2>2. Existing' = Existing
    BY <1>1, <2>1 DEF S!Existing
  <2> QED
    BY <1>1, <1>2, <2>1, <2>2 DEF SchedulerOK
<1>3. CASE S!DecideRun
  <2>1. PICK pid \in S!Awake, time \in Times : S!Decided(S!RunFor(pid, time))
    BY <1>3 DEF S!DecideRun
  <2>2. pid \in Existing /\ 1 \in Existing /\ pid \in Nat /\ time \in Nat
    BY <1>3, ProcessorAssumption DEF S!DecideRun, S!Awake, SchedulerOK
  <2>3. S!RunFor(pid, time) \in Decision /\ S!RunFor(pid, time).kind = "Run"
    BY <2>2 DEF S!RunFor, Decision
  <2> QED
    BY <1>2, <2>1, <2>2, <2>3 DEF S!RunFor
<1>4. CASE S!DecideSleep
  <2>1. PICK pid \in S!Sleepers : S!Decided(S!SleepFor(S!Passed[pid].arg))
    BY <1>4 DEF S!DecideSleep
  <2>2. S!Passed[pid].arg \in Nat
    BY <1>1 DEF S!Sleepers, S!WakeupCondition
  <2>3. S!SleepFor(S!Passed[pid].arg) \in Decision /\ S!SleepFor(S!Passed[pid].arg).kind = "Sleep"
    BY <2>2 DEF S!SleepFor, Decision
  <2> QED
    BY <1>2, <2>1, <2>3
<1>5. ASSUME NEW kind \in Final, S!Decided(S!Outcome(kind))
      PROVE  /\ SchedulerOK' /\ Existing' = Existing /\ highest_pid' = highest_pid
             /\ decision'.kind \in Final
  <2>1. S!Outcome(kind) \in Decision /\ S!Outcome(kind).kind = kind /\ kind # "Run"
    BY DEF S!Outcome, Decision, Final
  <2> QED
    BY <1>2, <1>5, <2>1
<1>6. CASE S!DecideDeadlock \/ S!DecidePanic \/ S!DecideDone
  BY <1>5, <1>6 DEF S!DecideDeadlock, S!DecidePanic, S!DecideDone, Final
<1> QED
  BY <1>3, <1>4, <1>6 DEF S!NextDecision

-----------------------------------------------------------------------------

\* A stop() leaves the wakeup conditions of some processes.
LEMMA StoppedStep ==
  ASSUME SchedulerOK, S!Stopped \/ S!Start,
         NEW E, E \subseteq 1..highest_pid', highest_pid' \in 0..MaxPid,
         wakeup' \in [E -> S!WakeupCondition]
  PROVE  SchedulerOK' /\ Existing' = E /\ decision' = Outcome("Stopped")
<1>1. Existing' = E
  BY DEF Existing, S!Existing
<1>2. decision' = Outcome("Stopped")
  BY DEF S!Stopped, S!Start, S!Outcome, Outcome
<1> QED
  BY <1>1, <1>2 DEF SchedulerOK, Outcome, Decision

\* The first system call creates PID 1.
LEMMA StartStep ==
  ASSUME SchedulerOK, highest_pid = 0, S!Start
  PROVE  SchedulerOK' /\ highest_pid' = highest_pid + 1 /\ decision' = Outcome("Stopped")
<1>1. wakeup' \in [{1} -> S!WakeupCondition] /\ highest_pid' = 1
  BY DEF S!Start, S!WakeupCondition, S!NoWakeup
<1> QED
  BY <1>1, StoppedStep, ProcessorAssumption

\* fork creates a process with the next PID.
LEMMA ForkStep ==
  ASSUME SchedulerOK, NEW left \in Nat, decision.time - left \in Nat, S!Fork(left)
  PROVE  SchedulerOK' /\ highest_pid' = highest_pid + 1 /\ decision' = Outcome("Stopped")
<1> DEFINE E == Existing \cup {highest_pid + 1}
<1>1. S!After(decision.time - left) \in [Existing -> S!WakeupCondition]
  BY AfterType
<1>2. /\ S!Stopped
      /\ highest_pid' = highest_pid + 1
      /\ highest_pid' \in 0..MaxPid
  BY ProcessorAssumption DEF S!Fork, SchedulerOK
<1>3. S!NoWakeup \in S!WakeupCondition
  BY DEF S!NoWakeup, S!WakeupCondition
<1>4. wakeup' \in [E -> S!WakeupCondition]
  BY <1>1, <1>3 DEF S!Fork, Existing
<1>5. E \subseteq 1..highest_pid'
  BY <1>2 DEF SchedulerOK
<1> HIDE DEF E
<1> QED
  BY <1>2, <1>4, <1>5, StoppedStep

\* Every other stop() creates none.
LEMMA OtherStopStep ==
  ASSUME SchedulerOK, S!Stopped, highest_pid' = highest_pid,
         NEW E, E \subseteq Existing, wakeup' \in [E -> S!WakeupCondition]
  PROVE  /\ SchedulerOK' /\ highest_pid' = highest_pid /\ decision' = Outcome("Stopped")
         /\ Existing' = E
<1>1. E \subseteq 1..highest_pid' /\ highest_pid' \in 0..MaxPid
  BY DEF SchedulerOK
<1> QED
  BY <1>1, StoppedStep

\* The end of the timeslice.
LEMMA ExpiredStep ==
  ASSUME SchedulerOK, S!Expired
  PROVE  SchedulerOK' /\ highest_pid' = highest_pid /\ decision' = Outcome("Stopped")
<1>1. decision.time \in Nat
  BY DEF SchedulerOK, Decision
<1>2. S!After(decision.time) \in [Existing -> S!WakeupCondition]
  BY <1>1, AfterType
<1> QED
  BY <1>2, OtherStopStep DEF S!Expired

\* A signal takes the condition from those that wait for it.
LEMMA SignalStep ==
  ASSUME SchedulerOK, NEW left \in Nat, decision.time - left \in Nat,
         NEW event, S!Signal(event, left)
  PROVE  SchedulerOK' /\ highest_pid' = highest_pid /\ decision' = Outcome("Stopped")
<1>1. S!After(decision.time - left) \in [Existing -> S!WakeupCondition]
  BY AfterType
<1>2. S!NoWakeup \in S!WakeupCondition
  BY DEF S!NoWakeup, S!WakeupCondition
<1>3. wakeup' \in [Existing -> S!WakeupCondition]
  BY <1>1, <1>2 DEF S!Signal, Existing
<1> QED
  BY <1>3, OtherStopStep DEF S!Signal

\* A sleep and a wait give the process that calls a condition.
LEMMA BlockStep ==
  ASSUME SchedulerOK, NEW left \in Nat, decision.time - left \in Nat,
         NEW condition \in S!WakeupCondition, S!Block(condition, left)
  PROVE  SchedulerOK' /\ highest_pid' = highest_pid /\ decision' = Outcome("Stopped")
<1>1. S!After(decision.time - left) \in [Existing -> S!WakeupCondition]
  BY AfterType
<1>2. wakeup' \in [Existing -> S!WakeupCondition]
  BY <1>1 DEF S!Block
<1> QED
  BY <1>2, OtherStopStep DEF S!Block

\* An exit takes the process that calls away.
LEMMA ExitStep ==
  ASSUME SchedulerOK, NEW left \in Nat, decision.time - left \in Nat, S!Exit(left)
  PROVE  /\ SchedulerOK' /\ highest_pid' = highest_pid /\ decision' = Outcome("Stopped")
         /\ decision.pid \notin Existing'
<1> DEFINE E == Existing \ {decision.pid}
<1>1. S!After(decision.time - left) \in [Existing -> S!WakeupCondition]
  BY AfterType
<1>2. wakeup' \in [E -> S!WakeupCondition]
  BY <1>1 DEF S!Exit, Existing
<1> HIDE DEF E
<1>3. E \subseteq Existing /\ decision.pid \notin E
  BY DEF E
<1> QED
  BY <1>2, <1>3, OtherStopStep DEF S!Exit

-----------------------------------------------------------------------------
(***************************************************************************)
(* What all actions that call stop() have in common: thread t goes to      *)
(* "stopped", and from there to `place'.                                   *)
(***************************************************************************)
StopsAs(t, place) ==
  /\ Stops(t, place)
  /\ SchedulerOK'
  /\ decision' = Outcome("Stopped")
  /\ remaining' \in 0..(Usize - 1)
  /\ place = "exited" => 1 \notin Existing'
  /\ place = "spawning" =>
       highest_pid' = highest_pid + 1 /\ forked' = [forked EXCEPT ![t] = highest_pid']
  /\ place # "spawning" => highest_pid' = highest_pid /\ forked' = forked

\* A thread in the body of its process: what the scheduler and remaining say of it.
LEMMA AtInstruction ==
  ASSUME Coherent, NEW t \in Threads, pc[t] = "body", running
  PROVE  /\ decision.kind = "Run" /\ decision.pid = t
         /\ t \in 1..MaxPid /\ t # Main
         /\ decision.time \in 1..(Usize - 1)
         /\ remaining \in 1..decision.time
         /\ current_process = {t}
         /\ last_log = [decision |-> decision, stop_reason |-> None]
<1>1. decision.kind = "Run" /\ decision.pid = t
  BY DEF Coherent, Turns, BodyIsCurrent
<1>2. t \in 1..MaxPid /\ decision.time \in 1..(Usize - 1)
  <2>1. t \in 1..highest_pid /\ highest_pid \in 0..MaxPid /\ decision.time \in Times
    BY <1>1 DEF Coherent, SchedulerOK
  <2>2. t \in 1..MaxPid
    BY <2>1, ProcessorAssumption
  <2>3. decision.time \in 1..(Usize - 1)
    BY <2>1, ProcessorAssumption
  <2> QED
    BY <2>2, <2>3
<1> QED
  BY <1>1, <1>2 DEF Coherent, Turns, RunIsCurrent, LogOfDecision, Main

\* The time left at a system call.
LEMMA TimeAtCall ==
  ASSUME Coherent, NEW t \in Threads, pc[t] = "body", running
  PROVE  /\ Decrement(remaining) = remaining - 1
         /\ Decrement(remaining) \in Nat
         /\ Decrement(remaining) \in 0..(Usize - 1)
         /\ decision.time - Decrement(remaining) \in Nat
<1>1. remaining \in 1..decision.time /\ decision.time \in 1..(Usize - 1)
  BY AtInstruction
<1>2. Decrement(remaining) = remaining - 1
  BY <1>1, DecrementIsOneLess, ProcessorAssumption
<1> QED
  BY <1>1, <1>2, ProcessorAssumption

\* Each of the actions that call stop() from the body of a process is such a step.
LEMMA InstructionStops ==
  ASSUME Coherent, NEW t \in Threads,
         Preempted(t) \/ Fork(t) \/ Signal(t) \/ Wait(t) \/ Sleep(t) \/ Exit(t)
  PROVE  pc[t] = "body" /\ \E place \in ReturnsTo(t) : StopsAs(t, place)
<1> DEFINE left == Decrement(remaining)
<1>1. pc[t] = "body" /\ running
  BY DEF Preempted, Fork, Signal, Wait, Sleep, Exit, Stops
<1>2. SchedulerOK /\ t # Main
  BY <1>1, AtInstruction DEF Coherent
<1>3. left \in Nat /\ decision.time - left \in Nat /\ left \in 0..(Usize - 1)
  BY <1>1, TimeAtCall
<1>4. {"suspend", "spawning", WhenExited(t)} = ReturnsTo(t)
  BY <1>2 DEF ReturnsTo
<1> HIDE DEF left
<1>5. CASE Preempted(t)
  <2>1. SchedulerOK' /\ highest_pid' = highest_pid /\ decision' = Outcome("Stopped")
    BY <1>2, <1>5, ExpiredStep DEF Preempted
  <2>2. remaining' \in 0..(Usize - 1)
    BY <1>3, <1>5, DecrementIsOneLess DEF Preempted, left
  <2>3. StopsAs(t, "suspend")
    BY <1>5, <2>1, <2>2 DEF Preempted, StopsAs
  <2> QED
    BY <1>1, <1>4, <2>3
<1>6. ASSUME CountCall PROVE remaining' \in 0..(Usize - 1)
  BY <1>3, <1>6 DEF CountCall, Reported, left
<1>7. CASE Fork(t)
  <2>1. SchedulerOK' /\ highest_pid' = highest_pid + 1 /\ decision' = Outcome("Stopped")
    BY <1>2, <1>3, <1>7, ForkStep DEF Fork, Reported, left
  <2>2. StopsAs(t, "spawning")
    BY <1>6, <1>7, <2>1 DEF Fork, StopsAs
  <2> QED
    BY <1>1, <1>4, <2>2
<1>8. CASE Signal(t)
  <2>1. SchedulerOK' /\ highest_pid' = highest_pid /\ decision' = Outcome("Stopped")
    BY <1>2, <1>3, <1>8, SignalStep DEF Signal, Reported, left
  <2>2. StopsAs(t, "suspend")
    BY <1>6, <1>8, <2>1 DEF Signal, StopsAs
  <2> QED
    BY <1>1, <1>4, <2>2
<1>9. CASE Wait(t)
  <2>1. PICK event \in Events : S!Block(S!SignalWakeup(event), left)
    BY <1>9 DEF Wait, S!Wait, Reported, left
  <2>2. S!SignalWakeup(event) \in S!WakeupCondition
    BY ProcessorAssumption DEF S!SignalWakeup, S!WakeupCondition
  <2>3. SchedulerOK' /\ highest_pid' = highest_pid /\ decision' = Outcome("Stopped")
    BY <1>2, <1>3, <2>1, <2>2, BlockStep
  <2>4. StopsAs(t, "suspend")
    BY <1>6, <1>9, <2>3 DEF Wait, StopsAs
  <2> QED
    BY <1>1, <1>4, <2>4
<1>10. CASE Sleep(t)
  <2>1. PICK time \in SleepTimes : S!Block(S!SleepWakeup(time), left)
    BY <1>10 DEF Sleep, S!Sleep, Reported, left
  <2>2. S!SleepWakeup(time) \in S!WakeupCondition
    BY ProcessorAssumption DEF S!SleepWakeup, S!WakeupCondition
  <2>3. SchedulerOK' /\ highest_pid' = highest_pid /\ decision' = Outcome("Stopped")
    BY <1>2, <1>3, <2>1, <2>2, BlockStep
  <2>4. StopsAs(t, "suspend")
    BY <1>6, <1>10, <2>3 DEF Sleep, StopsAs
  <2> QED
    BY <1>1, <1>4, <2>4
<1>11. CASE Exit(t)
  <2>1. /\ SchedulerOK' /\ highest_pid' = highest_pid /\ decision' = Outcome("Stopped")
        /\ t \notin Existing'
    BY <1>1, <1>2, <1>3, <1>11, ExitStep, AtInstruction DEF Exit, Reported, left
  <2>2. WhenExited(t) = "exited" => t = 1
    BY DEF WhenExited
  <2>3. WhenExited(t) # "spawning"
    BY DEF WhenExited
  <2>4. StopsAs(t, WhenExited(t))
    BY <1>6, <1>11, <2>1, <2>2, <2>3 DEF Exit, StopsAs
  <2> QED
    BY <1>1, <1>4, <2>4
<1> QED
  BY <1>5, <1>7, <1>8, <1>9, <1>10, <1>11

\* So is the system call of Processor::run.
LEMMA StartStops ==
  ASSUME Coherent, Start
  PROVE  /\ Main \in Threads /\ pc[Main] = "start"
         /\ "spawning" \in ReturnsTo(Main) /\ StopsAs(Main, "spawning")
<1>1. Main \in Threads
  BY ProcessorAssumption DEF Main, Threads
<1>2. SchedulerOK' /\ highest_pid' = highest_pid + 1 /\ decision' = Outcome("Stopped")
  BY StartStep DEF Start, Coherent, Beginning
<1>3. remaining' \in 0..(Usize - 1)
  BY DecrementIsOneLess DEF Coherent, TypeOK, Start, CountCall, Reported
<1> QED
  BY <1>1, <1>2, <1>3 DEF Start, StopsAs, ReturnsTo

-----------------------------------------------------------------------------
(* A thread stops. *)

\* Nobody else calls the scheduler or executes instructions when a thread stops.
LEMMA StopsAlone ==
  ASSUME Coherent, NEW t \in Threads, pc[t] \in {"body", "start"}, running, SchedulerFree
  PROVE  \A u \in Threads : u # t => pc[u] \notin Calling \cup {"body"}
<1> SUFFICES ASSUME NEW u \in Threads, u # t, pc[u] \in Calling \cup {"body"}
             PROVE  FALSE
  OBVIOUS
<1>1. pc[u] \in {"start", "body"} /\ pc[u] \notin {"stopped", "deciding"}
  BY DEF SchedulerFree, Calling
<1>2. OneCalls /\ BodyIsCurrent
  BY DEF Coherent, Turns
<1>3. CASE pc[t] = "start" \/ pc[u] = "start"
  BY <1>1, <1>2, <1>3 DEF OneCalls, Calling
<1>4. CASE pc[t] = "body" /\ pc[u] = "body"
  BY <1>2, <1>4 DEF BodyIsCurrent
<1> QED
  BY <1>1, <1>3, <1>4

\* Before a stop the current process is the one that stops, or nobody.
LEMMA StopsCurrent ==
  ASSUME Coherent, NEW t \in Threads, pc[t] \in {"body", "start"}, running
  PROVE  /\ current_process \subseteq {t}
         /\ \/ last_log = NoLog
            \/ pc[t] = "body" /\ last_log = [decision |-> decision, stop_reason |-> None]
<1>1. CASE pc[t] = "body"
  BY <1>1, AtInstruction
<1>2. CASE pc[t] = "start"
  BY <1>2 DEF Coherent, MainPath, Beginning
<1> QED
  BY <1>1, <1>2

\* A thread calls stop().
LEMMA StopCoherent ==
  ASSUME Coherent, NEW t \in Threads, pc[t] \in {"body", "start"},
         NEW place \in ReturnsTo(t), StopsAs(t, place)
  PROVE  Coherent'
<1>1. /\ pc' = [pc EXCEPT ![t] = "stopped"]
      /\ after' = [after EXCEPT ![t] = place]
      /\ running /\ running' /\ SchedulerFree
      /\ UNCHANGED <<current_process, returned_log, spurious>>
  BY DEF StopsAs, Stops, Goes
<1>2. TypeOK /\ SchedulerOK /\ SchedulerOK'
  BY DEF Coherent, StopsAs
<1>3. /\ pc'[t] = "stopped" /\ after'[t] = place
      /\ \A u \in Threads : u # t => pc'[u] = pc[u] /\ after'[u] = after[u]
  BY <1>1, <1>2 DEF TypeOK
<1>4. \A u \in Threads : u # t => pc[u] \notin Calling \cup {"body"}
  BY <1>1, StopsAlone
<1>5. \A u \in Threads : pc'[u] \in Calling \cup {"body"} => u = t
  BY <1>3, <1>4
<1>6. decision' = Outcome("Stopped") /\ decision'.kind = "Stopped"
  BY DEF StopsAs, Outcome
<1>7. place \in {"suspend", "spawning", "exited", "ended"} /\ (t = Main => place = "spawning")
  BY DEF ReturnsTo, WhenExited
<1>8. TypeOK'
  <2>1. last_log' \in [decision : Decision, stop_reason : Threads]
    BY <1>2 DEF StopsAs, Stops, LogStop, NoLog, TypeOK
  <2>2. forked' \in [Threads -> 0..MaxPid]
    <3>1. CASE place = "spawning"
      BY <1>2, <3>1 DEF StopsAs, TypeOK, SchedulerOK
    <3>2. CASE place # "spawning"
      BY <1>2, <3>2 DEF StopsAs, TypeOK
    <3> QED
      BY <3>1, <3>2
  <2>3. pc' \in [Threads -> Places] /\ after' \in [Threads -> Places]
    BY <1>1, <1>2, <1>7 DEF TypeOK, Places
  <2>4. remaining' \in 0..(Usize - 1)
    BY DEF StopsAs
  <2> QED
    BY <1>1, <1>2, <2>1, <2>2, <2>3, <2>4 DEF TypeOK
<1>9. OneHolds'
  BY <1>3 DEF Coherent, OneHolds
<1>10. NobodySleepsThroughItsTurn'
  BY <1>1, <1>3 DEF Coherent, NobodySleepsThroughItsTurn
<1>11. MainPath'
  <2>1. Main \in Threads /\ 1 \in Threads
    BY ProcessorAssumption DEF Main, Threads
  <2>2. pc[Main] # "ended" \/ t # 1
    BY DEF Coherent, MainPath
  <2> QED
    BY <1>3, <2>1, <2>2 DEF Coherent, MainPath, Calling
<1>12. Returns'
  <2>1. \A u \in Threads : pc'[u] \in {"stopped", "deciding"} => after'[u] \in ReturnsTo(u)
    BY <1>3, <1>4 DEF Calling
  <2>2. pc'[1] \in {"stopped", "deciding"} /\ after'[1] = "exited" => 1 \notin Existing'
    BY <1>3, <1>4, ProcessorAssumption DEF StopsAs, Threads, Calling
  <2>3. \A u \in Threads : pc'[u] = "exited" => u = 1 /\ ~ running'
    BY <1>1, <1>3 DEF Coherent, Returns
  <2>4. \A u \in Threads : ReturnsTo(u)' = ReturnsTo(u)
    BY DEF ReturnsTo, WhenExited
  <2> QED
    BY <2>1, <2>2, <2>3, <2>4 DEF Returns
<1>13. Children'
  <2>1. \A u \in Threads : u # t => (HasChild(u)' <=> HasChild(u))
    BY <1>3 DEF HasChild
  <2>2. HasChild(t)' <=> place = "spawning"
    BY <1>3 DEF HasChild
  <2>3. pc[t] \notin {"none"}
    OBVIOUS
  <2>4. ~ (t > highest_pid)
    BY DEF Coherent, Children
  <2>5. CASE place = "spawning"
    <3>1. highest_pid' = highest_pid + 1 /\ highest_pid' \in 0..MaxPid /\ highest_pid \in Nat
      BY <1>2, <2>5 DEF StopsAs, SchedulerOK
    <3>2. forked'[t] = highest_pid' /\ \A u \in Threads : u # t => forked'[u] = forked[u]
      BY <1>2, <2>5 DEF StopsAs, TypeOK
    <3>3. highest_pid' \in Threads /\ pc[highest_pid'] = "none" /\ pc'[highest_pid'] = "none"
      BY <1>3, <2>4, <3>1 DEF Coherent, Children, Threads
    <3>4. \A u \in Threads : HasChild(u)' => forked'[u] \in 1..highest_pid' /\ pc'[forked'[u]] = "none"
      <4> SUFFICES ASSUME NEW u \in Threads, HasChild(u)'
                   PROVE  forked'[u] \in 1..highest_pid' /\ pc'[forked'[u]] = "none"
        OBVIOUS
      <4>1. CASE u = t
        BY <3>1, <3>2, <3>3, <4>1
      <4>2. CASE u # t
        <5>1. forked[u] \in 1..highest_pid /\ pc[forked[u]] = "none"
          BY <2>1, <4>2 DEF Coherent, Children
        <5>2. forked[u] \in Threads /\ forked[u] # t
          BY <1>2, <5>1, ProcessorAssumption DEF Threads, SchedulerOK
        <5> QED
          BY <1>3, <3>1, <3>2, <4>2, <5>1, <5>2
      <4> QED
        BY <4>1, <4>2
    <3>5. \A u \in Threads : u # t /\ HasChild(u)' => forked'[u] \in 1..highest_pid
      BY <2>1, <3>2 DEF Coherent, Children
    <3>6. \A u, v \in Threads : HasChild(u)' /\ HasChild(v)' /\ u # v => forked'[u] # forked'[v]
      <4> SUFFICES ASSUME NEW u \in Threads, NEW v \in Threads, HasChild(u)', HasChild(v)', u # v
                   PROVE  forked'[u] # forked'[v]
        OBVIOUS
      <4>1. CASE u # t /\ v # t
        BY <2>1, <3>2, <4>1 DEF Coherent, Children
      <4>2. CASE u = t \/ v = t
        BY <3>1, <3>2, <3>5, <4>2
      <4> QED
        BY <4>1, <4>2
    <3>7. \A u \in Threads : u > highest_pid' => pc'[u] = "none"
      <4> SUFFICES ASSUME NEW u \in Threads, u > highest_pid' PROVE pc'[u] = "none"
        OBVIOUS
      <4>1. u > highest_pid
        BY <3>1 DEF Threads
      <4> QED
        BY <1>3, <2>4, <4>1 DEF Coherent, Children
    <3> QED
      BY <3>4, <3>6, <3>7 DEF Children
  <2>6. CASE place # "spawning"
    <3>1. highest_pid' = highest_pid /\ forked' = forked
      BY <2>6 DEF StopsAs
    <3>2. \A u \in Threads : HasChild(u)' => u # t /\ HasChild(u)
      BY <2>1, <2>2, <2>6
    <3>3. \A u \in Threads : pc[u] = "none" => pc'[u] = "none"
      BY <1>3
    <3>4. \A u \in Threads : HasChild(u) => forked[u] \in Threads
      BY <1>2 DEF TypeOK, Threads
    <3> QED
      BY <3>1, <3>2, <3>3, <3>4 DEF Coherent, Children
  <2> QED
    BY <2>5, <2>6
<1>14. Beginning'
  <2>1. Main \in Threads
    BY ProcessorAssumption DEF Main, Threads
  <2>2. pc'[Main] # "start"
    BY <1>3, <1>5, <2>1 DEF Calling
  <2> QED
    BY <2>2 DEF Beginning
<1>15. Turns'
  <2>1. OneCalls'
    BY <1>5 DEF OneCalls, Calling
  <2>2. BodyIsCurrent'
    BY <1>3, <1>5 DEF BodyIsCurrent
  <2>3. SomeoneRuns'
    BY <1>3 DEF SomeoneRuns, Calling
  <2>4. StoppedIsCurrent'
    <3>1. current_process' \subseteq {t}
      BY <1>1, StopsCurrent
    <3> QED
      BY <1>3, <1>5, <1>6, <3>1 DEF StoppedIsCurrent, Calling
  <2>5. DecidingUntilRun'
    BY <1>3, <1>5 DEF DecidingUntilRun, Calling
  <2>6. RunIsCurrent'
    BY <1>6 DEF RunIsCurrent
  <2> QED
    BY <2>1, <2>2, <2>3, <2>4, <2>5, <2>6 DEF Turns
<1>16. LogOfDecision'
  <2>1. last_log' = IF last_log = NoLog THEN NoLog ELSE [last_log EXCEPT !.stop_reason = t]
    BY DEF StopsAs, Stops, LogStop
  <2>2. CASE last_log = NoLog
    BY <1>6, <2>1, <2>2 DEF LogOfDecision, NoLog
  <2>3. CASE last_log # NoLog
    <3>1. pc[t] = "body" /\ last_log = [decision |-> decision, stop_reason |-> None]
      BY <1>1, <2>3, StopsCurrent
    <3>2. decision.kind = "Run" /\ decision.pid = t
      BY <1>1, <3>1, AtInstruction
    <3>3. last_log' = [decision |-> decision, stop_reason |-> t]
      BY <2>1, <2>3, <3>1
    <3> QED
      BY <1>6, <3>2, <3>3 DEF LogOfDecision
  <2> QED
    BY <2>2, <2>3
<1>17. LogOfHalt'
  BY <1>1, <1>3, ProcessorAssumption DEF Coherent, LogOfHalt, Threads
<1> QED
  BY <1>2, <1>8, <1>9, <1>10, <1>11, <1>12, <1>13, <1>14, <1>15, <1>16, <1>17 DEF Coherent

-----------------------------------------------------------------------------
(* A thread moves. *)

(***************************************************************************)
(* Thread t goes to `place', and nothing else changes that the order of    *)
(* the threads depends on.                                                 *)
(***************************************************************************)
Moves(t, place) ==
  /\ Goes(t, place)
  /\ pc[t] \notin {"none", "start", "stopped", "ended"}
  /\ place \notin {"none", "start", "stopped", "deciding"}
  /\ \A u \in Threads : u # t => after'[u] = after[u]
  /\ UNCHANGED <<scheduler, current_process, remaining, running, forked>>
  /\ running => last_log' = last_log

\* What the move has to respect.
MayMove(t, place) ==
  /\ pc[t] = "deciding" /\ running => decision.kind = "Run"
  /\ place = "parking" => CurrentProcessFree
  /\ place \in {"parking", "waiting"} => running /\ current_process # {t}
  /\ place = "body" /\ running => CurrentProcessFree /\ current_process = {t}
  /\ t = Main => place \in {"spawning", "joining", "ended", "panicked"}
  /\ place = "joining" => t = Main
  /\ place = "ended" /\ t = Main => pc[1] = "ended"
  /\ place = "exited" => t = 1 /\ ~ running
  /\ place = "spawning" => pc[t] = "deciding" /\ after[t] = "spawning"

\* A thread that moves keeps the order of the threads.
LEMMA MoveKeepsOrder ==
  ASSUME Coherent, NEW t \in Threads, NEW place, Moves(t, place), MayMove(t, place),
         place = "waiting" => pc[t] = "parking"
  PROVE  /\ SchedulerOK' /\ OneHolds' /\ NobodySleepsThroughItsTurn' /\ MainPath' /\ Returns'
         /\ Children' /\ Beginning' /\ Turns'
<1>1. /\ pc' = [pc EXCEPT ![t] = place]
      /\ UNCHANGED <<wakeup, highest_pid, decision, current_process, remaining, running, forked>>
  BY DEF Moves, Goes, scheduler
<1>2. TypeOK /\ SchedulerOK
  BY DEF Coherent
<1>3. pc'[t] = place /\ \A u \in Threads : u # t => pc'[u] = pc[u] /\ after'[u] = after[u]
  BY <1>1, <1>2 DEF TypeOK, Moves
<1>4. pc[t] \notin {"none", "start", "stopped", "ended"}
      /\ place \notin {"none", "start", "stopped", "deciding"}
  BY DEF Moves
<1>5. Main \in Threads /\ 1 \in Threads /\ Main # 1
  BY ProcessorAssumption DEF Main, Threads
<1>6. SchedulerOK'
  BY <1>1, <1>2 DEF SchedulerOK, Existing, S!Existing
<1>7. OneHolds'
  <2>1. \A u \in Threads : u # t /\ pc[u] \in {"parking", "deciding"} =>
           place \notin {"parking", "deciding"}
    BY <1>4 DEF MayMove, CurrentProcessFree, Coherent, OneHolds
  <2> QED
    BY <1>3, <2>1 DEF Coherent, OneHolds
<1>8. NobodySleepsThroughItsTurn'
  BY <1>1, <1>3 DEF Coherent, NobodySleepsThroughItsTurn, MayMove
<1>9. MainPath'
  BY <1>3, <1>4, <1>5 DEF Coherent, MainPath, MayMove, Calling
<1>10. Returns'
  <2>1. \A u \in Threads : ReturnsTo(u)' = ReturnsTo(u)
    BY DEF ReturnsTo, WhenExited
  <2>2. \A u \in Threads : pc'[u] \in {"stopped", "deciding"} => u # t
    BY <1>3, <1>4
  <2>3. Existing' = Existing
    BY <1>1 DEF Existing, S!Existing
  <2>4. \A u \in Threads : pc'[u] \in {"stopped", "deciding"} => after'[u] \in ReturnsTo(u)'
    BY <1>3, <2>1, <2>2 DEF Coherent, Returns
  <2>5. pc'[1] \in {"stopped", "deciding"} /\ after'[1] = "exited" => 1 \notin Existing'
    BY <1>3, <1>5, <2>2, <2>3 DEF Coherent, Returns
  <2>6. \A u \in Threads : pc'[u] = "exited" => u = 1 /\ ~ running'
    BY <1>1, <1>3 DEF Coherent, Returns, MayMove
  <2> QED
    BY <2>4, <2>5, <2>6 DEF Returns
<1>11. Children'
  <2>1. \A u \in Threads : HasChild(u)' => HasChild(u)
    BY <1>3, <1>4 DEF HasChild, MayMove
  <2>2. \A u \in Threads : pc[u] = "none" => pc'[u] = "none"
    BY <1>3, <1>4
  <2>3. \A u \in Threads : HasChild(u) => forked[u] \in Threads
    BY <1>2 DEF TypeOK, Threads
  <2> QED
    BY <1>1, <2>1, <2>2, <2>3 DEF Coherent, Children
<1>12. Beginning'
  BY <1>1, <1>3, <1>4, <1>5 DEF Coherent, Beginning, Moves
<1>13. ASSUME running PROVE Turns'
  <2>1. /\ OneCalls /\ BodyIsCurrent /\ SomeoneRuns
        /\ StoppedIsCurrent /\ DecidingUntilRun /\ RunIsCurrent
    BY <1>13 DEF Coherent, Turns
  <2>2. \A u \in Threads : pc'[u] \in Calling => u # t /\ pc[u] \in Calling
    BY <1>3, <1>4 DEF Calling
  <2>3. ASSUME place = "body"
        PROVE  \A u \in Threads : pc[u] \notin Calling
    <3> SUFFICES ASSUME NEW u \in Threads, pc[u] \in Calling PROVE FALSE
      OBVIOUS
    <3>1. CurrentProcessFree /\ current_process = {t}
      BY <1>13, <2>3 DEF MayMove
    <3>2. CASE pc[u] = "start"
      BY <3>1, <3>2 DEF Coherent, MainPath, Beginning
    <3>3. CASE pc[u] = "stopped"
      BY <1>4, <2>1, <3>1, <3>3 DEF StoppedIsCurrent
    <3>4. CASE pc[u] = "deciding"
      BY <3>1, <3>4 DEF CurrentProcessFree
    <3> QED
      BY <3>2, <3>3, <3>4 DEF Calling
  <2>4. OneCalls'
    <3> SUFFICES ASSUME NEW u \in Threads, NEW v \in Threads, pc'[u] \in Calling, u # v
                 PROVE  pc'[v] \notin Calling \cup {"body"}
      BY DEF OneCalls, Calling
    <3>1. pc[u] \in Calling /\ u # t
      BY <2>2
    <3>2. pc'[v] \notin Calling
      BY <2>1, <2>2, <3>1 DEF OneCalls
    <3>3. pc'[v] # "body"
      BY <1>3, <2>1, <2>3, <3>1 DEF OneCalls
    <3> QED
      BY <3>2, <3>3
  <2>5. BodyIsCurrent'
    <3>1. place = "body" => decision.kind = "Run" /\ decision.pid = t
      <4> SUFFICES ASSUME place = "body" PROVE decision.kind = "Run" /\ decision.pid = t
        OBVIOUS
      <4>1. decision.kind = "Run"
        BY <2>1, <2>3 DEF SomeoneRuns
      <4> QED
        BY <1>13, <2>1, <4>1 DEF RunIsCurrent, MayMove
    <3> QED
      BY <1>1, <1>3, <2>1, <3>1 DEF BodyIsCurrent
  <2>6. SomeoneRuns'
    <3> SUFFICES ASSUME \A u \in Threads : pc'[u] \notin Calling
                 PROVE  decision.kind = "Run"
      BY <1>1 DEF SomeoneRuns, Calling
    <3>1. CASE pc[t] = "deciding"
      BY <1>13, <3>1 DEF MayMove
    <3>2. CASE pc[t] # "deciding"
      BY <1>3, <1>4, <2>1, <3>2 DEF SomeoneRuns, Calling
    <3> QED
      BY <3>1, <3>2
  <2>7. StoppedIsCurrent' /\ DecidingUntilRun' /\ RunIsCurrent'
    BY <1>1, <1>3, <1>4, <2>1 DEF StoppedIsCurrent, DecidingUntilRun, RunIsCurrent
  <2> QED
    BY <2>4, <2>5, <2>6, <2>7 DEF Turns
<1>14. Turns'
  BY <1>1, <1>13 DEF Turns
<1> QED
  BY <1>6, <1>7, <1>8, <1>9, <1>10, <1>11, <1>12, <1>14

\* A thread that moves and leaves the logs alone.
LEMMA MoveCoherent ==
  ASSUME Coherent, NEW t \in Threads, NEW place \in Places,
         Moves(t, place), MayMove(t, place),
         place = "waiting" => pc[t] = "parking",
         after' \in [Threads -> Places], spurious' \in 0..MaxSpurious,
         UNCHANGED <<last_log, returned_log>>,
         place = "ended" => t # 1
  PROVE  Coherent'
<1>1. /\ pc' = [pc EXCEPT ![t] = place]
      /\ UNCHANGED <<decision, current_process, remaining, running, forked>>
  BY DEF Moves, Goes, scheduler
<1>2. TypeOK'
  BY <1>1 DEF Coherent, TypeOK
<1>3. pc'[1] = "ended" <=> pc[1] = "ended"
  BY <1>1 DEF Coherent, TypeOK, Moves
<1>4. LogOfDecision' /\ LogOfHalt'
  BY <1>1, <1>3 DEF Coherent, LogOfDecision, LogOfHalt
<1> QED
  BY <1>2, <1>4, MoveKeepsOrder DEF Coherent

\* The condition is tested with the mutex.
LEMMA SuspendCoherent ==
  ASSUME Coherent, NEW t \in Threads, Suspend(t)
  PROVE  Coherent'
<1> DEFINE place == IF MustWait(t) THEN "parking" ELSE "body"
<1>1. place \in Places
  BY DEF Places
<1>2. Moves(t, place)
  BY DEF Suspend, Moves
<1>3. t # Main
  BY DEF Suspend, Coherent, MainPath, Calling
<1>4. MayMove(t, place)
  BY <1>3 DEF Suspend, MayMove, MustWait
<1>5. after' \in [Threads -> Places] /\ spurious' \in 0..MaxSpurious
  BY DEF Suspend, Coherent, TypeOK
<1>6. UNCHANGED <<last_log, returned_log>> /\ place \notin {"waiting", "ended"}
  BY DEF Suspend
<1> HIDE DEF place
<1> QED
  BY <1>1, <1>2, <1>4, <1>5, <1>6, MoveCoherent

\* The thread waits.
LEMMA ParkCoherent ==
  ASSUME Coherent, NEW t \in Threads, Park(t)
  PROVE  Coherent'
<1>1. Moves(t, "waiting")
  BY DEF Park, Moves
<1>2. t # Main
  BY DEF Park, Coherent, MainPath, Calling
<1>3. running /\ current_process # {t}
  BY DEF Park, Coherent, NobodySleepsThroughItsTurn
<1>4. MayMove(t, "waiting") /\ "waiting" \in Places /\ pc[t] = "parking"
  BY <1>2, <1>3 DEF Park, MayMove, Places
<1>5. after' \in [Threads -> Places] /\ spurious' \in 0..MaxSpurious
  BY DEF Park, Coherent, TypeOK
<1>6. UNCHANGED <<last_log, returned_log>>
  BY DEF Park
<1> QED
  BY <1>1, <1>4, <1>5, <1>6, MoveCoherent

\* A spurious wakeup.
LEMMA WakeSpuriouslyCoherent ==
  ASSUME Coherent, NEW t \in Threads, WakeSpuriously(t)
  PROVE  Coherent'
<1>1. Moves(t, "suspend")
  BY DEF WakeSpuriously, TestsAgain, Moves
<1>2. t # Main
  BY DEF WakeSpuriously, Coherent, MainPath, Calling
<1>3. MayMove(t, "suspend") /\ "suspend" \in Places
  BY <1>2 DEF WakeSpuriously, MayMove, Places
<1>4. after' \in [Threads -> Places] /\ spurious' \in 0..MaxSpurious
  BY ProcessorAssumption DEF WakeSpuriously, Coherent, TypeOK
<1>5. UNCHANGED <<last_log, returned_log>>
  BY DEF WakeSpuriously
<1> QED
  BY <1>1, <1>3, <1>4, <1>5, MoveCoherent

\* After the halt a body goes on without the scheduler.
LEMMA CallsInVainCoherent ==
  ASSUME Coherent, NEW t \in Threads, NEW place \in {"suspend", "panicked", WhenExited(t)},
         CallsInVain(t, place)
  PROVE  Coherent'
<1>1. place \in Places
  BY DEF WhenExited, Places
<1>2. Moves(t, place)
  BY DEF CallsInVain, Moves, WhenExited
<1>3. t # Main
  BY DEF CallsInVain, Coherent, MainPath, Calling
<1>4. MayMove(t, place) /\ (place = "ended" => t # 1) /\ place # "waiting"
  BY <1>3 DEF CallsInVain, MayMove, WhenExited
<1>5. after' \in [Threads -> Places] /\ spurious' \in 0..MaxSpurious
  BY DEF CallsInVain, Coherent, TypeOK
<1>6. UNCHANGED <<last_log, returned_log>>
  BY DEF CallsInVain
<1> QED
  BY <1>1, <1>2, <1>4, <1>5, <1>6, MoveCoherent

\* run ends as the thread of PID 1 did.
LEMMA JoinCoherent ==
  ASSUME Coherent, Join
  PROVE  Coherent'
<1>1. Main \in Threads /\ Main # 1
  BY ProcessorAssumption DEF Main, Threads
<1>2. pc[1] \in {"ended", "panicked"}
  BY DEF Join
<1>3. Moves(Main, pc[1])
  BY <1>2 DEF Join, Moves
<1>4. MayMove(Main, pc[1]) /\ pc[1] \in Places
  BY <1>2 DEF Join, MayMove, Places
<1>5. after' \in [Threads -> Places] /\ spurious' \in 0..MaxSpurious
  BY DEF Join, Coherent, TypeOK
<1>6. UNCHANGED <<last_log, returned_log>>
  BY DEF Join
<1> QED
  BY <1>1, <1>2, <1>3, <1>4, <1>5, <1>6, MoveCoherent

\* scheduler() returns.
LEMMA LeaveCoherent ==
  ASSUME Coherent, NEW t \in Threads, Leave(t)
  PROVE  Coherent'
<1>1. after[t] \in ReturnsTo(t) /\ pc[t] = "deciding"
  BY DEF Leave, Coherent, Returns
<1>2. after[t] \in {"suspend", "spawning", "exited", "ended"} /\ after[t] \in Places
  BY <1>1 DEF ReturnsTo, WhenExited, Places
<1>3. running => decision.kind = "Run"
  BY DEF Leave, Coherent, Turns, DecidingUntilRun
<1>4. after[t] = "exited" => t = 1 /\ ~ running
  <2>1. SUFFICES ASSUME after[t] = "exited" PROVE t = 1 /\ ~ running
    OBVIOUS
  <2>2. t = 1
    BY <1>1, <2>1 DEF ReturnsTo, WhenExited
  <2>3. 1 \notin Existing
    BY <1>1, <2>1, <2>2 DEF Coherent, Returns
  <2> QED
    BY <1>3, <2>2, <2>3 DEF Coherent, SchedulerOK
<1>5. t = Main => after[t] = "spawning"
  BY <1>1 DEF ReturnsTo
<1>6. after[t] = "ended" => t # 1
  BY <1>1, ProcessorAssumption DEF ReturnsTo, WhenExited, Main
<1>7. /\ Goes(t, after[t])
      /\ after' = [after EXCEPT ![t] = "none"]
      /\ UNCHANGED <<scheduler, current_process, remaining, running, last_log,
                     returned_log, forked, spurious>>
  BY DEF Leave
<1>8. after \in [Threads -> Places] /\ spurious \in 0..MaxSpurious
  BY DEF Coherent, TypeOK
<1>9. Moves(t, after[t])
  BY <1>1, <1>2, <1>7, <1>8 DEF Moves
<1>10. MayMove(t, after[t])
  BY <1>1, <1>2, <1>3, <1>4, <1>5 DEF MayMove
<1>11. after' \in [Threads -> Places] /\ spurious' \in 0..MaxSpurious
  BY <1>7, <1>8 DEF Places
<1> QED
  BY <1>2, <1>6, <1>7, <1>9, <1>10, <1>11, MoveCoherent

\* The thread of PID 1 takes the logs, when the last of them is in.
LEMMA GetLogsCoherent ==
  ASSUME Coherent, NEW t \in Threads, GetLogs(t)
  PROVE  Coherent'
<1>1. t = 1 /\ ~ running /\ pc[t] = "exited"
  BY DEF GetLogs, Coherent, Returns
<1>2. t # Main
  BY <1>1 DEF Main
<1>3. Moves(t, "ended") /\ MayMove(t, "ended")
  BY <1>1, <1>2 DEF GetLogs, Moves, MayMove
<1>4. last_log.decision.kind \in Final
  BY <1>1 DEF Coherent, LogOfHalt
<1>5. LogOfDecision' /\ LogOfHalt'
  BY <1>1, <1>4 DEF GetLogs, Goes, Coherent, TypeOK, LogOfDecision, LogOfHalt
<1>6. NoLog \in [decision : Decision, stop_reason : Threads]
  BY ProcessorAssumption DEF NoLog, None, Outcome, Decision, Threads
<1>7. TypeOK'
  BY <1>6 DEF GetLogs, Goes, Coherent, TypeOK, Places
<1> QED
  BY <1>3, <1>5, <1>7, MoveKeepsOrder DEF Coherent

\* fork and run spawn the thread of the child, which may have been dispatched already.
LEMMA SpawnCoherent ==
  ASSUME Coherent, NEW t \in Threads, Spawn(t)
  PROVE  Coherent'
<1> DEFINE child == forked[t]
           place == IF t = Main THEN "joining" ELSE "suspend"
<1>1. TypeOK /\ SchedulerOK /\ Main \in Threads /\ 1 \in Threads /\ Main # 1
  BY ProcessorAssumption DEF Coherent, Main, Threads
<1>2. child \in 1..highest_pid /\ pc[child] = "none" /\ pc[t] = "spawning"
  BY DEF Spawn, Coherent, Children, HasChild
<1>3. child \in Threads /\ child # t /\ child # Main
  BY <1>1, <1>2 DEF TypeOK, Threads, Main
<1>4. /\ pc' = [pc EXCEPT ![child] = "suspend", ![t] = place]
      /\ forked' = [forked EXCEPT ![t] = 0]
      /\ UNCHANGED <<wakeup, overlooked, highest_pid, decision, current_process, remaining,
                     running, last_log, returned_log, after, spurious>>
  BY DEF Spawn, scheduler
<1>5. place \in {"joining", "suspend"} /\ (place = "joining" <=> t = Main)
  OBVIOUS
<1> HIDE DEF child, place
<1>6. /\ pc'[t] = place /\ pc'[child] = "suspend"
      /\ \A u \in Threads : u # t /\ u # child => pc'[u] = pc[u]
      /\ \A u \in Threads : u # t => forked'[u] = forked[u]
  BY <1>1, <1>3, <1>4 DEF TypeOK
<1>7. \A u \in Threads :
        pc'[u] \in Calling \cup {"body", "parking", "waiting", "exited", "spawning", "ended"} =>
          u # t /\ pc'[u] = pc[u]
  BY <1>5, <1>6 DEF Calling
<1>8. \A u \in Threads :
        pc[u] \in Calling \cup {"body"} => pc'[u] = pc[u]
  BY <1>2, <1>6 DEF Calling
<1>9. TypeOK'
  <2>1. pc' \in [Threads -> Places]
    BY <1>1, <1>4, <1>5 DEF TypeOK, Places
  <2>2. forked' \in [Threads -> 0..MaxPid]
    BY <1>1, <1>4, ProcessorAssumption DEF TypeOK
  <2> QED
    BY <1>1, <1>4, <2>1, <2>2 DEF TypeOK
<1>10. SchedulerOK'
  BY <1>1, <1>4 DEF SchedulerOK, Existing, S!Existing
<1>11. OneHolds' /\ NobodySleepsThroughItsTurn'
  BY <1>4, <1>7 DEF Coherent, OneHolds, NobodySleepsThroughItsTurn, Calling
<1>12. MainPath'
  BY <1>1, <1>2, <1>3, <1>5, <1>6 DEF Coherent, MainPath, Calling
<1>13. Returns'
  <2>1. Existing' = Existing /\ \A u \in Threads : ReturnsTo(u)' = ReturnsTo(u)
    BY <1>4 DEF ReturnsTo, WhenExited, Existing, S!Existing
  <2>2. \A u \in Threads : pc'[u] \in {"stopped", "deciding"} => after'[u] \in ReturnsTo(u)
    BY <1>4, <1>7 DEF Coherent, Returns, Calling
  <2>3. pc'[1] \in {"stopped", "deciding"} /\ after'[1] = "exited" => 1 \notin Existing'
    BY <1>1, <1>4, <1>7, <2>1 DEF Coherent, Returns, Calling
  <2>4. \A u \in Threads : pc'[u] = "exited" => u = 1 /\ ~ running'
    BY <1>4, <1>7 DEF Coherent, Returns
  <2> QED
    BY <2>1, <2>2, <2>3, <2>4 DEF Returns
<1>14. Children'
  <2>1. \A u \in Threads : HasChild(u)' => HasChild(u) /\ u # t /\ forked'[u] = forked[u]
    BY <1>4, <1>6, <1>7 DEF HasChild, Calling
  <2>2. HasChild(t)
    BY <1>2 DEF HasChild
  <2>3. \A u \in Threads : HasChild(u)' => forked[u] # child
    BY <2>1, <2>2 DEF Coherent, Children, child
  <2>4. \A u \in Threads : HasChild(u)' => forked[u] \in Threads /\ forked[u] # t
    BY <1>1, <1>2, <2>1 DEF Coherent, Children, TypeOK, Threads
  <2>5. \A u \in Threads : HasChild(u)' => forked'[u] \in 1..highest_pid' /\ pc'[forked'[u]] = "none"
    <3> SUFFICES ASSUME NEW u \in Threads, HasChild(u)'
                 PROVE  forked'[u] \in 1..highest_pid' /\ pc'[forked'[u]] = "none"
      OBVIOUS
    <3>1. forked[u] \in 1..highest_pid /\ pc[forked[u]] = "none"
      BY <2>1 DEF Coherent, Children
    <3>2. pc'[forked[u]] = "none"
      BY <1>6, <2>3, <2>4, <3>1
    <3> QED
      BY <1>4, <2>1, <3>1, <3>2
  <2>6. \A u, v \in Threads : HasChild(u)' /\ HasChild(v)' /\ u # v => forked'[u] # forked'[v]
    BY <2>1 DEF Coherent, Children
  <2>7. \A u \in Threads : u > highest_pid' => pc'[u] = "none"
    <3> SUFFICES ASSUME NEW u \in Threads, u > highest_pid PROVE pc'[u] = "none"
      BY <1>4
    <3>1. pc[u] = "none" /\ u # t
      BY <1>2 DEF Coherent, Children
    <3>2. u # child
      BY <1>1, <1>2 DEF SchedulerOK
    <3> QED
      BY <1>6, <3>1, <3>2
  <2> QED
    BY <2>5, <2>6, <2>7 DEF Children
<1>15. Beginning'
  BY <1>1, <1>4, <1>7 DEF Coherent, Beginning, Calling
<1>16. Turns'
  <2>1. SUFFICES ASSUME running
                 PROVE  /\ OneCalls' /\ BodyIsCurrent' /\ SomeoneRuns'
                        /\ StoppedIsCurrent' /\ DecidingUntilRun' /\ RunIsCurrent'
    BY <1>4 DEF Turns
  <2>2. /\ OneCalls /\ BodyIsCurrent /\ SomeoneRuns
        /\ StoppedIsCurrent /\ DecidingUntilRun /\ RunIsCurrent
    BY <2>1 DEF Coherent, Turns
  <2>3. OneCalls'
    BY <1>7, <2>2 DEF OneCalls, Calling
  <2>4. BodyIsCurrent' /\ SomeoneRuns'
    BY <1>4, <1>7, <1>8, <2>2 DEF BodyIsCurrent, SomeoneRuns, Calling
  <2>5. StoppedIsCurrent' /\ DecidingUntilRun' /\ RunIsCurrent'
    BY <1>4, <1>7, <2>2 DEF StoppedIsCurrent, DecidingUntilRun, RunIsCurrent, Calling
  <2> QED
    BY <2>3, <2>4, <2>5
<1>17. LogOfDecision'
  BY <1>4 DEF Coherent, LogOfDecision
<1>18. LogOfHalt'
  <2>1. pc'[1] = "ended" => pc[1] = "ended"
    BY <1>1, <1>7
  <2>2. pc[1] = "ended" => pc'[1] = "ended"
    BY <1>1, <1>2, <1>6
  <2> QED
    BY <1>4, <2>1, <2>2 DEF Coherent, LogOfHalt
<1> QED
  BY <1>9, <1>10, <1>11, <1>12, <1>13, <1>14, <1>15, <1>16, <1>17, <1>18 DEF Coherent

-----------------------------------------------------------------------------
(* The loop of scheduler(). *)

\* The thread that stopped takes the mutex of current_process.
LEMMA EnterCoherent ==
  ASSUME Coherent, NEW t \in Threads, Enter(t)
  PROVE  Coherent'
<1>1. /\ pc[t] = "stopped" /\ CurrentProcessFree /\ current_process' = {}
      /\ pc' = [pc EXCEPT ![t] = "deciding"]
      /\ UNCHANGED <<wakeup, overlooked, highest_pid, decision, remaining, running, last_log,
                     returned_log, after, forked, spurious>>
  BY DEF Enter, Goes, scheduler
<1>2. TypeOK /\ SchedulerOK /\ Main \in Threads /\ 1 \in Threads /\ Main # 1
  BY ProcessorAssumption DEF Coherent, Main, Threads
<1>3. pc'[t] = "deciding" /\ \A u \in Threads : u # t => pc'[u] = pc[u]
  BY <1>1, <1>2 DEF TypeOK
<1>4. TypeOK'
  BY <1>1, <1>2 DEF TypeOK, Places
<1>5. SchedulerOK'
  BY <1>1, <1>2 DEF SchedulerOK, Existing, S!Existing
<1>6. OneHolds'
  BY <1>1, <1>3 DEF OneHolds, CurrentProcessFree
<1>7. NobodySleepsThroughItsTurn'
  BY <1>1, <1>3 DEF Coherent, NobodySleepsThroughItsTurn
<1>8. MainPath'
  BY <1>1, <1>2, <1>3 DEF Coherent, MainPath, Calling
<1>9. Returns'
  <2>1. Existing' = Existing /\ \A u \in Threads : ReturnsTo(u)' = ReturnsTo(u)
    BY <1>1 DEF ReturnsTo, WhenExited, Existing, S!Existing
  <2>2. \A u \in Threads :
          pc'[u] \in {"stopped", "deciding"} => pc[u] \in {"stopped", "deciding"}
    BY <1>1, <1>3
  <2>3. \A u \in Threads : pc'[u] = "exited" => pc[u] = "exited"
    BY <1>3
  <2> QED
    BY <1>1, <1>2, <2>1, <2>2, <2>3 DEF Coherent, Returns
<1>10. Children'
  <2>1. \A u \in Threads : HasChild(u)' <=> HasChild(u)
    BY <1>1, <1>3 DEF HasChild
  <2>2. \A u \in Threads : pc[u] = "none" => pc'[u] = "none"
    BY <1>1, <1>3
  <2>3. \A u \in Threads : forked[u] \in Threads
    BY <1>2 DEF TypeOK, Threads
  <2> QED
    BY <1>1, <2>1, <2>2, <2>3 DEF Coherent, Children
<1>11. Beginning'
  BY <1>1, <1>2, <1>3 DEF Coherent, Beginning
<1>12. Turns'
  <2>1. SUFFICES ASSUME running
                 PROVE  /\ OneCalls' /\ BodyIsCurrent' /\ SomeoneRuns'
                        /\ StoppedIsCurrent' /\ DecidingUntilRun' /\ RunIsCurrent'
    BY <1>1 DEF Turns
  <2>2. OneCalls /\ BodyIsCurrent /\ StoppedIsCurrent
    BY <2>1 DEF Coherent, Turns
  <2>3. decision.kind = "Stopped"
    BY <1>1, <2>2 DEF StoppedIsCurrent
  <2>4. \A u \in Threads : u # t => pc'[u] \notin Calling \cup {"body"}
    BY <1>1, <1>3, <2>2 DEF OneCalls, Calling
  <2>5. OneCalls'
    BY <2>4 DEF OneCalls, Calling
  <2>6. BodyIsCurrent' /\ StoppedIsCurrent'
    BY <1>3, <2>4 DEF BodyIsCurrent, StoppedIsCurrent, Calling
  <2>7. SomeoneRuns'
    BY <1>3 DEF SomeoneRuns, Calling
  <2>8. DecidingUntilRun' /\ RunIsCurrent'
    BY <1>1, <2>3 DEF DecidingUntilRun, RunIsCurrent
  <2> QED
    BY <2>5, <2>6, <2>7, <2>8
<1>13. LogOfDecision' /\ LogOfHalt'
  BY <1>1, <1>2, <1>3 DEF Coherent, LogOfDecision, LogOfHalt
<1> QED
  BY <1>4, <1>5, <1>6, <1>7, <1>8, <1>9, <1>10, <1>11, <1>12, <1>13 DEF Coherent

\* exec changes remaining only.
LEMMA ExecCoherent ==
  ASSUME Coherent, NEW t \in Threads, Exec(t)
  PROVE  Coherent'
<1>1. /\ pc[t] = "body" /\ running /\ remaining' = Decrement(remaining) /\ remaining' # 0
      /\ UNCHANGED <<wakeup, overlooked, highest_pid, decision, current_process, running,
                     last_log, returned_log, pc, after, forked, spurious>>
  BY DEF Exec, TimeIsLeft, scheduler
<1>2. remaining' \in 0..(Usize - 1) /\ remaining' = remaining - 1
  BY <1>1, TimeAtCall
<1>3. remaining' \in 1..decision.time /\ current_process = {decision.pid}
  BY <1>1, <1>2, AtInstruction
<1>4. TypeOK'
  BY <1>1, <1>2 DEF Coherent, TypeOK
<1>5. SchedulerOK'
  BY <1>1 DEF Coherent, SchedulerOK, Existing, S!Existing
<1>6. OneHolds' /\ NobodySleepsThroughItsTurn' /\ MainPath' /\ Beginning'
  BY <1>1 DEF Coherent, OneHolds, NobodySleepsThroughItsTurn, MainPath, Beginning
<1>7. Returns' /\ Children'
  BY <1>1 DEF Coherent, Returns, Children, ReturnsTo, WhenExited, HasChild, Existing, S!Existing
<1>8. Turns'
  <2>1. RunIsCurrent'
    BY <1>1, <1>3 DEF RunIsCurrent
  <2> QED
    BY <1>1, <2>1 DEF Coherent, Turns, OneCalls, BodyIsCurrent, SomeoneRuns, StoppedIsCurrent,
                      DecidingUntilRun, Calling
<1>9. LogOfDecision' /\ LogOfHalt'
  BY <1>1 DEF Coherent, LogOfDecision, LogOfHalt
<1> QED
  BY <1>4, <1>5, <1>6, <1>7, <1>8, <1>9 DEF Coherent

\* A round of the loop, and whom it may notify.
LEMMA DecidesStep ==
  ASSUME Coherent, NEW t \in Threads, Decides(t), NotifyAll \/ pc' = pc
  PROVE  /\ SchedulerOK' /\ decision'.kind \in {"Run", "Sleep"} \cup Final
         /\ last_log' = [decision |-> decision', stop_reason |-> None]
         /\ last_log' \in [decision : Decision, stop_reason : Threads]
         /\ pc' \in [Threads -> Places]
         /\ \A u \in Threads : pc'[u] # "suspend" => pc'[u] = pc[u]
         /\ \A u \in Threads : pc[u] # "waiting" => pc'[u] = pc[u]
         /\ OneHolds' /\ MainPath' /\ Beginning' /\ Children' /\ Returns'
<1>1. SchedulerOK /\ TypeOK /\ S!NextDecision /\ running /\ pc[t] = "deciding"
  BY DEF Coherent, Decides
<1>2. /\ SchedulerOK'
      /\ Existing' = Existing
      /\ highest_pid' = highest_pid
      /\ decision'.kind \in {"Run", "Sleep"} \cup Final
  BY <1>1, NextDecisionStep
<1>3. /\ last_log' = [decision |-> decision', stop_reason |-> None]
      /\ last_log' \in [decision : Decision, stop_reason : Threads]
  BY <1>2, ProcessorAssumption DEF Decides, LogDecision, SchedulerOK, None, Threads
<1>4. UNCHANGED <<after, forked>>
  BY DEF Decides
<1>5. /\ pc' \in [Threads -> Places]
      /\ \A u \in Threads : pc'[u] # "suspend" => pc'[u] = pc[u]
      /\ \A u \in Threads : pc[u] # "waiting" => pc'[u] = pc[u]
  BY <1>1 DEF NotifyAll, TypeOK, Places
<1>6. Main \in Threads /\ 1 \in Threads /\ Main # 1
  BY ProcessorAssumption DEF Main, Threads
<1>7. OneHolds'
  BY <1>5 DEF Coherent, OneHolds
<1>8. MainPath'
  BY <1>5, <1>6 DEF Coherent, MainPath, Calling
<1>9. Beginning'
  <2>1. pc[Main] # "start"
    <3>1. t = Main => pc[Main] # "start"
      BY <1>1
    <3>2. t # Main => pc[Main] # "start"
      BY <1>1, <1>6 DEF Coherent, Turns, OneCalls, Calling
    <3> QED
      BY <3>1, <3>2
  <2> QED
    BY <1>5, <1>6, <2>1 DEF Beginning
<1>10. Children'
  <2>1. \A u \in Threads : HasChild(u)' <=> HasChild(u)
    BY <1>4, <1>5 DEF HasChild
  <2>2. \A u \in Threads : pc[u] = "none" => pc'[u] = "none"
    BY <1>5
  <2>3. \A u \in Threads : forked[u] \in Threads
    BY <1>1 DEF TypeOK, Threads
  <2> QED
    BY <1>2, <1>4, <2>1, <2>2, <2>3 DEF Coherent, Children
<1>11. Returns'
  <2>1. \A u \in Threads : ReturnsTo(u)' = ReturnsTo(u)
    BY DEF ReturnsTo, WhenExited
  <2>2. \A u \in Threads : pc'[u] = "exited" => u = 1 /\ ~ running'
    BY <1>1, <1>5 DEF Coherent, Returns
  <2> QED
    BY <1>2, <1>4, <1>5, <1>6, <2>1, <2>2 DEF Coherent, Returns
<1> QED
  BY <1>2, <1>3, <1>5, <1>7, <1>8, <1>9, <1>10, <1>11

\* Nobody else is at work while a thread is in the loop.
LEMMA DecidesAlone ==
  ASSUME Coherent, NEW t \in Threads, Decides(t)
  PROVE  /\ \A u \in Threads : u # t => pc[u] \notin Calling \cup {"body", "parking"}
         /\ decision.kind \in {"Stopped", "Sleep"}
<1>1. running /\ pc[t] = "deciding" /\ current_process = {}
  BY DEF Decides
<1>2. \A u \in Threads : u # t => pc[u] \notin Calling \cup {"body"}
  BY <1>1 DEF Coherent, Turns, OneCalls, Calling
<1>3. \A u \in Threads : u # t => pc[u] # "parking"
  BY <1>1 DEF Coherent, OneHolds
<1>4. decision.kind \in {"Stopped", "Sleep"}
  BY <1>1 DEF Coherent, Turns, DecidingUntilRun
<1> QED
  BY <1>2, <1>3, <1>4

\* A process is dispatched.
LEMMA DispatchCoherent ==
  ASSUME Coherent, NEW t \in Threads, Dispatch(t)
  PROVE  Coherent'
<1>1. /\ Decides(t) /\ NotifyAll /\ decision'.kind = "Run"
      /\ remaining' = decision'.time /\ current_process' = {decision'.pid}
      /\ running' = running /\ running /\ pc[t] = "deciding"
      /\ UNCHANGED <<returned_log, after, forked, spurious>>
  BY DEF Dispatch, Decides
<1>2. /\ SchedulerOK' /\ last_log' = [decision |-> decision', stop_reason |-> None]
      /\ last_log' \in [decision : Decision, stop_reason : Threads]
      /\ pc' \in [Threads -> Places]
      /\ \A u \in Threads : pc'[u] # "suspend" => pc'[u] = pc[u]
      /\ \A u \in Threads : pc[u] # "waiting" => pc'[u] = pc[u]
      /\ OneHolds' /\ MainPath' /\ Beginning' /\ Children' /\ Returns'
  BY <1>1, DecidesStep
<1>4. \A u \in Threads : u # t => pc[u] \notin Calling \cup {"body", "parking"}
  BY <1>1, DecidesAlone
<1>5. decision'.time \in 1..(Usize - 1) /\ decision'.pid \in 1..MaxPid
  <2>1. /\ decision'.time \in Times /\ decision'.pid \in 1..highest_pid'
        /\ highest_pid' \in 0..MaxPid
    BY <1>1, <1>2 DEF SchedulerOK
  <2>2. decision'.time \in 1..(Usize - 1)
    BY <2>1, ProcessorAssumption
  <2>3. decision'.pid \in 1..MaxPid
    BY <2>1, ProcessorAssumption
  <2> QED
    BY <2>2, <2>3
<1>6. TypeOK'
  BY <1>1, <1>2, <1>5, ProcessorAssumption DEF Coherent, TypeOK
<1>7. NobodySleepsThroughItsTurn'
  <2>1. \A u \in Threads : pc'[u] \notin {"parking", "waiting"}
    BY <1>1, <1>2, <1>4 DEF NotifyAll
  <2> QED
    BY <2>1 DEF NobodySleepsThroughItsTurn
<1>8. Turns'
  <2>1. \A u \in Threads : pc'[u] \in Calling \cup {"body"} => u = t
    BY <1>2, <1>4 DEF Calling
  <2>2. pc'[t] = "deciding"
    BY <1>1, <1>2
  <2>3. OneCalls' /\ BodyIsCurrent' /\ SomeoneRuns' /\ StoppedIsCurrent'
    BY <1>1, <2>1, <2>2 DEF OneCalls, BodyIsCurrent, SomeoneRuns, StoppedIsCurrent, Calling
  <2>4. DecidingUntilRun' /\ RunIsCurrent'
    BY <1>1, <1>5, ProcessorAssumption DEF DecidingUntilRun, RunIsCurrent
  <2> QED
    BY <2>3, <2>4 DEF Turns
<1>9. LogOfDecision'
  BY <1>1, <1>2 DEF LogOfDecision
<1>10. LogOfHalt'
  BY <1>1, <1>2, ProcessorAssumption DEF Coherent, LogOfHalt, Threads
<1> QED
  BY <1>2, <1>6, <1>7, <1>8, <1>9, <1>10 DEF Coherent

\* All sleep: one more round.
LEMMA IdleCoherent ==
  ASSUME Coherent, NEW t \in Threads, Idle(t)
  PROVE  Coherent'
<1>1. /\ Decides(t) /\ decision'.kind = "Sleep" /\ running /\ pc[t] = "deciding"
      /\ current_process = {}
      /\ UNCHANGED <<current_process, remaining, running, pc, returned_log, after, forked,
                     spurious>>
  BY DEF Idle, Decides
<1>2. /\ SchedulerOK' /\ last_log' = [decision |-> decision', stop_reason |-> None]
      /\ last_log' \in [decision : Decision, stop_reason : Threads]
      /\ OneHolds' /\ MainPath' /\ Beginning' /\ Children' /\ Returns'
  BY <1>1, DecidesStep
<1>4. TypeOK' /\ NobodySleepsThroughItsTurn'
  BY <1>1, <1>2 DEF Coherent, TypeOK, NobodySleepsThroughItsTurn
<1>5. \A u \in Threads : u # t => pc[u] \notin Calling \cup {"body"}
  BY <1>1, DecidesAlone
<1>6. Turns'
  <2>1. OneCalls' /\ BodyIsCurrent' /\ SomeoneRuns' /\ StoppedIsCurrent'
    BY <1>1, <1>5 DEF OneCalls, BodyIsCurrent, SomeoneRuns, StoppedIsCurrent, Calling
  <2>2. DecidingUntilRun' /\ RunIsCurrent'
    BY <1>1 DEF DecidingUntilRun, RunIsCurrent
  <2> QED
    BY <2>1, <2>2 DEF Turns
<1>7. LogOfDecision' /\ LogOfHalt'
  BY <1>1, <1>2 DEF Coherent, LogOfDecision, LogOfHalt
<1> QED
  BY <1>2, <1>4, <1>6, <1>7 DEF Coherent

\* The simulation halts, and the decision that ends it is the last log.
LEMMA HaltCoherent ==
  ASSUME Coherent, NEW t \in Threads, Halt(t)
  PROVE  Coherent'
<1>1. /\ Decides(t) /\ NotifyAll /\ decision'.kind \in Final /\ running' = FALSE
      /\ UNCHANGED <<current_process, remaining, returned_log, after, forked, spurious>>
  BY DEF Halt, Decides
<1>2. /\ SchedulerOK' /\ last_log' = [decision |-> decision', stop_reason |-> None]
      /\ last_log' \in [decision : Decision, stop_reason : Threads]
      /\ pc' \in [Threads -> Places]
      /\ \A u \in Threads : pc'[u] # "suspend" => pc'[u] = pc[u]
      /\ \A u \in Threads : pc[u] # "waiting" => pc'[u] = pc[u]
      /\ OneHolds' /\ MainPath' /\ Beginning' /\ Children' /\ Returns'
  BY <1>1, DecidesStep
<1>4. TypeOK'
  BY <1>1, <1>2 DEF Coherent, TypeOK
<1>5. NobodySleepsThroughItsTurn'
  <2>1. pc[t] = "deciding" /\ \A u \in Threads : u # t => pc[u] # "parking"
    BY <1>1, DecidesAlone DEF Decides
  <2>2. \A u \in Threads : pc'[u] \notin {"parking", "waiting"}
    BY <1>1, <1>2, <2>1 DEF NotifyAll
  <2> QED
    BY <2>2 DEF NobodySleepsThroughItsTurn
<1>6. Turns' /\ LogOfDecision'
  BY <1>1 DEF Turns, LogOfDecision
<1>7. LogOfHalt'
  <2>1. pc'[1] = "ended" => pc[1] = "ended"
    BY <1>2, ProcessorAssumption DEF Threads
  <2> QED
    BY <1>1, <1>2, <2>1 DEF Coherent, LogOfHalt
<1> QED
  BY <1>2, <1>4, <1>5, <1>6, <1>7 DEF Coherent

-----------------------------------------------------------------------------
(* The invariant, and what follows from it. *)

\* Coherent holds when Processor::run begins.
LEMMA InitCoherent == Init => Coherent
<1> SUFFICES ASSUME Init PROVE Coherent
  OBVIOUS
<1> USE ProcessorAssumption DEF Init
<1>1. Main \in Threads /\ 1 \in Threads /\ Main # 1
  BY DEF Main, Threads
<1>2. \A t \in Threads : pc[t] = IF t = Main THEN "start" ELSE "none"
  OBVIOUS
<1>3. TypeOK
  <2>1. NoLog \in [decision : Decision, stop_reason : Threads]
    BY <1>1 DEF NoLog, None, Outcome, Decision, Main
  <2>2. 1 \in 0..(Usize - 1)
    OBVIOUS
  <2> QED
    BY <2>1, <2>2 DEF TypeOK, Places
<1>4. SchedulerOK
  BY DEF SchedulerOK, Existing, S!Existing, S!Init, S!Outcome, Decision
<1>5. OneHolds /\ NobodySleepsThroughItsTurn
  BY <1>2 DEF OneHolds, NobodySleepsThroughItsTurn
<1>6. MainPath /\ Returns
  BY <1>1, <1>2 DEF MainPath, Returns, Calling
<1>7. Children
  BY <1>1, <1>2 DEF Children, HasChild, S!Init, Main, Threads
<1>8. Beginning
  BY DEF Beginning, S!Init, S!Outcome
<1>9. Turns
  <2>1. decision.kind = "Start"
    BY DEF S!Init, S!Outcome
  <2> QED
    BY <1>1, <1>2, <2>1 DEF Turns, OneCalls, BodyIsCurrent, SomeoneRuns, StoppedIsCurrent,
                            DecidingUntilRun, RunIsCurrent, Calling
<1>10. LogOfDecision /\ LogOfHalt
  BY <1>1, <1>2 DEF LogOfDecision, LogOfHalt, S!Init, S!Outcome
<1> QED
  BY <1>3, <1>4, <1>5, <1>6, <1>7, <1>8, <1>9, <1>10 DEF Coherent

\* Nothing happens.
LEMMA StutterCoherent ==
  ASSUME Coherent, UNCHANGED vars
  PROVE  Coherent'
<1> USE DEF vars
<1>1. TypeOK' /\ SchedulerOK'
  BY DEF Coherent, TypeOK, SchedulerOK, Existing, S!Existing
<1>2. OneHolds' /\ NobodySleepsThroughItsTurn' /\ MainPath' /\ Beginning'
  BY DEF Coherent, OneHolds, NobodySleepsThroughItsTurn, MainPath, Beginning
<1>3. Returns' /\ Children'
  BY DEF Coherent, Returns, Children, ReturnsTo, WhenExited, HasChild, Existing, S!Existing
<1>4. Turns'
  BY DEF Coherent, Turns, OneCalls, BodyIsCurrent, SomeoneRuns, StoppedIsCurrent,
         DecidingUntilRun, RunIsCurrent, Calling
<1>5. LogOfDecision' /\ LogOfHalt'
  BY DEF Coherent, LogOfDecision, LogOfHalt
<1> QED
  BY <1>1, <1>2, <1>3, <1>4, <1>5 DEF Coherent

\* Every step of the main thread and of the others keeps the invariant.
LEMMA NextCoherent == Coherent /\ [Next]_vars => Coherent'
<1> SUFFICES ASSUME Coherent, [Next]_vars PROVE Coherent'
  OBVIOUS
<1>1. CASE Start
  BY <1>1, StartStops, StopCoherent
<1>2. CASE Join
  BY <1>2, JoinCoherent
<1>3. ASSUME NEW t \in Threads, Step(t) PROVE Coherent'
  BY <1>3, SuspendCoherent, ParkCoherent, EnterCoherent, DispatchCoherent, IdleCoherent,
     HaltCoherent, LeaveCoherent, SpawnCoherent, GetLogsCoherent DEF Step
<1>4. ASSUME NEW t \in Threads, Instruction(t) PROVE Coherent'
  <2>1. CASE Exec(t)
    BY <2>1, ExecCoherent
  <2>2. CASE Preempted(t) \/ Fork(t) \/ Signal(t) \/ Wait(t) \/ Sleep(t) \/ Exit(t)
    <3>1. pc[t] = "body" /\ \E place \in ReturnsTo(t) : StopsAs(t, place)
      BY <2>2, InstructionStops
    <3> QED
      BY <3>1, StopCoherent
  <2>3. CASE CallInVain(t) \/ ForkInVain(t) \/ ExitInVain(t)
    BY <2>3, CallsInVainCoherent DEF CallInVain, ForkInVain, ExitInVain
  <2> QED
    BY <1>4, <2>1, <2>2, <2>3 DEF Instruction, Finish
<1>5. CASE UNCHANGED vars
  BY <1>5, StutterCoherent
<1> QED
  BY <1>1, <1>2, <1>3, <1>4, <1>5, WakeSpuriouslyCoherent DEF Next, MainStep, Terminated

(***************************************************************************)
(* The inductive invariant: the places of the threads, what the scheduler  *)
(* decided last and what is logged fit together in every reachable state.  *)
(***************************************************************************)
THEOREM Coherence == Spec => []Coherent
<1> QED
  BY InitCoherent, NextCoherent, PTL DEF Spec

(***************************************************************************)
(* All variables have their types; above all remaining, a usize.           *)
(***************************************************************************)
THEOREM TypeCorrect == Spec => []TypeOK
<1>1. Coherent => TypeOK
  BY DEF Coherent
<1> QED
  BY <1>1, Coherence, PTL

(***************************************************************************)
(* Of any number of threads one at a time executes instructions or calls   *)
(* the scheduler, and it is the one whose process the scheduler runs.      *)
(***************************************************************************)
THEOREM OneAtATime == Spec => []OneThreadRuns
<1>1. Coherent => OneThreadRuns
  BY DEF Coherent, Turns, OneCalls, BodyIsCurrent, OneThreadRuns, Calling
<1> QED
  BY <1>1, Coherence, PTL

(***************************************************************************)
(* The atomic remaining and the number the scheduler subtracts it from     *)
(* never part, whatever the width of a usize.                              *)
(***************************************************************************)
THEOREM NoUnderflow == Spec => []RemainingAgrees
<1>1. Coherent => RemainingAgrees
  BY DEF Coherent, Turns, BodyIsCurrent, RunIsCurrent, RemainingAgrees
<1> QED
  BY <1>1, Coherence, PTL

(***************************************************************************)
(* No wakeup of suspend's condition variable is lost.                      *)
(***************************************************************************)
THEOREM NoLostWakeup == Spec => []NobodySleepsThroughItsTurn
<1>1. Coherent => NobodySleepsThroughItsTurn
  BY DEF Coherent
<1> QED
  BY <1>1, Coherence, PTL

(***************************************************************************)
(* The logs that run returns end with the decision that ended the          *)
(* simulation.                                                             *)
(***************************************************************************)
THEOREM LogsComplete == Spec => []LogsAreComplete
<1>1. Coherent => LogsAreComplete
  BY DEF Coherent, MainPath, LogOfHalt, LogsAreComplete
<1> QED
  BY <1>1, Coherence, PTL

-----------------------------------------------------------------------------
(* The stop reasons. *)

\* The step of EveryStopIsLogged.
LogsTheStop ==
  last_log'.stop_reason = None /\ last_log'.decision.kind # "Start" /\ last_log' # last_log =>
    last_log.stop_reason = IF last_log.decision.kind = "Run" THEN last_log.decision.pid ELSE None

\* When a round of the loop pushes a log, the log before it is answered.
LEMMA DecidesLogsTheStop ==
  ASSUME Coherent, NEW t \in Threads, Decides(t)
  PROVE  LogsTheStop
<1>1. running /\ decision.kind \in {"Stopped", "Sleep"}
  BY DecidesAlone DEF Decides
<1>2. CASE decision.kind = "Sleep"
  BY <1>1, <1>2 DEF Coherent, LogOfDecision, LogsTheStop
<1>3. CASE decision.kind = "Stopped"
  BY <1>1, <1>3 DEF Coherent, LogOfDecision, LogsTheStop, NoLog, Outcome
<1> QED
  BY <1>1, <1>2, <1>3

\* A stop reason is the thread that stops.
LEMMA StopLogsTheStop ==
  ASSUME Coherent, NEW t \in Threads, pc[t] \in {"body", "start"}, NEW place, StopsAs(t, place)
  PROVE  LogsTheStop
<1>1. running /\ last_log' = IF last_log = NoLog THEN NoLog
                             ELSE [last_log EXCEPT !.stop_reason = t]
  BY DEF StopsAs, Stops, LogStop
<1>2. CASE last_log = NoLog
  BY <1>1, <1>2 DEF LogsTheStop
<1>3. CASE last_log # NoLog
  <2>1. pc[t] = "body" /\ last_log = [decision |-> decision, stop_reason |-> None]
    BY <1>1, <1>3, StopsCurrent
  <2>2. t # None
    BY <1>1, <2>1, AtInstruction DEF Main, None
  <2> QED
    BY <1>1, <1>3, <2>1, <2>2 DEF LogsTheStop
<1> QED
  BY <1>2, <1>3

\* No step pushes a log before the last one is answered.
LEMMA NextLogsTheStop == Coherent /\ [Next]_vars => LogsTheStop
<1> SUFFICES ASSUME Coherent, [Next]_vars PROVE LogsTheStop
  OBVIOUS
<1>1. CASE Start
  BY <1>1, StartStops, StopLogsTheStop
<1>2. ASSUME last_log' = last_log PROVE LogsTheStop
  BY <1>2 DEF LogsTheStop
<1>3. ASSUME NEW t \in Threads, Step(t) PROVE LogsTheStop
  <2>1. CASE Dispatch(t) \/ Idle(t) \/ Halt(t)
    BY <2>1, DecidesLogsTheStop DEF Dispatch, Idle, Halt
  <2>2. CASE GetLogs(t)
    BY <2>2 DEF GetLogs, LogsTheStop, NoLog, Outcome
  <2>3. CASE Suspend(t) \/ Park(t) \/ Enter(t) \/ Leave(t) \/ Spawn(t)
    BY <1>2, <2>3 DEF Suspend, Park, Enter, Leave, Spawn
  <2> QED
    BY <1>3, <2>1, <2>2, <2>3 DEF Step
<1>4. ASSUME NEW t \in Threads, Instruction(t) PROVE LogsTheStop
  <2>1. CASE Preempted(t) \/ Fork(t) \/ Signal(t) \/ Wait(t) \/ Sleep(t) \/ Exit(t)
    <3>1. pc[t] = "body" /\ \E place \in ReturnsTo(t) : StopsAs(t, place)
      BY <2>1, InstructionStops
    <3> QED
      BY <3>1, StopLogsTheStop
  <2>2. CASE Exec(t) \/ CallInVain(t) \/ ForkInVain(t) \/ ExitInVain(t)
    BY <1>2, <2>2 DEF Exec, CallInVain, ForkInVain, ExitInVain, CallsInVain
  <2> QED
    BY <1>4, <2>1, <2>2 DEF Instruction, Finish
<1>5. CASE Join
  BY <1>2, <1>5 DEF Join
<1>6. ASSUME NEW t \in Threads, WakeSpuriously(t) PROVE LogsTheStop
  BY <1>2, <1>6 DEF WakeSpuriously
<1>7. CASE UNCHANGED vars
  BY <1>2, <1>7 DEF vars
<1> QED
  BY <1>1, <1>3, <1>4, <1>5, <1>6, <1>7 DEF Next, MainStep, Terminated

(***************************************************************************)
(* The stop reason of every decision to run is in its log before the next  *)
(* log is pushed, and is that of the process it let run.                   *)
(***************************************************************************)
THEOREM StopsAreLogged == Spec => EveryStopIsLogged
<1>1. Coherent /\ [Next]_vars => [LogsTheStop]_vars
  BY NextLogsTheStop
<1>2. Spec => [][LogsTheStop]_vars
  BY <1>1, Coherence, PTL DEF Spec
<1> QED
  BY <1>2 DEF EveryStopIsLogged, LogsTheStop

-----------------------------------------------------------------------------
(* The time of a system call. *)

\* The action that CallsTakeTime says every step is.
TakesTime ==
  decision.kind = "Run" /\ decision'.kind = "Stopped" =>
    \/ \E t \in Threads : Preempted(t)
    \/ remaining' < decision.time

\* A system call of a process has less time left than the process was given.
LEMMA CallTakesTime ==
  ASSUME Coherent, NEW t \in Threads, Fork(t) \/ Signal(t) \/ Wait(t) \/ Sleep(t) \/ Exit(t)
  PROVE  remaining' < decision.time
<1>1. pc[t] = "body" /\ running /\ CountCall
  BY DEF Fork, Signal, Wait, Sleep, Exit, Stops
<1>2. Decrement(remaining) = remaining - 1
  BY <1>1, TimeAtCall
<1>3. remaining \in 1..decision.time /\ decision.time \in 1..(Usize - 1)
  BY <1>1, AtInstruction
<1>4. remaining' = remaining - 1
  BY <1>1, <1>2 DEF CountCall, Reported
<1> QED
  BY <1>3, <1>4, ProcessorAssumption

\* The steps that learn of a decision follow a stop, or a sleep.
LEMMA NextTakesTime == Coherent /\ [Next]_vars => TakesTime
<1> SUFFICES ASSUME Coherent, [Next]_vars PROVE TakesTime
  OBVIOUS
<1>1. ASSUME decision' = decision PROVE TakesTime
  BY <1>1 DEF TakesTime
<1>2. ASSUME decision.kind # "Run" PROVE TakesTime
  BY <1>2 DEF TakesTime
<1>3. CASE Start
  BY <1>2, <1>3 DEF Start, S!Start, Outcome
<1>4. ASSUME NEW t \in Threads, Step(t) PROVE TakesTime
  <2>1. CASE Dispatch(t) \/ Idle(t) \/ Halt(t)
    <3>1. S!NextDecision
      BY <2>1 DEF Dispatch, Idle, Halt, Decides
    <3>2. decision.kind \in {"Stopped", "Sleep"}
      BY <3>1 DEF S!NextDecision, S!DecideRun, S!DecideSleep, S!DecideDeadlock, S!DecidePanic,
                  S!DecideDone, S!Decided
    <3> QED
      BY <1>2, <3>2
  <2>2. CASE Suspend(t) \/ Park(t) \/ Enter(t) \/ Leave(t) \/ Spawn(t) \/ GetLogs(t)
    BY <1>1, <2>2 DEF Suspend, Park, Enter, Leave, Spawn, GetLogs, scheduler
  <2> QED
    BY <1>4, <2>1, <2>2 DEF Step
<1>5. ASSUME NEW t \in Threads, Instruction(t) PROVE TakesTime
  <2>1. CASE Preempted(t)
    BY <2>1 DEF TakesTime
  <2>2. CASE Fork(t) \/ Signal(t) \/ Wait(t) \/ Sleep(t) \/ Exit(t)
    BY <2>2, CallTakesTime DEF TakesTime
  <2>3. CASE Exec(t) \/ CallInVain(t) \/ ForkInVain(t) \/ ExitInVain(t)
    BY <1>1, <2>3 DEF Exec, CallInVain, ForkInVain, ExitInVain, CallsInVain, scheduler
  <2> QED
    BY <1>5, <2>1, <2>2, <2>3 DEF Instruction, Finish
<1>6. CASE Join
  BY <1>1, <1>6 DEF Join, scheduler
<1>7. ASSUME NEW t \in Threads, WakeSpuriously(t) PROVE TakesTime
  BY <1>1, <1>7 DEF WakeSpuriously, scheduler
<1>8. CASE UNCHANGED vars
  BY <1>1, <1>8 DEF vars
<1> QED
  BY <1>3, <1>4, <1>5, <1>6, <1>7, <1>8 DEF Next, MainStep, Terminated

(***************************************************************************)
(* A system call leaves less time than the scheduler gave, whatever the    *)
(* timeslices and the width of a usize, so that time - 1 in                *)
(* increment_timings has a unit to take.                                   *)
(***************************************************************************)
THEOREM CallsTake == Spec => CallsTakeTime
<1>1. Coherent /\ [Next]_vars => [TakesTime]_vars
  BY NextTakesTime
<1>2. Spec => [][TakesTime]_vars
  BY <1>1, Coherence, PTL DEF Spec
<1> QED
  BY <1>2 DEF CallsTakeTime, TakesTime

=============================================================================
