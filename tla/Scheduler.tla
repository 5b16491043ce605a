----------------------------- MODULE Scheduler ------------------------------
(***************************************************************************)
(* What a scheduler promises to its processor, whatever its policy: the    *)
(* abstract specification that RoundRobin, RoundRobinPriorities and Cfs    *)
(* implement, and that Processor is composed with.                         *)
(*                                                                         *)
(* A process is here the condition it waits for, or none.  Left open are   *)
(* the queues, the choice among the awake processes and the timeslice the  *)
(* chosen one gets.  Kept are who exists, when exactly a sleeper and a     *)
(* waiter wake up, and which decision may be answered when.                *)
(***************************************************************************)
EXTENDS SchedulerTypes, Pcb

CONSTANTS
  Times,        \* the timeslices a process may be given
  Events, SleepTimes, MaxPid,
  Overlooks     \* TRUE where Sleep and Wait do not call wakeup_processes

VARIABLES
  wakeup,       \* for each process that exists, its WakeupCondition
  overlooked,   \* the awake processes that next() does not look at
  highest_pid,
  decision      \* what the processor last learned

vars == <<wakeup, overlooked, highest_pid, decision>>

Existing == DOMAIN wakeup

Init ==
  /\ wakeup = [pid \in {} |-> NoWakeup]
  /\ overlooked = {}
  /\ highest_pid = 0
  /\ decision = Outcome("Start")

-----------------------------------------------------------------------------
(* Time passes. *)

\* What is left of a wakeup condition: a sleep of no more than `time' is over.
Countdown(condition, time) ==
  IF condition.kind # "Sleep" THEN condition
  ELSE IF condition.arg <= time THEN NoWakeup ELSE SleepWakeup(condition.arg - time)

After(time) == [pid \in Existing |-> Countdown(wakeup[pid], time)]

DueWithin(time) ==
  {pid \in Existing : wakeup[pid] # NoWakeup /\ After(time)[pid] = NoWakeup}

-----------------------------------------------------------------------------
(* stop(reason), by the process that was told to run. *)

Remaining == 0..(decision.time - 1)

Start ==
  /\ decision.kind = "Start"
  /\ wakeup' = [pid \in {highest_pid + 1} |-> NoWakeup]
  /\ highest_pid' = highest_pid + 1
  /\ decision' = Outcome("Stopped")
  /\ UNCHANGED overlooked

Stopped ==
  /\ decision.kind = "Run"
  /\ decision' = Outcome("Stopped")

Expired ==
  /\ Stopped
  /\ wakeup' = After(decision.time)
  /\ overlooked' = {}
  /\ UNCHANGED highest_pid

Fork(remaining) ==
  /\ Stopped
  /\ highest_pid < MaxPid
  /\ wakeup' = [pid \in Existing \cup {highest_pid + 1} |->
                  IF pid \in Existing THEN After(decision.time - remaining)[pid]
                  ELSE NoWakeup]
  /\ overlooked' = {}
  /\ highest_pid' = highest_pid + 1

Signal(event, remaining) ==
  /\ Stopped
  /\ wakeup' = [pid \in Existing |->
                  IF wakeup[pid] = SignalWakeup(event) THEN NoWakeup
                  ELSE After(decision.time - remaining)[pid]]
  /\ overlooked' = {}
  /\ UNCHANGED highest_pid

\* The processes this call should have woken may be left for a later one.
Block(condition, remaining) ==
  /\ Stopped
  /\ wakeup' = [After(decision.time - remaining) EXCEPT ![decision.pid] = condition]
  /\ overlooked' = IF Overlooks THEN overlooked \cup DueWithin(decision.time - remaining)
                   ELSE {}
  /\ UNCHANGED highest_pid

Sleep(time, remaining) == Block(SleepWakeup(time), remaining)

Wait(event, remaining) == Block(SignalWakeup(event), remaining)

Exit(remaining) ==
  /\ Stopped
  /\ wakeup' = [pid \in Existing \ {decision.pid} |->
                  After(decision.time - remaining)[pid]]
  /\ overlooked' = {}
  /\ UNCHANGED highest_pid

Stop ==
  \/ Start
  \/ Expired
  \/ \E remaining \in Remaining :
       \/ Fork(remaining)
       \/ Exit(remaining)
       \/ \E event \in Events : Signal(event, remaining) \/ Wait(event, remaining)
       \/ \E time \in SleepTimes : Sleep(time, remaining)

-----------------------------------------------------------------------------
(* next().  The sleep it asked for last time has passed before it decides. *)

Slept == IF decision.kind = "Sleep" THEN decision.time ELSE 0

Passed == IF Slept = 0 THEN wakeup ELSE After(Slept)

StillOverlooked == IF Slept = 0 THEN overlooked ELSE {}

Awake == {pid \in Existing : Passed[pid] = NoWakeup} \ StillOverlooked

Sleepers == {pid \in Existing : Passed[pid].kind = "Sleep"}

\* `next_decision' is the decision of this call.
Decided(next_decision) ==
  /\ decision.kind \in {"Stopped", "Sleep"}
  /\ wakeup' = Passed
  /\ overlooked' = StillOverlooked
  /\ decision' = next_decision
  /\ UNCHANGED highest_pid

DecideRun ==
  /\ 1 \in Existing
  /\ \E pid \in Awake, time \in Times : Decided(RunFor(pid, time))

\* No longer, and no shorter, than until the first sleeper wakes up.
DecideSleep ==
  /\ 1 \in Existing
  /\ Awake = {}
  /\ \E pid \in Sleepers :
       /\ Passed[pid].arg # 0
       /\ \A other \in Sleepers : Passed[pid].arg <= Passed[other].arg
       /\ Decided(SleepFor(Passed[pid].arg))

DecideDeadlock ==
  /\ 1 \in Existing
  /\ Awake = {}
  /\ Sleepers = {}
  /\ Decided(Outcome("Deadlock"))

DecidePanic ==
  /\ Existing # {}
  /\ 1 \notin Existing
  /\ Decided(Outcome("Panic"))

DecideDone ==
  /\ Existing = {}
  /\ Decided(Outcome("Done"))

NextDecision ==
  \/ DecideRun
  \/ DecideSleep
  \/ DecideDeadlock
  \/ DecidePanic
  \/ DecideDone

Next == Stop \/ NextDecision

Spec == Init /\ [][Next]_vars
=============================================================================
