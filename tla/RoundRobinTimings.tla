------------------------- MODULE RoundRobinTimings --------------------------
(***************************************************************************)
(* The timings of the processes of RoundRobin, which every log reports:    *)
(* increment_timings counts them in each stop(), for the stopped process,  *)
(* the ready ones and the waiting ones apart, and sleep() in a next() for  *)
(* the waiting ones alone.  No decision depends on them: every step here is*)
(* a step of RoundRobin, and timings are those of the PCBs it moves.       *)
(***************************************************************************)
EXTENDS RoundRobin, FiniteSetsExt

CONSTANT MaxClock     \* bound: no stop beyond this time

ASSUME TimingsAssumption == MaxClock \in Nat

VARIABLES
  timings,      \* the timings of the PCB of each process
  clock,        \* history: the time that has passed
  born,         \* history: when each process was forked
  gone          \* history: the time nobody ran, and what processes that exited had used

timedVars == <<vars, timings, clock, born, gone>>

NoTimings == [total |-> 0, syscalls |-> 0, execution |-> 0]

TimedInit ==
  /\ Init
  /\ timings = [pid \in {} |-> NoTimings]
  /\ clock = 0
  /\ born = [pid \in {} |-> 0]
  /\ gone = 0

\* Pcb::increment_timings.
Incremented(t, total, syscalls, execution) ==
  [total |-> t.total + total,
   syscalls |-> t.syscalls + syscalls,
   execution |-> t.execution + execution]

\* For mutation: the unit of time of the system call is counted twice.
CallCountedTwice(t, time, calls) == Incremented(t, time, calls, time)

\* The stopped process: a system call is one unit of the time it used.
OfStopped(t, time, calls) == Incremented(t, time, calls, time - calls)

\* For mutation: the ready processes are passed over.
ReadyAreNot(pid, time) ==
  IF pid \in WaitingPids THEN Incremented(timings[pid], time, 0, 0) ELSE timings[pid]

\* A process that was ready or waiting.
OfOther(pid, time) == Incremented(timings[pid], time, 0, 0)

Busy(t) == t.syscalls + t.execution

\* increment_timings(reason), and what the call itself does to the processes.
IncrementTimings(time, calls) ==
  /\ timings' = [pid \in LivePids' |->
                   IF pid \in RunningPids THEN OfStopped(timings[pid], time, calls)
                   ELSE IF pid \in LivePids THEN OfOther(pid, time)
                   ELSE NoTimings]
  /\ clock' = clock + time
  /\ born' = [pid \in LivePids' |-> IF pid \in LivePids THEN born[pid] ELSE clock + time]
  /\ gone' = gone + (IF RunningPids \subseteq LivePids' THEN 0
                     ELSE Busy(timings[decision.pid]) + time)

SystemCall(remaining) ==
  \/ Fork(remaining)
  \/ Exit(remaining)
  \/ \E event \in Events : Signal(event, remaining) \/ Wait(event, remaining)
  \/ \E time \in SleepTimes : Sleep(time, remaining)

WithinBound == clock + remaining_time <= MaxClock

TimedStop ==
  /\ WithinBound
  /\ \/ Start /\ IncrementTimings(0, 0)
     \/ Expired /\ IncrementTimings(remaining_time, 0)
     \/ \E remaining \in Remaining :
          SystemCall(remaining) /\ IncrementTimings(remaining_time - remaining, 1)

\* next(): the time of the sleep that was asked for is counted as it is played.
TimedNextDecision ==
  /\ NextDecision
  /\ timings' = [pid \in LivePids |->
                   IF pid \in WaitingPids THEN Incremented(timings[pid], sleep_time, 0, 0)
                   ELSE timings[pid]]
  /\ clock' = clock + sleep_time
  /\ gone' = gone + sleep_time
  /\ UNCHANGED born

TimedHalted == (decision.kind \in Final \/ ~ WithinBound) /\ UNCHANGED timedVars

TimedNext == TimedStop \/ TimedNextDecision \/ TimedHalted

TimedSpec == TimedInit /\ [][TimedNext]_timedVars
-----------------------------------------------------------------------------
(***************************************************************************)
(* pcb.rs:23, timings.0: "the total time from the process's inital fork to *)
(* exit."  It is exact at all times, wherever the process has been since:  *)
(* whatever list it was in, each stop and each sleep counted it once.      *)
(***************************************************************************)
TotalsAreExact ==
  \A pid \in LivePids : timings[pid].total = clock - born[pid]

(***************************************************************************)
(* Every unit of time that has passed was spent by exactly one process, in *)
(* a system call or executing, or nobody ran: no call is charged to two    *)
(* processes or twice to one, and none of the processor's time is lost.    *)
(***************************************************************************)
TimesAddUp ==
  clock = gone + MapThenSumSet(LAMBDA pid : Busy(timings[pid]), LivePids)
=============================================================================
