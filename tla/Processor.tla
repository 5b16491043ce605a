----------------------------- MODULE Processor ------------------------------
(***************************************************************************)
(* The processor simulator, processor/src/lib.rs: one thread per simulated *)
(* process, and the main thread, which is in Processor::run.  The threads  *)
(* take turns by a condition variable on current_process, and whoever      *)
(* stops calls the scheduler on its own thread.  The scheduler is the one  *)
(* that Scheduler specifies; the code of the processes is any sequence of  *)
(* instructions that comes to an end.                                      *)
(*                                                                         *)
(* pc[t] is where thread t is:                                             *)
(*   "none"      not spawned yet          "start"    run, before Fork      *)
(*   "suspend"   about to lock the mutex of current_process in suspend     *)
(*   "parking"   has the mutex and is about to wait on the condition       *)
(*   "waiting"   waits on the condition   "body"     between instructions  *)
(*   "stopped"   in scheduler(), after stop()                              *)
(*   "deciding"  in the loop of scheduler(), with the mutex                *)
(*   "spawning"  in fork or run, with the PID of a child without a thread  *)
(*   "exited"    PID 1 after exit()       "joining"  run, waiting for PID 1*)
(*   "ended"     "panicked"                                                *)
(* An atomic that only the running thread uses, and what is done under one *)
(* lock, need no finer steps: OneThreadRuns says that they do not.         *)
(***************************************************************************)
EXTENDS SchedulerTypes

CONSTANTS
  Times, Events, SleepTimes, MaxPid, Overlooks,     \* of the scheduler
  Usize,            \* the number of values of a usize
  MaxSpurious       \* bound: the number of spurious wakeups

ASSUME ProcessorAssumption ==
  /\ Usize \in Nat \ {0, 1}
  /\ Times \subseteq 1..(Usize - 1)
  /\ Events \subseteq Nat
  /\ SleepTimes \subseteq Nat \ {0}
  /\ MaxPid \in Nat \ {0}
  /\ Overlooks \in BOOLEAN
  /\ MaxSpurious \in Nat

VARIABLES
  wakeup, overlooked, highest_pid, decision,        \* of the scheduler
  current_process,  \* Option<Pid>
  remaining,        \* AtomicUsize
  running,          \* AtomicBool
  last_log,         \* the last entry of logs
  returned_log,     \* the last entry of what run returns
  pc,
  after,            \* after[t]: where t goes when scheduler() returns
  forked,           \* forked[t]: the pid that Fork returned to t
  spurious          \* how many spurious wakeups there were

scheduler == <<wakeup, overlooked, highest_pid, decision>>
vars == <<wakeup, overlooked, highest_pid, decision, current_process, remaining,
          running, last_log, returned_log, pc, after, forked, spurious>>

S == INSTANCE Scheduler

Main == 0
Threads == 0..MaxPid

\* A log is its decision and the thread whose stop is its stop_reason, or None.
None == 0
NoLog == [decision |-> Outcome("Start"), stop_reason |-> None]

Places == {"none", "start", "suspend", "parking", "waiting", "body", "stopped", "deciding",
           "spawning", "exited", "joining", "ended", "panicked"}

TypeOK ==
  /\ current_process \in SUBSET (1..MaxPid)
  /\ remaining \in 0..(Usize - 1)
  /\ running \in BOOLEAN
  /\ last_log \in [decision : Decision, stop_reason : Threads]
  /\ returned_log \in [decision : Decision, stop_reason : Threads]
  /\ pc \in [Threads -> Places]
  /\ after \in [Threads -> Places]
  /\ forked \in [Threads -> 0..MaxPid]
  /\ spurious \in 0..MaxSpurious

Init ==
  /\ S!Init
  /\ current_process = {}
  /\ remaining = 1
  /\ running = TRUE
  /\ last_log = NoLog
  /\ returned_log = NoLog
  /\ pc = [t \in Threads |-> IF t = Main THEN "start" ELSE "none"]
  /\ after = [t \in Threads |-> "none"]
  /\ forked = [t \in Threads |-> 0]
  /\ spurious = 0

\* For mutation: the decrement of unbounded integers.
PlainDecrement(n) == n - 1

\* fetch_sub(1) wraps around.
Decrement(n) == (n + Usize - 1) % Usize

\* For mutation: the code between lock() and the guard's drop does not exclude other code.
AlwaysFree == TRUE

\* The mutex of current_process, and the one of the scheduler, by where they are held.
CurrentProcessFree == \A t \in Threads : pc[t] \notin {"parking", "deciding"}
SchedulerFree == \A t \in Threads : pc[t] \notin {"stopped", "deciding"}

Goes(t, place) == pc' = [pc EXCEPT ![t] = place]

-----------------------------------------------------------------------------
(***************************************************************************)
(* Process::suspend.  The condition is tested under the mutex, and wait    *)
(* gives the mutex up and waits in one step.  All that are woken up lock   *)
(* the mutex again and test again.                                         *)
(***************************************************************************)

\* For mutation: the processor stops but a suspended thread does not look.
TestPidOnly(t) == current_process # {t}

MustWait(t) == running /\ current_process # {t}

Suspend(t) ==
  /\ pc[t] = "suspend"
  /\ CurrentProcessFree
  /\ Goes(t, IF MustWait(t) THEN "parking" ELSE "body")
  /\ UNCHANGED <<scheduler, current_process, remaining, running, last_log,
                 returned_log, after, forked, spurious>>

Park(t) ==
  /\ pc[t] = "parking"
  /\ Goes(t, "waiting")
  /\ UNCHANGED <<scheduler, current_process, remaining, running, last_log,
                 returned_log, after, forked, spurious>>

\* For mutation: `if' in place of `while'.
GoesOn(t) == Goes(t, "body")

TestsAgain(t) == Goes(t, "suspend")

\* Condvar::wait may return without a notification.
WakeSpuriously(t) ==
  /\ pc[t] = "waiting"
  /\ spurious < MaxSpurious
  /\ spurious' = spurious + 1
  /\ TestsAgain(t)
  /\ UNCHANGED <<scheduler, current_process, remaining, running, last_log,
                 returned_log, after, forked>>

\* For mutation: notify_one in place of notify_all.
NotifyOne ==
  \E t \in Threads :
    /\ pc[t] = "waiting" \/ \A u \in Threads : pc[u] # "waiting"
    /\ pc' = IF pc[t] = "waiting" THEN [pc EXCEPT ![t] = "suspend"] ELSE pc

NotifyAll ==
  pc' = [t \in Threads |-> IF pc[t] = "waiting" THEN "suspend" ELSE pc[t]]

-----------------------------------------------------------------------------
(***************************************************************************)
(* Processor::scheduler(reason), while the simulation runs: first up to the*)
(* lock of current_process.  The scheduler's mutex is held from here on.   *)
(***************************************************************************)

\* For mutation: get_mut(len) in place of get_mut(len - 1).
LogPastTheEnd(t) == UNCHANGED last_log

LogStop(t) ==
  last_log' = IF last_log = NoLog THEN NoLog ELSE [last_log EXCEPT !.stop_reason = t]

Stops(t, place) ==
  /\ running
  /\ SchedulerFree
  /\ Goes(t, "stopped")
  /\ after' = [after EXCEPT ![t] = place]
  /\ LogStop(t)
  /\ UNCHANGED <<current_process, running, returned_log, spurious>>

\* For mutation: the unit of time of a system call is not taken.
NotCounted == remaining

\* What scheduler() tells the scheduler is left: a system call takes a unit of time.
Reported == Decrement(remaining)

CountCall == remaining' = Reported

\* For mutation: the value that fetch_sub returns, which is the old one.
SomeTimeWasLeft == remaining # 0

TimeIsLeft == Decrement(remaining) # 0

\* exec, with time left.
Exec(t) ==
  /\ pc[t] = "body"
  /\ running
  /\ TimeIsLeft
  /\ remaining' = Decrement(remaining)
  /\ UNCHANGED <<scheduler, current_process, running, last_log, returned_log, pc,
                 after, forked, spurious>>

\* exec, without: remaining is decremented there and once more in scheduler().
Preempted(t) ==
  /\ pc[t] = "body"
  /\ ~ TimeIsLeft
  /\ Stops(t, "suspend")
  /\ S!Expired
  /\ remaining' = Decrement(Decrement(remaining))
  /\ UNCHANGED forked

\* fork, up to the return of scheduler() with the pid of the child.
Fork(t) ==
  /\ pc[t] = "body"
  /\ Stops(t, "spawning")
  /\ S!Fork(Reported)
  /\ CountCall
  /\ forked' = [forked EXCEPT ![t] = highest_pid']

Signal(t) ==
  /\ pc[t] = "body"
  /\ Stops(t, "suspend")
  /\ \E event \in Events : S!Signal(event, Reported)
  /\ CountCall
  /\ UNCHANGED forked

Wait(t) ==
  /\ pc[t] = "body"
  /\ Stops(t, "suspend")
  /\ \E event \in Events : S!Wait(event, Reported)
  /\ CountCall
  /\ UNCHANGED forked

Sleep(t) ==
  /\ pc[t] = "body"
  /\ Stops(t, "suspend")
  /\ \E time \in SleepTimes : S!Sleep(time, Reported)
  /\ CountCall
  /\ UNCHANGED forked

\* What a thread does when its body has returned: only that of PID 1 gets the logs.
WhenExited(t) == IF t = 1 THEN "exited" ELSE "ended"

Exit(t) ==
  /\ pc[t] = "body"
  /\ Stops(t, WhenExited(t))
  /\ S!Exit(Reported)
  /\ CountCall
  /\ UNCHANGED forked

\* The system call of Processor::run, for which no process runs.
Start ==
  /\ pc[Main] = "start"
  /\ Stops(Main, "spawning")
  /\ S!Start
  /\ CountCall
  /\ forked' = [forked EXCEPT ![Main] = highest_pid']

-----------------------------------------------------------------------------
(* Processor::scheduler, from the lock of current_process on. *)

Enter(t) ==
  /\ pc[t] = "stopped"
  /\ CurrentProcessFree
  /\ Goes(t, "deciding")
  /\ current_process' = {}
  /\ UNCHANGED <<scheduler, remaining, running, last_log, returned_log, after,
                 forked, spurious>>

\* For mutation: only the decisions to run are logged.
LogRunsOnly ==
  last_log' = IF decision'.kind = "Run" THEN [decision |-> decision', stop_reason |-> None]
              ELSE last_log

LogDecision == last_log' = [decision |-> decision', stop_reason |-> None]

\* One more round of the loop: next(), and what it decides is logged.
Decides(t) ==
  /\ pc[t] = "deciding"
  /\ running
  /\ current_process = {}
  /\ S!NextDecision
  /\ LogDecision
  /\ UNCHANGED <<returned_log, after, forked, spurious>>

Dispatch(t) ==
  /\ Decides(t)
  /\ decision'.kind = "Run"
  /\ remaining' = decision'.time
  /\ current_process' = {decision'.pid}
  /\ NotifyAll
  /\ UNCHANGED running

Idle(t) ==
  /\ Decides(t)
  /\ decision'.kind = "Sleep"
  /\ UNCHANGED <<current_process, remaining, running, pc>>

\* Processor::stop.
Halt(t) ==
  /\ Decides(t)
  /\ decision'.kind \in Final
  /\ running' = FALSE
  /\ NotifyAll
  /\ UNCHANGED <<current_process, remaining>>

\* The end of the loop; both mutexes are given up.
Leave(t) ==
  /\ pc[t] = "deciding"
  /\ ~ running \/ current_process # {}
  /\ Goes(t, after[t])
  /\ after' = [after EXCEPT ![t] = "none"]
  /\ UNCHANGED <<scheduler, current_process, remaining, running, last_log,
                 returned_log, forked, spurious>>

-----------------------------------------------------------------------------
(* Threads begin and end. *)

(***************************************************************************)
(* The rest of fork and of run.  By now the child may have been made the   *)
(* current process, or another process may be running.                     *)
(***************************************************************************)
Spawn(t) ==
  /\ pc[t] = "spawning"
  /\ pc' = [pc EXCEPT ![forked[t]] = "suspend",
                      ![t] = IF t = Main THEN "joining" ELSE "suspend"]
  /\ forked' = [forked EXCEPT ![t] = 0]
  /\ UNCHANGED <<scheduler, current_process, remaining, running, last_log,
                 returned_log, after, spurious>>

\* get_logs, by the thread of PID 1.
GetLogs(t) ==
  /\ pc[t] = "exited"
  /\ returned_log' = last_log
  /\ last_log' = NoLog
  /\ Goes(t, "ended")
  /\ UNCHANGED <<scheduler, current_process, remaining, running, after, forked, spurious>>

\* join().unwrap(): run ends as the thread of PID 1 did.
Join ==
  /\ pc[Main] = "joining"
  /\ pc[1] \in {"ended", "panicked"}
  /\ Goes(Main, pc[1])
  /\ UNCHANGED <<scheduler, current_process, remaining, running, last_log,
                 returned_log, after, forked, spurious>>

(***************************************************************************)
(* When the simulation has halted, all threads go on with their bodies, at *)
(* the same time: exec does nothing, scheduler() returns NoRunningProcess, *)
(* which is no pid for fork, and suspend returns at once.                  *)
(***************************************************************************)
CallsInVain(t, place) ==
  /\ pc[t] = "body"
  /\ ~ running
  /\ Goes(t, place)
  /\ UNCHANGED <<scheduler, current_process, remaining, running, last_log,
                 returned_log, after, forked, spurious>>

CallInVain(t) == CallsInVain(t, "suspend")
ForkInVain(t) == CallsInVain(t, "panicked")
ExitInVain(t) == CallsInVain(t, WhenExited(t))

-----------------------------------------------------------------------------
\* What a thread does without an instruction of its process.
Step(t) ==
  \/ Suspend(t)
  \/ Park(t)
  \/ Enter(t)
  \/ Dispatch(t)
  \/ Idle(t)
  \/ Halt(t)
  \/ Leave(t)
  \/ Spawn(t)
  \/ GetLogs(t)

MainStep == Start \/ Join

\* The body of a process returns.
Finish(t) == Exit(t) \/ ExitInVain(t)

Instruction(t) ==
  \/ Exec(t)
  \/ Preempted(t)
  \/ Fork(t)
  \/ Signal(t)
  \/ Wait(t)
  \/ Sleep(t)
  \/ Finish(t)
  \/ CallInVain(t)
  \/ ForkInVain(t)

Over(t) == pc[t] \in {"none", "ended", "panicked"}

Terminated == (\A t \in Threads : Over(t)) /\ UNCHANGED vars

Next ==
  \/ MainStep
  \/ \E t \in Threads : Step(t) \/ Instruction(t) \/ WakeSpuriously(t)
  \/ Terminated

Spec == Init /\ [][Next]_vars

(***************************************************************************)
(* A thread that can go on does, and the body of a process is finite: a    *)
(* thread that executes instructions again and again comes to its end.     *)
(***************************************************************************)
FairSpec ==
  /\ Spec
  /\ WF_vars(MainStep)
  /\ \A t \in Threads : WF_vars(Step(t)) /\ SF_vars(Finish(t))
-----------------------------------------------------------------------------
(***************************************************************************)
(* While the simulation runs, at most one thread executes instructions or  *)
(* is inside scheduler(), and the instructions are those of the process the*)
(* scheduler runs: its stop() charges the time to the right process.  The  *)
(* thread of a fork that has yet to spawn its child may run beside it.     *)
(***************************************************************************)
OneThreadRuns ==
  running =>
    /\ \A t \in Threads : pc[t] = "body" => decision.kind = "Run" /\ decision.pid = t
    /\ \A t, u \in Threads :
         pc[t] \in {"start", "stopped", "deciding"} /\ t # u =>
           pc[u] \notin {"body", "stopped", "deciding"}

(***************************************************************************)
(* The processor's count of the time left and the scheduler's never part:  *)
(* at an instruction there is some, and no more than was given, so that no *)
(* decrement that wrapped around is ever read and the scheduler, which     *)
(* subtracts what remains from its own number, never underflows.           *)
(***************************************************************************)
RemainingAgrees ==
  \A t \in Threads : running /\ pc[t] = "body" => remaining \in 1..decision.time

(***************************************************************************)
(* A system call costs the process that makes it time: what is reported to *)
(* be left is less than the scheduler gave when it let the process run,    *)
(* also when the call is the first thing it does.  The schedulers take the *)
(* unit of the call out of the difference, time - 1 on usize.              *)
(***************************************************************************)
CallsTakeTime ==
  [][ decision.kind = "Run" /\ decision'.kind = "Stopped" =>
        \/ \E t \in Threads : Preempted(t)
        \/ remaining' < decision.time ]_vars

(***************************************************************************)
(* No wakeup is lost: nobody waits, or is on its way to wait, for a turn   *)
(* that has come or a simulation that has halted, although running is      *)
(* not protected by the mutex.                                             *)
(***************************************************************************)
NobodySleepsThroughItsTurn ==
  \A t \in Threads :
    pc[t] \in {"parking", "waiting"} => running /\ current_process # {t}

(***************************************************************************)
(* A stop reason is recorded in the log of the decision it answers: when a *)
(* log is pushed, the one before has the stop of the very process it let   *)
(* run, and none if it was a sleep.                                        *)
(***************************************************************************)
EveryStopIsLogged ==
  [][ last_log'.stop_reason = None /\ last_log'.decision.kind # "Start"
        /\ last_log' # last_log =>
          last_log.stop_reason =
            IF last_log.decision.kind = "Run" THEN last_log.decision.pid ELSE None ]_vars

(***************************************************************************)
(* What run returns is the whole simulation: its last log is the decision  *)
(* that ended it, whichever thread made it.                                *)
(***************************************************************************)
LogsAreComplete ==
  pc[Main] = "ended" => returned_log.decision.kind \in Final

(***************************************************************************)
(* All threads end, and run with them: a child that is dispatched before   *)
(* it has a thread, a spurious wakeup, or a halt while others are on their *)
(* way to wait leaves nobody behind.                                       *)
(***************************************************************************)
AllThreadsEnd == <>(\A t \in Threads : Over(t))

-----------------------------------------------------------------------------
(***************************************************************************)
(* scheduler.rs:91, Syscall::Fork: "Create a new process and return its    *)
(* PID."  The processor relies on it, at lib.rs:324-326, also when the     *)
(* simulation has halted, where no system call reaches the scheduler.      *)
(***************************************************************************)
ForkReturnsPid == \A t \in Threads : pc[t] # "panicked"
=============================================================================
