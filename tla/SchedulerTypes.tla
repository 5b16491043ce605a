--------------------------- MODULE SchedulerTypes ---------------------------
(***************************************************************************)
(* The decisions of scheduler/src/scheduler.rs, as the processor sees them.*)
(***************************************************************************)
EXTENDS Naturals

(***************************************************************************)
(* SchedulingDecision, and three more values of `decision': Start before   *)
(* the first call, Stopped between a stop() and the next(), and Abort when *)
(* next() has ended the whole program with exit(-1).                       *)
(***************************************************************************)
Outcome(kind) == [kind |-> kind, pid |-> 0, time |-> 0]
RunFor(pid, time) == [kind |-> "Run", pid |-> pid, time |-> time]
SleepFor(time) == [kind |-> "Sleep", pid |-> 0, time |-> time]

Final == {"Done", "Panic", "Deadlock", "Abort"}

Decision == [kind : {"Start", "Stopped", "Run", "Sleep"} \cup Final,
             pid : Nat, time : Nat]

\* NonZeroUsize::new(time), with exit(-1) for its None.
NonZero(time, d) == IF time = 0 THEN Outcome("Abort") ELSE d
=============================================================================
