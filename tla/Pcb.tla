-------------------------------- MODULE Pcb --------------------------------
(***************************************************************************)
(* The process control block of scheduler/src/schedulers/pcb.rs, the types *)
(* of scheduler/src/scheduler.rs it is made of, and the passes that all    *)
(* three schedulers make over their waiting list.  The module has no state:*)
(* the schedulers keep sequences of PCBs and use these operators on them.  *)
(*                                                                         *)
(* An Option<T> of the source is the set of its at most one value.  A PCB  *)
(* holds here the fields the control depends on: no decision reads its     *)
(* timings, and `extra' is display text.                                   *)
(***************************************************************************)
EXTENDS Integers, Sequences

(***************************************************************************)
(* ProcessState.  Waiting({e}) waits for event e, Waiting({}) sleeps.      *)
(***************************************************************************)
Ready == [kind |-> "Ready", event |-> {}]
Running == [kind |-> "Running", event |-> {}]
Waiting(event) == [kind |-> "Waiting", event |-> event]

ProcessState == [kind : {"Ready", "Running", "Waiting"}, event : SUBSET Nat]

(***************************************************************************)
(* WakeupCondition.                                                        *)
(***************************************************************************)
NoWakeup == [kind |-> "None", arg |-> 0]
SleepWakeup(time) == [kind |-> "Sleep", arg |-> time]
SignalWakeup(event) == [kind |-> "Signal", arg |-> event]

WakeupCondition == [kind : {"None", "Sleep", "Signal"}, arg : Nat]

Pid == Nat \ {0}

PcbType == [pid : Pid, state : ProcessState, wakeup : WakeupCondition]

-----------------------------------------------------------------------------
(* Operations on one PCB. *)

NewPcb(pid) == [pid |-> pid, state |-> Ready, wakeup |-> NoWakeup]

SetRunning(p) == [p EXCEPT !.state = Running]

\* What set_ready, the end of a sleep and a signal all do to a process.
SetReady(p) == [p EXCEPT !.state = Ready, !.wakeup = NoWakeup]

PutToSleep(p, time) ==
  [p EXCEPT !.state = Waiting({}), !.wakeup = SleepWakeup(time)]

AwaitEvent(p, event) ==
  [p EXCEPT !.state = Waiting({event}), !.wakeup = SignalWakeup(event)]

(***************************************************************************)
(* `time' units pass for a process of the waiting list.  A sleep that has  *)
(* run out (checked_sub fails, or leaves 0) makes it Ready, in place.      *)
(***************************************************************************)
Elapse(p, time) ==
  IF p.wakeup.kind # "Sleep" THEN p
  ELSE IF p.wakeup.arg > time
       THEN [p EXCEPT !.wakeup = SleepWakeup(p.wakeup.arg - time)]
       ELSE SetReady(p)

\* For mutation: the state is changed and the wakeup condition is not.
NotifyState(p, event) ==
  IF p.wakeup = SignalWakeup(event) THEN [p EXCEPT !.state = Ready] ELSE p

\* A signal reaches a process of the waiting list.
Notify(p, event) == IF p.wakeup = SignalWakeup(event) THEN SetReady(p) ELSE p

-----------------------------------------------------------------------------
(* Passes over a list of PCBs. *)

Elapsed(list, time) == [i \in DOMAIN list |-> Elapse(list[i], time)]

\* For mutation: only the process that has waited longest hears the signal.
NotifiedFirst(list, event) ==
  [i \in DOMAIN list |->
     IF \E j \in 1..(i - 1) : list[j].wakeup = SignalWakeup(event)
     THEN list[i] ELSE Notify(list[i], event)]

Notified(list, event) == [i \in DOMAIN list |-> Notify(list[i], event)]

(***************************************************************************)
(* The elements of a list that are in `kept', in their order.  It is the   *)
(* SelectSeq of the standard modules written as a recursive function with  *)
(* a set for the test, so that its properties can be proved (PcbTheorems). *)
(***************************************************************************)
Filter(list, kept) ==
  LET upTo[i \in 0..Len(list)] ==
        IF i = 0 THEN << >>
        ELSE IF list[i] \in kept THEN Append(upTo[i-1], list[i])
             ELSE upTo[i-1]
  IN  upTo[Len(list)]

Elements(list) == {list[i] : i \in DOMAIN list}

\* For mutation: the woken processes are taken out of the list and not kept.
WokenLost(list) == << >>

\* For mutation: the woken processes are copied and not taken out of the list.
WokenToo(list) == list

(***************************************************************************)
(* wakeup_processes: the two halves of the waiting list, the processes that*)
(* have become Ready, to be appended to the ready processes in the order   *)
(* they had in the list, and those that stay.                              *)
(***************************************************************************)
Woken(list) == Filter(list, {p \in Elements(list) : p.state = Ready})

StillWaiting(list) == Filter(list, {p \in Elements(list) : p.state # Ready})

SleepingTimes(list) ==
  {list[i].wakeup.arg : i \in {j \in DOMAIN list : list[j].wakeup.kind = "Sleep"}}

(***************************************************************************)
(* find_sleep_time: the time after which the first sleeper wakes up, if    *)
(* there is a sleeper.                                                     *)
(***************************************************************************)
FindSleepTime(list) ==
  {t \in SleepingTimes(list) : \A u \in SleepingTimes(list) : t <= u}

Pids(list) == {list[i].pid : i \in DOMAIN list}

\* No process is twice in the list.
PidsDiffer(list) ==
  \A i, j \in DOMAIN list : list[i].pid = list[j].pid => i = j
=============================================================================
