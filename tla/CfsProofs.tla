------------------------------ MODULE CfsProofs ------------------------------
(***************************************************************************)
(* Theorems about the completely fair scheduler, for every cpu_time and    *)
(* minimum, any events, sleep times and number of processes.  They begin   *)
(* with the order the ready processes are sorted by.  As for the other two *)
(* schedulers the inductive invariant Coherent says which PCBs may be in   *)
(* which place; here the waiting list has, between the calls, none that is *)
(* Ready.  It also says that no two PCBs are of the same process, since the*)
(* sort is in order only then.  The policy and the shares are properties of*)
(* the calls, proved from it one call at a time.                           *)
(***************************************************************************)
EXTENDS Cfs, PcbTheorems, FiniteSetTheorems, FunctionTheorems

-----------------------------------------------------------------------------
(* The order of the ready processes. *)

InOrder(queue) ==
  \A i, j \in DOMAIN queue : i < j => Before(queue[i], queue[j])

\* Before is a strict order, of any two processes.
LEMMA BeforeOrders ==
  ASSUME NEW p \in CfsPcb, NEW q \in CfsPcb, NEW r \in CfsPcb
  PROVE  /\ p.pid # q.pid => Before(p, q) \/ Before(q, p)
         /\ Before(p, q) /\ Before(q, r) => Before(p, r)
         /\ Before(p, q) => ~ Before(q, p)
<1>1. \A s \in {p, q, r} : s.vruntime \in Nat /\ s.pid \in Nat
  BY DEF CfsPcb, Pid
<1> QED
  BY <1>1 DEF Before

\* What is left of a list in order is in order.
LEMMA FilterInOrder ==
  ASSUME NEW S, NEW queue \in Seq(S), NEW kept, InOrder(queue)
  PROVE  InOrder(Filter(queue, kept))
<1> DEFINE out == Filter(queue, kept)
<1>1. PICK at : Picks(at, out, queue, kept, Len(queue))
  BY FilterPicks
<1>2. out \in Seq(S)
  BY FilterPicks
<1> HIDE DEF out
<1>3. DOMAIN queue = 1..Len(queue) /\ DOMAIN out = 1..Len(out)
  BY <1>2
<1>4. ASSUME NEW i \in DOMAIN out, NEW j \in DOMAIN out, i < j
      PROVE  Before(out[i], out[j])
  <2>1. /\ at[i] \in DOMAIN queue /\ at[j] \in DOMAIN queue /\ at[i] < at[j]
        /\ out[i] = queue[at[i]] /\ out[j] = queue[at[j]]
    BY <1>1, <1>3, <1>4 DEF Picks
  <2> QED
    BY <2>1 DEF InOrder
<1> QED
  BY <1>4 DEF InOrder, out

\* Two lists in order are one, if all of the first come before all of the second.
LEMMA ConcatInOrder ==
  ASSUME NEW S, NEW queue \in Seq(S), NEW more \in Seq(S),
         InOrder(queue), InOrder(more),
         \A p \in Elements(queue), q \in Elements(more) : Before(p, q)
  PROVE  InOrder(queue \o more)
<1> DEFINE m == Len(queue)
           n == Len(more)
           both == queue \o more
<1>1. /\ m \in Nat /\ n \in Nat
      /\ DOMAIN queue = 1..m /\ DOMAIN more = 1..n /\ DOMAIN both = 1..(m + n)
  OBVIOUS
<1>2. /\ \A i \in 1..m : both[i] = queue[i]
      /\ \A i \in (m + 1)..(m + n) : both[i] = more[i - m] /\ i - m \in 1..n
  OBVIOUS
<1> HIDE DEF both, m, n
<1>3. ASSUME NEW i \in DOMAIN both, NEW j \in DOMAIN both, i < j
      PROVE  Before(both[i], both[j])
  <2>1. CASE j \in 1..m
    <3>1. i \in 1..m
      BY <1>1, <1>3, <2>1
    <3> QED
      BY <1>1, <1>2, <1>3, <2>1, <3>1 DEF InOrder
  <2>2. CASE i \in (m + 1)..(m + n)
    <3>1. j \in (m + 1)..(m + n) /\ i - m < j - m
      BY <1>1, <1>3, <2>2
    <3>2. /\ both[i] = more[i - m] /\ both[j] = more[j - m]
          /\ i - m \in DOMAIN more /\ j - m \in DOMAIN more
      BY <1>1, <1>2, <2>2, <3>1
    <3> QED
      BY <3>1, <3>2 DEF InOrder
  <2>3. CASE i \in 1..m /\ j \in (m + 1)..(m + n)
    <3>1. /\ both[i] = queue[i] /\ i \in DOMAIN queue
          /\ both[j] = more[j - m] /\ j - m \in DOMAIN more
      BY <1>1, <1>2, <2>3
    <3>2. both[i] \in Elements(queue) /\ both[j] \in Elements(more)
      BY <3>1 DEF Elements
    <3> QED
      BY <3>2
  <2> QED
    BY <1>1, <1>3, <2>1, <2>2, <2>3
<1> QED
  BY <1>3 DEF InOrder, both

\* A process is put in its place.
LEMMA InsertPlaces ==
  ASSUME NEW S, NEW queue \in Seq(S), NEW p \in S
  PROVE  /\ Insert(queue, p) \in Seq(S)
         /\ Elements(Insert(queue, p)) = Elements(queue) \cup {p}
         /\ PidsDiffer(queue) /\ p.pid \notin Pids(queue) => PidsDiffer(Insert(queue, p))
         /\ S \subseteq CfsPcb /\ InOrder(queue) /\ p.pid \notin Pids(queue)
              => InOrder(Insert(queue, p))
<1> DEFINE Earlier == {q \in Elements(queue) : ~ Before(p, q)}
           Later == {q \in Elements(queue) : Before(p, q)}
           front == Filter(queue, Earlier)
           back == Filter(queue, Later)
           single == <<p>>
           upTo == front \o single
<1>1. /\ front \in Seq(S) /\ back \in Seq(S)
      /\ Elements(front) = Elements(queue) \cap Earlier
      /\ Elements(back) = Elements(queue) \cap Later
  BY FilterPicks, FilterElements
<1>2. Insert(queue, p) = upTo \o back
  BY DEF Insert
<1>3. /\ Elements(queue) \subseteq S
      /\ single \in Seq(S) /\ Elements(single) = {p}
      /\ Pids(single) = {p.pid} /\ PidsDiffer(single) /\ InOrder(single)
  BY ElementsType DEF Elements, Pids, PidsDiffer, InOrder
<1>4. PidsDiffer(queue) => PidsDiffer(front) /\ PidsDiffer(back)
  BY FilterPids
<1>5. InOrder(queue) => InOrder(front) /\ InOrder(back)
  BY FilterInOrder
<1>6. /\ Elements(queue) = Elements(front) \cup Elements(back)
      /\ Elements(front) \cap Elements(back) = {}
      /\ \A q \in Elements(front) : ~ Before(p, q)
      /\ \A q \in Elements(back) : Before(p, q)
  BY <1>1
<1> HIDE DEF front, back, single
<1>7. upTo \in Seq(S) /\ Elements(upTo) = Elements(front) \cup {p}
  <2>1. upTo \in Seq(S)
    BY <1>1, <1>3
  <2>2. Elements(upTo) = Elements(front) \cup Elements(single)
    BY <1>1, <1>3, ElementsConcat
  <2> QED
    BY <1>3, <2>1, <2>2
<1>8. upTo \o back \in Seq(S) /\ Elements(upTo \o back) = Elements(upTo) \cup Elements(back)
  <2> HIDE DEF upTo
  <2>1. upTo \o back \in Seq(S)
    BY <1>1, <1>7
  <2> QED
    BY <1>1, <1>7, <2>1, ElementsConcat
<1>9. ASSUME PidsDiffer(queue), p.pid \notin Pids(queue)
      PROVE  PidsDiffer(upTo \o back)
  <2>1. \A q, r \in Elements(queue) : q.pid = r.pid => q = r
    BY <1>9 DEF PidsDiffer, Elements
  <2>2. \A q \in Elements(queue) : q.pid # p.pid
    BY <1>9, ElementsPids
  <2>3. Pids(front) \cap Pids(single) = {}
    BY <1>3, <1>6, <2>2, ElementsPids
  <2>4. PidsDiffer(upTo)
    BY <1>1, <1>3, <1>4, <1>9, <2>3, ConcatPids
  <2>5. Pids(upTo) \cap Pids(back) = {}
    BY <1>6, <1>7, <2>1, <2>2, ElementsPids
  <2> HIDE DEF upTo
  <2> QED
    BY <1>1, <1>4, <1>7, <1>9, <2>4, <2>5, ConcatPids
<1>10. ASSUME S \subseteq CfsPcb, InOrder(queue), p.pid \notin Pids(queue)
       PROVE  InOrder(upTo \o back)
  <2>1. \A q \in Elements(queue) : q \in CfsPcb /\ q.pid # p.pid
    BY <1>3, <1>10, ElementsPids
  <2>2. p \in CfsPcb
    BY <1>10
  <2>3. \A q \in Elements(front) : Before(q, p)
    BY <1>6, <2>1, <2>2, BeforeOrders
  <2>4. InOrder(upTo)
    BY <1>1, <1>3, <1>5, <1>10, <2>3, ConcatInOrder
  <2>5. \A q \in Elements(upTo), r \in Elements(back) : Before(q, r)
    BY <1>6, <1>7, <2>1, <2>2, <2>3, BeforeOrders
  <2> HIDE DEF upTo
  <2> QED
    BY <1>1, <1>5, <1>7, <1>10, <2>4, <2>5, ConcatInOrder
<1> QED
  BY <1>2, <1>6, <1>7, <1>8, <1>9, <1>10

-----------------------------------------------------------------------------
(* Sorted, as Filter in PcbTheorems: the recursion has a solution, and what *)
(* is true of every step of it is true of the result.                       *)

IsSortUpTo(f, list, n) ==
  /\ f = [i \in 0..n |-> f[i]]
  /\ f[0] = << >>
  /\ \A i \in 1..n : f[i] = Insert(f[i-1], list[i])

\* There is a function as Sorted defines it, by induction on the places of the list.
LEMMA SortFunctionExists ==
  ASSUME NEW list, NEW n \in Nat
  PROVE  \E f : IsSortUpTo(f, list, n)
<1> DEFINE T == {m \in Nat : \E f : IsSortUpTo(f, list, m)}
<1>1. 0 \in T
  <2>1. IsSortUpTo([i \in 0..0 |-> << >>], list, 0)
    BY DEF IsSortUpTo
  <2> QED
    BY <2>1
<1>2. ASSUME NEW m \in 0..(n - 1), m \in T
      PROVE  m + 1 \in T
  <2>1. PICK f : IsSortUpTo(f, list, m)
    BY <1>2
  <2> DEFINE g == [i \in 0..(m + 1) |-> IF i <= m THEN f[i] ELSE Insert(f[m], list[m+1])]
  <2>2. g[0] = << >>
    BY <2>1 DEF IsSortUpTo
  <2>3. ASSUME NEW i \in 1..(m + 1) PROVE g[i] = Insert(g[i-1], list[i])
    <3>1. CASE i = m + 1
      <4>1. g[i] = Insert(f[m], list[m+1]) /\ g[i-1] = f[m]
        BY <3>1
      <4> QED
        BY <3>1, <4>1
    <3>2. CASE i \in 1..m
      <4>1. g[i] = f[i] /\ g[i-1] = f[i-1]
        BY <3>2
      <4>2. f[i] = Insert(f[i-1], list[i])
        BY <2>1, <3>2 DEF IsSortUpTo
      <4> QED
        BY <4>1, <4>2
    <3> QED
      BY <3>1, <3>2
  <2>4. g = [i \in 0..(m + 1) |-> g[i]]
    OBVIOUS
  <2> HIDE DEF g
  <2>5. IsSortUpTo(g, list, m + 1)
    BY <2>2, <2>3, <2>4 DEF IsSortUpTo
  <2> QED
    BY <2>5
<1>3. 0..n \subseteq T
  <2> HIDE DEF T
  <2> QED BY <1>1, <1>2, InductionUpTo
<1> QED
  BY <1>3

\* Sorted is what that function gives for the whole list.
LEMMA SortDefinition ==
  ASSUME NEW list, Len(list) \in Nat
  PROVE  \E f : IsSortUpTo(f, list, Len(list)) /\ Sorted(list) = f[Len(list)]
<1> DEFINE n == Len(list)
           Step(g) == [i \in 0..n |-> IF i = 0 THEN << >> ELSE Insert(g[i-1], list[i])]
           f == CHOOSE g : g = Step(g)
<1>1. PICK h : IsSortUpTo(h, list, n)
  BY SortFunctionExists
<1>2. h = Step(h)
  <2>1. ASSUME NEW i \in 0..n PROVE h[i] = Step(h)[i]
    <3>1. CASE i = 0
      BY <1>1, <3>1 DEF IsSortUpTo
    <3>2. CASE i \in 1..n
      <4>1. h[i] = Insert(h[i-1], list[i])
        BY <1>1, <3>2 DEF IsSortUpTo
      <4> QED
        BY <3>2, <4>1
    <3> QED
      BY <3>1, <3>2
  <2> QED
    BY <1>1, <2>1 DEF IsSortUpTo
<1>3. f = Step(f)
  BY <1>2
<1>4. Sorted(list) = f[n]
  BY DEF Sorted
<1> HIDE DEF f
<1>5. f[0] = << >>
  BY <1>3
<1>6. ASSUME NEW i \in 1..n PROVE f[i] = Insert(f[i-1], list[i])
  <2>1. i \in 0..n /\ i # 0
    OBVIOUS
  <2>2. f[i] = Step(f)[i]
    BY <1>3
  <2> QED
    BY <2>1, <2>2
<1>7. f = [i \in 0..n |-> f[i]]
  BY <1>3
<1>8. IsSortUpTo(f, list, n)
  BY <1>5, <1>6, <1>7 DEF IsSortUpTo
<1> QED
  BY <1>4, <1>8

\* What the sort has made of the first i of the list.
SortedSoFar(S, list, i, out) ==
  /\ out \in Seq(S)
  /\ Elements(out) = {list[j] : j \in 1..i}
  /\ PidsDiffer(list) => PidsDiffer(out)
  /\ S \subseteq CfsPcb /\ PidsDiffer(list) => InOrder(out)

(***************************************************************************)
(* sort() loses and invents no process, and leaves the ready processes in  *)
(* order.                                                                  *)
(***************************************************************************)
THEOREM SortedInOrder ==
  ASSUME NEW S, NEW list \in Seq(S)
  PROVE  /\ Sorted(list) \in Seq(S)
         /\ Elements(Sorted(list)) = Elements(list)
         /\ PidsDiffer(list) => PidsDiffer(Sorted(list))
         /\ S \subseteq CfsPcb /\ PidsDiffer(list) => InOrder(Sorted(list))
<1> DEFINE n == Len(list)
<1>1. n \in Nat /\ DOMAIN list = 1..n
  OBVIOUS
<1>2. PICK f : IsSortUpTo(f, list, n) /\ Sorted(list) = f[n]
  BY <1>1, SortDefinition
<1> DEFINE T == {i \in Nat : SortedSoFar(S, list, i, f[i])}
<1>3. 0 \in T
  <2>1. f[0] = << >>
    BY <1>2 DEF IsSortUpTo
  <2>2. SortedSoFar(S, list, 0, << >>)
    BY DEF SortedSoFar, Elements, PidsDiffer, InOrder
  <2> QED
    BY <2>1, <2>2
<1>4. ASSUME NEW i \in 0..(n - 1), i \in T PROVE i + 1 \in T
  <2>1. i \in Nat /\ i + 1 \in 1..n /\ (i + 1) - 1 = i
    BY <1>1
  <2>2. f[i+1] = Insert(f[i], list[i+1])
    BY <1>2, <2>1 DEF IsSortUpTo
  <2>3. list[i+1] \in S
    BY <2>1
  <2>4. SortedSoFar(S, list, i, f[i])
    BY <1>4
  <2>5. Elements(f[i]) \cup {list[i+1]} = {list[j] : j \in 1..(i + 1)}
    <3>1. 1..(i + 1) = 1..i \cup {i + 1}
      BY <2>1
    <3> QED
      BY <2>4, <3>1 DEF SortedSoFar
  <2>6. ASSUME PidsDiffer(list) PROVE list[i+1].pid \notin Pids(f[i])
    <3>1. \A j \in 1..i : j \in DOMAIN list /\ j # i + 1
      BY <1>1, <2>1
    <3>2. \A j \in 1..i : list[j].pid # list[i+1].pid
      BY <1>1, <2>1, <2>6, <3>1 DEF PidsDiffer
    <3> QED
      BY <2>4, <3>2, ElementsPids DEF SortedSoFar
  <2> HIDE DEF n
  <2> DEFINE out == f[i]
             p == list[i+1]
  <2>7. out \in Seq(S) /\ p \in S
    BY <2>3, <2>4 DEF SortedSoFar
  <2> HIDE DEF out, p
  <2>8. /\ Insert(out, p) \in Seq(S)
        /\ Elements(Insert(out, p)) = Elements(out) \cup {p}
        /\ PidsDiffer(out) /\ p.pid \notin Pids(out) => PidsDiffer(Insert(out, p))
        /\ S \subseteq CfsPcb /\ InOrder(out) /\ p.pid \notin Pids(out)
             => InOrder(Insert(out, p))
    BY <2>7, InsertPlaces
  <2>9. SortedSoFar(S, list, i + 1, Insert(out, p))
    BY <2>4, <2>5, <2>6, <2>8 DEF SortedSoFar, out, p
  <2> QED
    BY <2>1, <2>2, <2>9 DEF out, p
<1>5. n \in T
  <2>1. 0..n \subseteq T
    <3> HIDE DEF T, n
    <3> QED BY <1>1, <1>3, <1>4, InductionUpTo
  <2> QED
    BY <1>1, <2>1
<1>6. Elements(list) = {list[j] : j \in 1..n}
  BY <1>1 DEF Elements
<1> QED
  BY <1>2, <1>5, <1>6 DEF SortedSoFar

-----------------------------------------------------------------------------
(* The inductive invariant. *)

Parked(p) == p.state = Ready /\ p.wakeup = NoWakeup

RunningPcbs == {p \in CfsPcb : p.state = Running /\ p.wakeup = NoWakeup}
ReadyPcbs == {p \in CfsPcb : Parked(p)}
WaitingPcbs == {p \in CfsPcb : Waits(p)}

\* Those of the waiting list within a call, when time has passed for them.
PassedPcbs == {p \in CfsPcb : Parked(p) \/ Waits(p)}

DecisionMatchesState ==
  /\ decision.kind = "Run" =>
       \E p \in running_process : decision = RunFor(p.pid, remaining_time)
  /\ decision.kind = "Sleep" => decision = SleepFor(sleep_time)
  /\ sleep_time # 0 => decision.kind = "Sleep"

Nothing ==
  /\ running_process = {}
  /\ ready_processes = << >>
  /\ waiting_processes = << >>
  /\ highest_pid = 0

\* The lists, with the processes R on the processor: each in its place, once.
Placed(R, q, w, h) ==
  /\ R \in SUBSET RunningPcbs
  /\ \A p, r \in R : p = r
  /\ q \in Seq(ReadyPcbs)
  /\ w \in Seq(WaitingPcbs)
  /\ Apart({p.pid : p \in R}, q, w, h)

\* The lists while p, which has called, is in neither.
Calls(p, q, w, h) ==
  /\ p \in CfsPcb
  /\ p.wakeup = NoWakeup
  /\ q \in Seq(ReadyPcbs)
  /\ w \in Seq(WaitingPcbs)
  /\ Apart({p.pid}, q, w, h)

Coherent ==
  /\ Placed(running_process, ready_processes, waiting_processes, highest_pid)
  /\ stopped_process = {}
  /\ remaining_time \in 0..Longest
  /\ highest_pid \in 0..MaxPid
  /\ sleep_time \in Nat
  /\ decision \in Decision
  /\ decision.kind = "Start" => Nothing
  /\ DecisionMatchesState

-----------------------------------------------------------------------------
(* The PCBs. *)

\* The states and the wakeup conditions are told apart by their kinds.
LEMMA Kinds ==
  /\ Ready.kind = "Ready" /\ Running.kind = "Running"
  /\ \A event : Waiting(event).kind = "Waiting"
  /\ NoWakeup.kind = "None"
  /\ \A event : SignalWakeup(event).kind = "Signal"
BY DEF Ready, Running, Waiting, NoWakeup, SignalWakeup

\* What the operations make of a process, and that it stays the same process.
LEMMA PcbOperations ==
  ASSUME NEW p \in CfsPcb
  PROVE  /\ SetReady(p) \in ReadyPcbs /\ SetReady(p).pid = p.pid
         /\ p.wakeup = NoWakeup =>
              SetRunning(p) \in RunningPcbs /\ SetRunning(p).pid = p.pid
         /\ \A time \in Nat :
              /\ PutToSleep(p, time) \in WaitingPcbs /\ PutToSleep(p, time).pid = p.pid
              /\ Charge(p, time) \in CfsPcb /\ Charge(p, time).pid = p.pid
              /\ Charge(p, time).wakeup = p.wakeup /\ Charge(p, time).state = p.state
              /\ Charge(p, time).vruntime = p.vruntime + time
         /\ \A event \in Events :
              AwaitEvent(p, event) \in WaitingPcbs /\ AwaitEvent(p, event).pid = p.pid
<1>1. SetReady(p) \in ReadyPcbs /\ SetReady(p).pid = p.pid
  BY DEF SetReady, ReadyPcbs, Parked, CfsPcb, Ready, NoWakeup, ProcessState, WakeupCondition
<1>2. ASSUME p.wakeup = NoWakeup
      PROVE  SetRunning(p) \in RunningPcbs /\ SetRunning(p).pid = p.pid
  BY <1>2 DEF SetRunning, RunningPcbs, CfsPcb, Running, ProcessState
<1>3. ASSUME NEW time \in Nat
      PROVE  /\ PutToSleep(p, time) \in WaitingPcbs /\ PutToSleep(p, time).pid = p.pid
             /\ Charge(p, time) \in CfsPcb /\ Charge(p, time).pid = p.pid
             /\ Charge(p, time).wakeup = p.wakeup /\ Charge(p, time).state = p.state
             /\ Charge(p, time).vruntime = p.vruntime + time
  <2>1. PutToSleep(p, time) \in WaitingPcbs /\ PutToSleep(p, time).pid = p.pid
    BY DEF PutToSleep, WaitingPcbs, Waits, CfsPcb, Waiting, SleepWakeup, ProcessState,
           WakeupCondition
  <2>2. p.vruntime + time \in Nat
    BY DEF CfsPcb
  <2> QED
    BY <2>1, <2>2 DEF Charge, CfsPcb
<1>4. ASSUME NEW event \in Events
      PROVE  AwaitEvent(p, event) \in WaitingPcbs /\ AwaitEvent(p, event).pid = p.pid
  <2>1. event \in Nat
    BY CfsAssumption
  <2> QED
    BY <2>1 DEF AwaitEvent, WaitingPcbs, Waits, CfsPcb, Waiting, SignalWakeup,
                ProcessState, WakeupCondition
<1> QED
  BY <1>1, <1>2, <1>3, <1>4

\* A process is charged for the time before the call in which it blocks.
LEMMA ChargeWaiting ==
  ASSUME NEW p \in WaitingPcbs, NEW time \in Nat
  PROVE  Charge(p, time) \in WaitingPcbs /\ Charge(p, time).pid = p.pid
BY PcbOperations DEF WaitingPcbs, Waits

\* A new process is one that may be in the ready list.
LEMMA NewPcbReady ==
  ASSUME NEW pid \in Pid, NEW vruntime \in Nat
  PROVE  /\ NewCfsPcb(pid, vruntime) \in ReadyPcbs /\ NewCfsPcb(pid, vruntime).pid = pid
         /\ NewCfsPcb(pid, vruntime).vruntime = vruntime
BY DEF NewCfsPcb, ReadyPcbs, Parked, CfsPcb, Ready, NoWakeup, ProcessState, WakeupCondition

\* Time passes for a process of the waiting list; a signal reaches it.
LEMMA ElapseWaiting ==
  ASSUME NEW p \in WaitingPcbs, NEW time \in Nat
  PROVE  /\ Elapse(p, time) \in PassedPcbs /\ Elapse(p, time).pid = p.pid
         /\ Elapse(p, time).vruntime = p.vruntime
<1>1. p \in CfsPcb /\ Waits(p)
  BY DEF WaitingPcbs
<1>2. CASE p.wakeup.kind # "Sleep"
  BY <1>1, <1>2 DEF Elapse, PassedPcbs
<1>3. CASE p.wakeup.kind = "Sleep" /\ p.wakeup.arg > time
  <2>1. p.state = Waiting({})
    BY <1>1, <1>3, Kinds DEF Waits
  <2>2. p.wakeup.arg - time \in Nat
    BY <1>1, <1>3 DEF CfsPcb, WakeupCondition
  <2> QED
    BY <1>1, <1>3, <2>1, <2>2
       DEF Elapse, PassedPcbs, Waits, CfsPcb, SleepWakeup, WakeupCondition
<1>4. CASE p.wakeup.kind = "Sleep" /\ ~(p.wakeup.arg > time)
  <2>1. SetReady(p) \in PassedPcbs /\ SetReady(p).pid = p.pid
    BY <1>1, PcbOperations DEF ReadyPcbs, PassedPcbs
  <2>2. SetReady(p).vruntime = p.vruntime
    BY <1>1 DEF SetReady, CfsPcb
  <2> QED
    BY <1>4, <2>1, <2>2 DEF Elapse
<1> QED
  BY <1>2, <1>3, <1>4

\* A signal makes of a process one that may be in the waiting list during a call.
LEMMA NotifyWaiting ==
  ASSUME NEW p \in PassedPcbs, NEW event
  PROVE  /\ Notify(p, event) \in PassedPcbs /\ Notify(p, event).pid = p.pid
         /\ Notify(p, event).vruntime = p.vruntime
<1>1. p \in CfsPcb
  BY DEF PassedPcbs
<1>2. SetReady(p) \in PassedPcbs /\ SetReady(p).pid = p.pid
  BY <1>1, PcbOperations DEF ReadyPcbs, PassedPcbs
<1>3. SetReady(p).vruntime = p.vruntime
  BY <1>1 DEF SetReady, CfsPcb
<1> QED
  BY <1>2, <1>3 DEF Notify

-----------------------------------------------------------------------------
(* The lists. *)

\* The same of the whole waiting list, when time passes and when a signal is sent.
LEMMA ElapsedWaiting ==
  ASSUME NEW list \in Seq(WaitingPcbs), NEW time \in Nat
  PROVE  /\ Elapsed(list, time) \in Seq(PassedPcbs)
         /\ Pids(Elapsed(list, time)) = Pids(list)
         /\ PidsDiffer(list) => PidsDiffer(Elapsed(list, time))
<1>1. \A i \in DOMAIN list : /\ Elapsed(list, time)[i] \in PassedPcbs
                             /\ Elapsed(list, time)[i].pid = list[i].pid
  BY ElapseWaiting DEF Elapsed
<1>2. Elapsed(list, time) = [i \in DOMAIN list |-> Elapsed(list, time)[i]]
  BY DEF Elapsed
<1> QED
  BY <1>1, <1>2, MappedType, MappedPids

LEMMA NotifiedWaiting ==
  ASSUME NEW list \in Seq(PassedPcbs), NEW event
  PROVE  /\ Notified(list, event) \in Seq(PassedPcbs)
         /\ Pids(Notified(list, event)) = Pids(list)
         /\ PidsDiffer(list) => PidsDiffer(Notified(list, event))
<1>1. \A i \in DOMAIN list : /\ Notified(list, event)[i] \in PassedPcbs
                             /\ Notified(list, event)[i].pid = list[i].pid
  BY NotifyWaiting DEF Notified
<1>2. Notified(list, event) = [i \in DOMAIN list |-> Notified(list, event)[i]]
  BY DEF Notified
<1> QED
  BY <1>1, <1>2, MappedType, MappedPids

\* wakeup_processes leaves only those that wait.
LEMMA WakeupWaiting ==
  ASSUME NEW list \in Seq(PassedPcbs)
  PROVE  /\ Woken(list) \in Seq(ReadyPcbs)
         /\ StillWaiting(list) \in Seq(WaitingPcbs)
<1>1. {p \in PassedPcbs : p.state = Ready} \subseteq ReadyPcbs
  BY Kinds DEF PassedPcbs, ReadyPcbs, Waits
<1>2. {p \in PassedPcbs : p.state # Ready} \subseteq WaitingPcbs
  BY DEF PassedPcbs, WaitingPcbs, Parked
<1> QED
  BY <1>1, <1>2, WakeupType, SeqMonotonic

\* Processes are woken in a call.
LEMMA WakeupStep ==
  ASSUME NEW R, NEW q \in Seq(ReadyPcbs), NEW list \in Seq(PassedPcbs), NEW h,
         Apart(R, q, list, h)
  PROVE  /\ q \o Woken(list) \in Seq(ReadyPcbs)
         /\ StillWaiting(list) \in Seq(WaitingPcbs)
         /\ Apart(R, q \o Woken(list), StillWaiting(list), h)
<1>1. q \o Woken(list) \in Seq(ReadyPcbs) /\ StillWaiting(list) \in Seq(WaitingPcbs)
  BY WakeupWaiting, ConcatProperties
<1>2. ReadyPcbs \subseteq PassedPcbs
  BY DEF ReadyPcbs, PassedPcbs
<1>3. q \in Seq(PassedPcbs)
  BY <1>2, SeqMonotonic
<1> QED
  BY <1>1, <1>3, ApartWakeup

\* Nobody is in another place for that.
LEMMA ApartElapsed ==
  ASSUME NEW R, NEW q, NEW w \in Seq(WaitingPcbs), NEW h, NEW time \in Nat, Apart(R, q, w, h)
  PROVE  Elapsed(w, time) \in Seq(PassedPcbs) /\ Apart(R, q, Elapsed(w, time), h)
BY ElapsedWaiting DEF Apart

LEMMA ApartNotified ==
  ASSUME NEW R, NEW q, NEW w \in Seq(PassedPcbs), NEW h, NEW event, Apart(R, q, w, h)
  PROVE  Notified(w, event) \in Seq(PassedPcbs) /\ Apart(R, q, Notified(w, event), h)
BY NotifiedWaiting DEF Apart

\* The ready processes are sorted.
LEMMA ApartSorted ==
  ASSUME NEW S, NEW R, NEW q \in Seq(S), NEW w, NEW h, Apart(R, q, w, h)
  PROVE  Apart(R, Sorted(q), w, h)
<1>1. Pids(Sorted(q)) = Pids(q)
  BY SortedInOrder, ElementsPids
<1>2. PidsDiffer(Sorted(q))
  BY SortedInOrder DEF Apart
<1> QED
  BY <1>1, <1>2 DEF Apart

\* The time of the next sleep is a number.
LEMMA SleepTimeIsNat ==
  ASSUME NEW list \in Seq(WaitingPcbs)
  PROVE  FindSleepTime(list) \subseteq Nat
BY DEF FindSleepTime, SleepingTimes, WaitingPcbs, CfsPcb, WakeupCondition

-----------------------------------------------------------------------------
(* The share of a process, and the least vruntime. *)

(***************************************************************************)
(* compute_timeslice, for any number of processes: a share that is fair or *)
(* the minimum, and no timeslice below the minimum or below the share.     *)
(***************************************************************************)
THEOREM TimesliceShare ==
  ASSUME NEW size \in Nat \ {0}
  PROVE  /\ ComputeTimeslice(size) \in 0..Longest
         /\ ComputeTimeslice(size) >= MinimumRemainingTimeslice
         /\ \/ ComputeTimeslice(size) = MinimumRemainingTimeslice
            \/ ComputeTimeslice(size) * size <= CpuTime
         /\ MinimumRemainingTimeslice # 0 => (ComputeTimeslice(size) + 1) * size > CpuTime
<1> DEFINE share == CpuTime \div size
           minimum == MinimumRemainingTimeslice
<1>1. CpuTime \in Nat /\ minimum \in Nat
  BY CfsAssumption
<1>2. share \in Nat /\ share <= CpuTime /\ size * share <= CpuTime
  BY <1>1
<1>3. share * size <= CpuTime
  BY <1>1, <1>2
<1>4. Longest \in Nat /\ CpuTime <= Longest /\ minimum <= Longest
  BY <1>1 DEF Longest
<1>5. minimum # 0 /\ CpuTime \div minimum >= size => share >= minimum
  BY <1>1
<1>6. (share + 1) * size > CpuTime
  <2>1. CpuTime < size * share + size
    BY <1>1
  <2>2. (share + 1) * size = size * share + size
    BY <1>2
  <2> HIDE DEF share
  <2> QED
    BY <1>1, <1>2, <2>1, <2>2
<1>7. minimum # 0 /\ CpuTime \div minimum < size => (minimum + 1) * size > CpuTime
  <2> SUFFICES ASSUME minimum # 0, CpuTime \div minimum < size
               PROVE  (minimum + 1) * size > CpuTime
    OBVIOUS
  <2> DEFINE times == CpuTime \div minimum
  <2>1. times \in Nat /\ CpuTime < minimum * times + minimum
    BY <1>1
  <2>2. times + 1 <= size
    BY <2>1
  <2> HIDE DEF times
  <2>3. minimum * (times + 1) <= minimum * size
    BY <1>1, <2>1, <2>2
  <2>4. minimum * (times + 1) = minimum * times + minimum
    BY <1>1, <2>1
  <2>5. (minimum + 1) * size = minimum * size + size /\ minimum * size \in Nat
    BY <1>1
  <2> QED
    BY <1>1, <2>1, <2>3, <2>4, <2>5
<1>8. \/ /\ minimum # 0 /\ CpuTime \div minimum >= size
         /\ ComputeTimeslice(size) = share
      \/ /\ minimum # 0 /\ ~ (CpuTime \div minimum >= size)
         /\ ComputeTimeslice(size) = minimum
      \/ minimum = 0 /\ ComputeTimeslice(size) = minimum
  BY DEF ComputeTimeslice
<1>9. minimum # 0 /\ ~ (CpuTime \div minimum >= size) => (minimum + 1) * size > CpuTime
  BY <1>1, <1>7
<1> HIDE DEF share, minimum
<1> QED
  BY <1>1, <1>2, <1>3, <1>4, <1>5, <1>6, <1>8, <1>9 DEF minimum

\* min_vruntime is the vruntime of one of the processes, and of none is it less.
LEMMA MinVruntimeLeast ==
  ASSUME NEW processes \in SUBSET CfsPcb
  PROVE  /\ MinVruntime(processes) \in Nat
         /\ processes # {} =>
              /\ \E p \in processes : p.vruntime = MinVruntime(processes)
              /\ \A p \in processes : MinVruntime(processes) <= p.vruntime
<1> DEFINE V == {p.vruntime : p \in processes}
<1>1. CASE processes = {}
  BY <1>1 DEF MinVruntime
<1>2. CASE processes # {}
  <2>1. V \subseteq Nat /\ V # {}
    BY <1>2 DEF CfsPcb
  <2>2. PICK v \in V : \A u \in V : v <= u
    <3> HIDE DEF V
    <3> QED
      BY <2>1, LeastElement
  <2>3. \A p \in processes : v <= p.vruntime
    BY <2>2
  <2>4. MinVruntime(processes) = CHOOSE u \in V : \A p \in processes : u <= p.vruntime
    BY <1>2 DEF MinVruntime
  <2>5. MinVruntime(processes) \in V /\ \A p \in processes : MinVruntime(processes) <= p.vruntime
    BY <2>3, <2>4
  <2> QED
    BY <2>1, <2>5
<1> QED
  BY <1>1, <1>2

\* A system call leaves some of the time, so that time has passed.
LEMMA RemainingStep ==
  ASSUME remaining_time \in 0..Longest, NEW remaining \in Remaining
  PROVE  /\ remaining \in 0..Longest /\ remaining < remaining_time
         /\ remaining_time - remaining \in Nat
<1>1. Longest \in Nat
  BY CfsAssumption DEF Longest
<1> QED
  BY <1>1 DEF Remaining

\* size(), when one process runs or none, and none is stopped.
LEMMA SizeOfAll ==
  ASSUME NEW S, NEW queue \in Seq(S), NEW p
  PROVE  /\ Size(queue, {p}, {}) = Len(queue) + 1
         /\ Size(queue, {p}, {}) \in Nat \ {0}
         /\ Size(queue, {}, {}) = Len(queue)
<1>1. Len(queue) \in Nat /\ HowMany({p}) = 1 /\ HowMany({}) = 0
  BY DEF HowMany
<1> QED
  BY <1>1 DEF Size

\* The process that goes on has no more time than it had left.
LEMMA RestIsShorter ==
  ASSUME NEW size \in Nat \ {0}, NEW remaining \in 0..Longest
  PROVE  /\ RestOfTimeslice(size, remaining) \in 0..Longest
         /\ RestOfTimeslice(size, remaining) <= remaining
         /\ LongEnough(remaining) =>
              RestOfTimeslice(size, remaining) >= MinimumRemainingTimeslice
<1> DEFINE share == ComputeTimeslice(size)
<1>1. Longest \in Nat /\ MinimumRemainingTimeslice \in Nat
  BY CfsAssumption DEF Longest
<1>2. share \in 0..Longest /\ share >= MinimumRemainingTimeslice
  BY TimesliceShare
<1> HIDE DEF share
<1>3. RestOfTimeslice(size, remaining) = Smaller(share, remaining)
  BY DEF RestOfTimeslice, share
<1> QED
  BY <1>1, <1>2, <1>3 DEF Smaller, LongEnough

-----------------------------------------------------------------------------
(* The pieces the calls are made of. *)

\* What every stop of a running process starts from.
LEMMA RunningStep ==
  ASSUME Coherent, decision.kind = "Run", NEW p \in running_process
  PROVE  /\ p \in CfsPcb /\ p.wakeup = NoWakeup
         /\ running_process = {p}
         /\ sleep_time = 0
         /\ remaining_time \in 0..Longest /\ remaining_time \in Nat
         /\ decision = RunFor(p.pid, remaining_time)
         /\ Calls(p, ready_processes, waiting_processes, highest_pid)
<1>1. /\ p \in RunningPcbs /\ running_process = {p}
      /\ ready_processes \in Seq(ReadyPcbs) /\ waiting_processes \in Seq(WaitingPcbs)
      /\ Apart({r.pid : r \in running_process}, ready_processes, waiting_processes, highest_pid)
  BY DEF Coherent, Placed
<1>2. {r.pid : r \in running_process} = {p.pid}
  BY <1>1
<1>3. sleep_time = 0 /\ decision = RunFor(p.pid, remaining_time)
  BY <1>1 DEF Coherent, DecisionMatchesState
<1>4. remaining_time \in 0..Longest /\ remaining_time \in Nat
  BY CfsAssumption DEF Coherent, Longest
<1> QED
  BY <1>1, <1>2, <1>3, <1>4 DEF RunningPcbs, Calls

\* Time has passed for the process that calls and for those that wait.
LEMMA TimePasses ==
  ASSUME NEW p, NEW q, NEW w, NEW h, Calls(p, q, w, h), NEW time \in Nat
  PROVE  /\ Calls(Charge(p, time), q \o Woken(Elapsed(w, time)),
                  StillWaiting(Elapsed(w, time)), h)
         /\ Elapsed(w, time) \in Seq(PassedPcbs)
         /\ Charge(p, time).pid = p.pid
<1> DEFINE passed == Elapsed(w, time)
<1>1. passed \in Seq(PassedPcbs) /\ Apart({p.pid}, q, passed, h)
  BY ApartElapsed DEF Calls
<1>2. /\ Charge(p, time) \in CfsPcb /\ Charge(p, time).pid = p.pid
      /\ Charge(p, time).wakeup = NoWakeup
  BY PcbOperations DEF Calls
<1> HIDE DEF passed
<1>3. /\ q \o Woken(passed) \in Seq(ReadyPcbs) /\ StillWaiting(passed) \in Seq(WaitingPcbs)
      /\ Apart({p.pid}, q \o Woken(passed), StillWaiting(passed), h)
  BY <1>1, WakeupStep DEF Calls
<1> QED
  BY <1>1, <1>2, <1>3 DEF Calls, passed

\* The same, if then a signal is sent.
LEMMA SignalPasses ==
  ASSUME NEW p, NEW q, NEW w, NEW h, Calls(p, q, w, h), NEW time \in Nat, NEW event
  PROVE  Calls(Charge(p, time), q \o Woken(Notified(Elapsed(w, time), event)),
               StillWaiting(Notified(Elapsed(w, time), event)), h)
<1> DEFINE before == Elapsed(w, time)
           passed == Notified(before, event)
<1>1. before \in Seq(PassedPcbs) /\ Apart({p.pid}, q, before, h)
  BY ApartElapsed DEF Calls
<1>2. /\ Charge(p, time) \in CfsPcb /\ Charge(p, time).pid = p.pid
      /\ Charge(p, time).wakeup = NoWakeup
  BY PcbOperations DEF Calls
<1> HIDE DEF before
<1>3. passed \in Seq(PassedPcbs) /\ Apart({p.pid}, q, passed, h)
  BY <1>1, ApartNotified
<1> HIDE DEF passed
<1>4. /\ q \o Woken(passed) \in Seq(ReadyPcbs) /\ StillWaiting(passed) \in Seq(WaitingPcbs)
      /\ Apart({p.pid}, q \o Woken(passed), StillWaiting(passed), h)
  BY <1>3, WakeupStep DEF Calls
<1> QED
  BY <1>2, <1>4 DEF Calls, passed, before

\* A process is created.
LEMMA ForkPasses ==
  ASSUME NEW p, NEW q, NEW w, NEW h \in Nat, Calls(p, q, w, h),
         NEW new \in ReadyPcbs, new.pid = h + 1
  PROVE  Calls(p, Append(q, new), w, h + 1)
<1>1. Append(q, new) \in Seq(ReadyPcbs)
  BY DEF Calls
<1>2. Apart({p.pid}, Append(q, new), w, h + 1)
  BY ApartForked DEF Calls
<1> QED
  BY <1>1, <1>2 DEF Calls

\* The process that called joins the ready processes, or those that wait, or goes on.
LEMMA YieldPlaces ==
  ASSUME NEW p, NEW q, NEW w, NEW h, Calls(p, q, w, h)
  PROVE  Placed({}, Append(q, SetReady(p)), w, h)
<1> DEFINE ready == SetReady(p)
<1>1. ready \in ReadyPcbs /\ ready.pid = p.pid
  BY PcbOperations DEF Calls
<1> HIDE DEF ready
<1>2. q \in Seq(ReadyPcbs) /\ Apart({ready.pid}, q, w, h)
  BY <1>1 DEF Calls
<1>3. Append(q, ready) \in Seq(ReadyPcbs) /\ Apart({}, Append(q, ready), w, h)
  BY <1>1, <1>2, ApartReady
<1>4. {r.pid : r \in {}} = {}
  OBVIOUS
<1> QED
  BY <1>3, <1>4 DEF Placed, Calls, ready

LEMMA BlockPlaces ==
  ASSUME NEW p, NEW q, NEW w, NEW h, Calls(p, q, w, h),
         NEW asleep \in WaitingPcbs, asleep.pid = p.pid
  PROVE  Placed({}, q, Append(w, asleep), h)
<1>1. w \in Seq(WaitingPcbs) /\ Apart({asleep.pid}, q, w, h)
  BY DEF Calls
<1>2. Append(w, asleep) \in Seq(WaitingPcbs) /\ Apart({}, q, Append(w, asleep), h)
  BY <1>1, ApartBlocked
<1>3. {r.pid : r \in {}} = {}
  OBVIOUS
<1> QED
  BY <1>2, <1>3 DEF Placed, Calls

LEMMA ExitPlaces ==
  ASSUME NEW p, NEW q, NEW w, NEW h, Calls(p, q, w, h)
  PROVE  Placed({}, q, w, h)
<1>1. {r.pid : r \in {}} = {}
  OBVIOUS
<1> QED
  BY <1>1 DEF Placed, Calls, Apart

LEMMA ContinuePlaces ==
  ASSUME NEW p, NEW q, NEW w, NEW h, Calls(p, q, w, h)
  PROVE  Placed({SetRunning(p)}, q, w, h)
<1> DEFINE running == SetRunning(p)
<1>1. running \in RunningPcbs /\ running.pid = p.pid
  BY PcbOperations DEF Calls
<1> HIDE DEF running
<1>2. {r.pid : r \in {running}} = {p.pid}
  BY <1>1
<1> QED
  BY <1>1, <1>2 DEF Placed, Calls, running

\* Either way every process is in one place, with no more time than the longest.
LEMMA ContinueOrYieldStep ==
  ASSUME NEW p, NEW q, NEW remaining \in 0..Longest,
         Calls(p, q, waiting_processes', highest_pid'),
         ContinueOrYield(p, q, remaining)
  PROVE  /\ Placed(running_process', ready_processes', waiting_processes', highest_pid')
         /\ remaining_time' \in 0..Longest
<1>1. Longest \in Nat
  BY CfsAssumption DEF Longest
<1>2. q \in Seq(ReadyPcbs)
  BY DEF Calls
<1>3. CASE Yield(p, q)
  BY <1>1, <1>3, YieldPlaces DEF Yield
<1>4. CASE /\ running_process' = {SetRunning(p)} /\ ready_processes' = q
           /\ remaining_time' = RestOfTimeslice(Size(q, {p}, {}), remaining)
  <2>1. remaining_time' \in 0..Longest
    BY <1>2, <1>4, SizeOfAll, RestIsShorter
  <2> QED
    BY <1>4, <2>1, ContinuePlaces
<1> QED
  BY <1>3, <1>4 DEF ContinueOrYield

\* The end of every stop.
LEMMA StoppedStep ==
  ASSUME Placed(running_process', ready_processes', waiting_processes', highest_pid'),
         stopped_process' = {},
         remaining_time' \in 0..Longest,
         highest_pid' \in 0..MaxPid,
         sleep_time' = 0,
         decision' = Outcome("Stopped")
  PROVE  Coherent'
BY DEF Coherent, DecisionMatchesState, Outcome, Decision

\* What every next() starts from: the sleep that was announced has been played.
LEMMA NextStep ==
  ASSUME Coherent
  PROVE  Placed(running_process, ReadyOnNext, WaitingOnNext, highest_pid)
<1> DEFINE passed == WaitingAfter(sleep_time)
           R == {p.pid : p \in running_process}
<1>1. /\ ready_processes \in Seq(ReadyPcbs) /\ waiting_processes \in Seq(WaitingPcbs)
      /\ Apart(R, ready_processes, waiting_processes, highest_pid)
      /\ running_process \in SUBSET RunningPcbs /\ \A p, r \in running_process : p = r
      /\ sleep_time \in Nat
  BY DEF Coherent, Placed
<1> HIDE DEF R
<1>2. passed \in Seq(PassedPcbs) /\ Apart(R, ready_processes, passed, highest_pid)
  BY <1>1, ApartElapsed DEF WaitingAfter
<1> HIDE DEF passed
<1>3. /\ ready_processes \o Woken(passed) \in Seq(ReadyPcbs)
      /\ StillWaiting(passed) \in Seq(WaitingPcbs)
      /\ Apart(R, ready_processes \o Woken(passed), StillWaiting(passed), highest_pid)
  BY <1>1, <1>2, WakeupStep
<1> QED
  BY <1>1, <1>3 DEF Placed, R, passed, ReadyOnNext, WaitingOnNext

\* The final decisions.
LEMMA HaltStep ==
  ASSUME Coherent, NEW kind \in Final, Halt(kind)
  PROVE  Coherent'
BY NextStep DEF Coherent, Halt, DecisionMatchesState, Outcome, Decision, Final

-----------------------------------------------------------------------------
(* Every call keeps the invariant. *)

LEMMA InitCoherent == Init => Coherent
<1>1. Longest \in Nat /\ 0 \in 0..Longest /\ 0 \in 0..MaxPid
  BY CfsAssumption DEF Longest
<1>2. Placed({}, << >>, << >>, 0)
  BY DEF Placed, Apart, Pids, PidsDiffer
<1> QED
  BY <1>1, <1>2 DEF Init, Coherent, Nothing, DecisionMatchesState, Outcome, Decision

LEMMA StartCoherent ==
  ASSUME Coherent, Start
  PROVE  Coherent'
<1> DEFINE first == NewCfsPcb(1, 0)
<1>1. Nothing /\ sleep_time' = 0
  BY DEF Coherent, Start, DecisionMatchesState
<1>2. Live = {}
  BY <1>1 DEF Live, Nothing, Elements
<1>3. MinVruntime(Live) = 0
  BY <1>2 DEF MinVruntime
<1>4. /\ highest_pid' = 0 + 1 /\ ready_processes' = <<first>>
      /\ running_process' = {} /\ waiting_processes' = << >>
  BY <1>1, <1>3 DEF Start, Nothing
<1>5. first \in ReadyPcbs /\ first.pid = 0 + 1
  BY NewPcbReady DEF Pid
<1> HIDE DEF first
<1>6. << >> \in Seq(ReadyPcbs) /\ Append(<< >>, first) = <<first>>
  OBVIOUS
<1>7. Apart({}, << >>, << >>, 0)
  BY DEF Apart, Pids, PidsDiffer
<1>8. Apart({}, <<first>>, << >>, 0 + 1)
  BY <1>5, <1>6, <1>7, ApartForked
<1>9. <<first>> \in Seq(ReadyPcbs) /\ << >> \in Seq(WaitingPcbs)
  BY <1>5
<1>10. {p.pid : p \in {}} = {}
  OBVIOUS
<1>11. Placed({}, <<first>>, << >>, 0 + 1)
  BY <1>8, <1>9, <1>10 DEF Placed
<1>12. 0 + 1 \in 0..MaxPid
  BY CfsAssumption
<1>13. /\ Placed(running_process', ready_processes', waiting_processes', highest_pid')
       /\ highest_pid' \in 0..MaxPid
  BY <1>4, <1>11, <1>12
<1>14. /\ remaining_time' \in 0..Longest /\ stopped_process' = {}
       /\ decision' = Outcome("Stopped")
  BY DEF Start, Coherent
<1> QED
  BY <1>1, <1>13, <1>14, StoppedStep

LEMMA ExpiredCoherent ==
  ASSUME Coherent, Expired
  PROVE  Coherent'
<1> DEFINE waiting == WaitingAfter(remaining_time)
           queue == ready_processes \o Woken(waiting)
<1>1. PICK p \in running_process :
         /\ Yield(Charge(p, remaining_time), queue)
         /\ waiting_processes' = StillWaiting(waiting)
  BY DEF Expired
<1>2. /\ Calls(p, ready_processes, waiting_processes, highest_pid)
      /\ sleep_time = 0 /\ remaining_time \in Nat /\ remaining_time \in 0..Longest
  BY <1>1, RunningStep DEF Expired
<1>3. Calls(Charge(p, remaining_time), queue, StillWaiting(waiting), highest_pid)
  BY <1>2, TimePasses DEF WaitingAfter
<1>4. /\ highest_pid' = highest_pid /\ highest_pid \in 0..MaxPid /\ stopped_process' = {}
      /\ sleep_time' = 0 /\ decision' = Outcome("Stopped")
  BY <1>2 DEF Expired, Coherent
<1>5. 0 \in 0..Longest
  BY CfsAssumption DEF Longest
<1> HIDE DEF waiting, queue
<1>6. /\ Placed(running_process', ready_processes', waiting_processes', highest_pid')
      /\ remaining_time' \in 0..Longest
  BY <1>1, <1>3, <1>4, <1>5, YieldPlaces DEF Yield
<1> QED
  BY <1>4, <1>6, StoppedStep

\* The new process, with the least vruntime of all.
LEMMA NewProcess ==
  ASSUME NEW p, NEW q, NEW w, NEW h, Calls(p, q, w, h), NEW time \in Nat, NEW least,
         least = MinVruntime({Charge(p, time)} \cup Elements(q) \cup Elements(Elapsed(w, time)))
  PROVE  /\ least \in Nat
         /\ least <= p.vruntime + time
         /\ \A r \in Elements(q) \cup Elements(w) : least <= r.vruntime
         /\ \/ least = p.vruntime + time
            \/ \E r \in Elements(q) \cup Elements(w) : least = r.vruntime
<1> DEFINE charged == Charge(p, time)
           passed == Elapsed(w, time)
           all == {charged} \cup Elements(q) \cup Elements(passed)
<1>1. /\ w \in Seq(WaitingPcbs) /\ q \in Seq(ReadyPcbs)
      /\ charged \in CfsPcb /\ charged.vruntime = p.vruntime + time
  BY PcbOperations DEF Calls
<1>2. passed \in Seq(PassedPcbs) /\ Elements(passed) = {Elapse(r, time) : r \in Elements(w)}
  BY <1>1, ElapsedWaiting, ElapsedElements
<1>3. Elements(passed) \subseteq PassedPcbs /\ Elements(q) \subseteq ReadyPcbs
      /\ Elements(w) \subseteq WaitingPcbs
  BY <1>1, <1>2, ElementsType
<1>4. \A r \in Elements(w) : Elapse(r, time).vruntime = r.vruntime
  BY <1>3, ElapseWaiting
<1> HIDE DEF charged, passed
<1>5. all \subseteq CfsPcb /\ all # {} /\ charged \in all
  BY <1>1, <1>3 DEF PassedPcbs, ReadyPcbs
<1>6. least = MinVruntime(all)
  BY DEF charged, passed
<1>7. /\ least \in Nat
      /\ \E r \in all : r.vruntime = least
      /\ \A r \in all : least <= r.vruntime
  <2> HIDE DEF all
  <2> QED
    BY <1>5, <1>6, MinVruntimeLeast
<1>8. least <= p.vruntime + time
  BY <1>1, <1>5, <1>7
<1>9. \A r \in Elements(q) \cup Elements(w) : least <= r.vruntime
  BY <1>2, <1>4, <1>7
<1>10. \/ least = p.vruntime + time
       \/ \E r \in Elements(q) \cup Elements(w) : least = r.vruntime
  BY <1>1, <1>2, <1>4, <1>7
<1> QED
  BY <1>7, <1>8, <1>9, <1>10

\* What a fork makes of the lists, and where the new process starts.
LEMMA ForkStep ==
  ASSUME Coherent, NEW remaining \in Remaining, Fork(remaining)
  PROVE  \E p \in running_process, new \in ReadyPcbs, time \in Nat, queue \in Seq(ReadyPcbs) :
           /\ time = remaining_time - remaining
           /\ queue = ready_processes \o Woken(WaitingAfter(time))
           /\ ContinueOrYield(Charge(p, time), Append(queue, new), remaining)
           /\ waiting_processes' = StillWaiting(WaitingAfter(time))
           /\ Calls(Charge(p, time), Append(queue, new), waiting_processes', highest_pid')
           /\ new.pid = highest_pid + 1
           /\ \/ new.vruntime = p.vruntime + time
              \/ \E r \in Elements(ready_processes) \cup Elements(waiting_processes) :
                   new.vruntime = r.vruntime
<1> DEFINE time == remaining_time - remaining
           waiting == WaitingAfter(time)
           queue == ready_processes \o Woken(waiting)
           least(r) == MinVruntime({Charge(r, time)} \cup Elements(ready_processes)
                                     \cup Elements(waiting))
           new(r) == NewCfsPcb(highest_pid + 1, least(r))
<1>1. PICK p \in running_process :
         /\ ContinueOrYield(Charge(p, time), Append(queue, new(p)), remaining)
         /\ waiting_processes' = StillWaiting(waiting)
  BY DEF Fork
<1>2. Calls(p, ready_processes, waiting_processes, highest_pid)
  BY <1>1, RunningStep DEF Fork
<1>3. time \in Nat
  BY RemainingStep DEF Coherent
<1>4. highest_pid' = highest_pid + 1 /\ highest_pid \in Nat /\ highest_pid + 1 \in Pid
  BY CfsAssumption DEF Fork, Coherent, Pid
<1> HIDE DEF time
<1>5. Calls(Charge(p, time), queue, StillWaiting(waiting), highest_pid)
  BY <1>2, <1>3, TimePasses DEF WaitingAfter
<1>6. /\ least(p) \in Nat
      /\ \/ least(p) = p.vruntime + time
         \/ \E r \in Elements(ready_processes) \cup Elements(waiting_processes) :
              least(p) = r.vruntime
  BY <1>2, <1>3, NewProcess DEF WaitingAfter
<1> HIDE DEF waiting, least
<1>7. /\ new(p) \in ReadyPcbs /\ new(p).pid = highest_pid + 1
      /\ new(p).vruntime = least(p)
  BY <1>4, <1>6, NewPcbReady
<1> HIDE DEF queue, new
<1>8. Calls(Charge(p, time), Append(queue, new(p)), waiting_processes', highest_pid')
  BY <1>1, <1>4, <1>5, <1>7, ForkPasses
<1>9. queue \in Seq(ReadyPcbs)
  BY <1>5 DEF Calls
<1> QED
  BY <1>1, <1>3, <1>6, <1>7, <1>8, <1>9 DEF queue, waiting, time

LEMMA ForkCoherent ==
  ASSUME Coherent, NEW remaining \in Remaining, Fork(remaining)
  PROVE  Coherent'
<1>1. PICK p \in running_process, new \in ReadyPcbs, time \in Nat, queue \in Seq(ReadyPcbs) :
        /\ ContinueOrYield(Charge(p, time), Append(queue, new), remaining)
        /\ Calls(Charge(p, time), Append(queue, new), waiting_processes', highest_pid')
  BY ForkStep
<1>2. remaining \in 0..Longest
  BY RemainingStep DEF Coherent
<1>3. /\ Placed(running_process', ready_processes', waiting_processes', highest_pid')
      /\ remaining_time' \in 0..Longest
  BY <1>1, <1>2, ContinueOrYieldStep
<1>4. /\ highest_pid' \in 0..MaxPid /\ stopped_process' = {}
      /\ sleep_time' = 0 /\ decision' = Outcome("Stopped")
  BY <1>1, RunningStep, CfsAssumption DEF Fork, Coherent
<1> QED
  BY <1>3, <1>4, StoppedStep

LEMMA SignalCoherent ==
  ASSUME Coherent, NEW event, NEW remaining \in Remaining, Signal(event, remaining)
  PROVE  Coherent'
<1> DEFINE time == remaining_time - remaining
           waiting == Notified(WaitingAfter(time), event)
           queue == ready_processes \o Woken(waiting)
<1>1. PICK p \in running_process :
         /\ ContinueOrYield(Charge(p, time), queue, remaining)
         /\ waiting_processes' = StillWaiting(waiting)
  BY DEF Signal
<1>2. /\ Calls(p, ready_processes, waiting_processes, highest_pid)
      /\ sleep_time = 0 /\ remaining_time \in 0..Longest
  BY <1>1, RunningStep DEF Signal
<1>3. remaining \in 0..Longest /\ time \in Nat
  BY <1>2, RemainingStep
<1>4. /\ highest_pid' = highest_pid /\ highest_pid \in 0..MaxPid /\ stopped_process' = {}
      /\ sleep_time' = 0 /\ decision' = Outcome("Stopped")
  BY <1>2 DEF Signal, Coherent
<1> HIDE DEF time
<1>5. Calls(Charge(p, time), queue, StillWaiting(waiting), highest_pid)
  BY <1>2, <1>3, SignalPasses DEF WaitingAfter
<1> HIDE DEF queue, waiting
<1>6. /\ Placed(running_process', ready_processes', waiting_processes', highest_pid')
      /\ remaining_time' \in 0..Longest
  BY <1>1, <1>3, <1>4, <1>5, ContinueOrYieldStep
<1> QED
  BY <1>4, <1>6, StoppedStep

LEMMA BlockCoherent ==
  ASSUME Coherent, decision.kind = "Run", NEW remaining \in Remaining,
         NEW p \in running_process, NEW asleep \in WaitingPcbs, asleep.pid = p.pid,
         Block(asleep, remaining_time - remaining), running_process' = {},
         stopped_process' = {}, decision' = Outcome("Stopped"),
         UNCHANGED <<remaining_time, highest_pid, sleep_time>>
  PROVE  Coherent'
<1> DEFINE time == remaining_time - remaining
           waiting == WaitingAfter(time)
           queue == ready_processes \o Woken(waiting)
           charged == Charge(asleep, time)
<1>1. /\ Calls(p, ready_processes, waiting_processes, highest_pid)
      /\ sleep_time = 0 /\ remaining_time \in 0..Longest
  BY RunningStep
<1>2. time \in Nat
  BY <1>1, RemainingStep
<1>3. ready_processes' = queue /\ waiting_processes' = Append(StillWaiting(waiting), charged)
  BY DEF Block
<1> HIDE DEF time
<1>4. /\ Calls(Charge(p, time), queue, StillWaiting(waiting), highest_pid)
      /\ Charge(p, time).pid = p.pid
  BY <1>1, <1>2, TimePasses DEF WaitingAfter
<1>5. charged \in WaitingPcbs /\ charged.pid = p.pid
  BY <1>2, ChargeWaiting
<1> HIDE DEF queue, waiting, charged
<1>6. Placed({}, queue, Append(StillWaiting(waiting), charged), highest_pid)
  BY <1>4, <1>5, BlockPlaces
<1>7. highest_pid \in 0..MaxPid
  BY DEF Coherent
<1> QED
  BY <1>1, <1>3, <1>6, <1>7, StoppedStep

LEMMA SleepCoherent ==
  ASSUME Coherent, NEW time \in SleepTimes, NEW remaining \in Remaining,
         Sleep(time, remaining)
  PROVE  Coherent'
<1>1. PICK p \in running_process : Block(PutToSleep(p, time), remaining_time - remaining)
  BY DEF Sleep
<1>2. PutToSleep(p, time) \in WaitingPcbs /\ PutToSleep(p, time).pid = p.pid
  BY <1>1, RunningStep, PcbOperations, CfsAssumption DEF Sleep
<1> QED
  BY <1>1, <1>2, BlockCoherent DEF Sleep

LEMMA WaitCoherent ==
  ASSUME Coherent, NEW event \in Events, NEW remaining \in Remaining,
         Wait(event, remaining)
  PROVE  Coherent'
<1>1. PICK p \in running_process : Block(AwaitEvent(p, event), remaining_time - remaining)
  BY DEF Wait
<1>2. AwaitEvent(p, event) \in WaitingPcbs /\ AwaitEvent(p, event).pid = p.pid
  BY <1>1, RunningStep, PcbOperations DEF Wait
<1> QED
  BY <1>1, <1>2, BlockCoherent DEF Wait

LEMMA ExitCoherent ==
  ASSUME Coherent, NEW remaining \in Remaining, Exit(remaining)
  PROVE  Coherent'
<1> DEFINE time == remaining_time - remaining
           waiting == WaitingAfter(time)
           queue == ready_processes \o Woken(waiting)
<1>1. PICK p \in running_process : TRUE
  BY DEF Exit, Coherent, DecisionMatchesState
<1>2. /\ Calls(p, ready_processes, waiting_processes, highest_pid)
      /\ sleep_time = 0 /\ remaining_time \in 0..Longest
  BY <1>1, RunningStep DEF Exit
<1>3. time \in Nat
  BY <1>2, RemainingStep
<1>4. /\ ready_processes' = queue /\ waiting_processes' = StillWaiting(waiting)
      /\ running_process' = {} /\ stopped_process' = {} /\ decision' = Outcome("Stopped")
      /\ UNCHANGED <<remaining_time, highest_pid, sleep_time>>
  BY DEF Exit, DropStopped
<1> HIDE DEF time
<1>5. Calls(Charge(p, time), queue, StillWaiting(waiting), highest_pid)
  BY <1>2, <1>3, TimePasses DEF WaitingAfter
<1> HIDE DEF queue, waiting
<1>6. Placed({}, queue, StillWaiting(waiting), highest_pid)
  BY <1>5, ExitPlaces
<1>7. highest_pid \in 0..MaxPid
  BY DEF Coherent
<1> QED
  BY <1>2, <1>4, <1>6, <1>7, StoppedStep

LEMMA ContinueCoherent ==
  ASSUME Coherent, DecideContinue
  PROVE  Coherent'
<1>1. PICK p \in running_process :
         decision' = NonZero(remaining_time, RunFor(p.pid, remaining_time))
  BY DEF DecideContinue
<1>2. p.pid \in Nat /\ remaining_time \in Nat
  BY <1>1, CfsAssumption DEF Coherent, Placed, RunningPcbs, CfsPcb, Pid, Longest
<1>3. decision' \in Decision
  BY <1>1, <1>2 DEF NonZero, RunFor, Outcome, Decision, Final
<1>4. decision'.kind = "Run" => decision' = RunFor(p.pid, remaining_time)
  BY <1>1 DEF NonZero, RunFor, Outcome
<1>5. decision'.kind \in {"Run", "Abort"}
  BY <1>1 DEF NonZero, RunFor, Outcome
<1>6. DecisionMatchesState'
  BY <1>4, <1>5 DEF DecisionMatchesState, DecideContinue
<1> QED
  BY <1>3, <1>5, <1>6, NextStep DEF Coherent, DecideContinue

\* A list in which no PID comes twice is as long as the set of its PCBs is large.
LEMMA PidsCount ==
  ASSUME NEW S, NEW list \in Seq(S), PidsDiffer(list)
  PROVE  /\ Len(list) = Cardinality(Elements(list))
         /\ \A p, q \in Elements(list) : p.pid = q.pid => p = q
<1> DEFINE n == Len(list)
           E == Elements(list)
<1>1. n \in Nat /\ DOMAIN list = 1..n
  OBVIOUS
<1>2. list \in [1..n -> E]
  <2>1. list = [i \in 1..n |-> list[i]]
    BY <1>1
  <2>2. \A i \in 1..n : list[i] \in E
    BY <1>1 DEF Elements
  <2> HIDE DEF E
  <2> QED
    BY <2>1, <2>2
<1>3. \A i, j \in 1..n : list[i] = list[j] => i = j
  BY <1>1 DEF PidsDiffer
<1>4. \A p \in E : \E i \in 1..n : list[i] = p
  BY <1>1 DEF Elements
<1>5. \A p, q \in E : p.pid = q.pid => p = q
  BY DEF Elements, PidsDiffer
<1> HIDE DEF n, E
<1>6. list \in Bijection(1..n, E)
  BY <1>2, <1>3, <1>4, Fun_IsBij
<1>7. ExistsBijection(1..n, E)
  BY <1>6, Fun_ExistsBij
<1>8. IsFiniteSet(1..n) /\ Cardinality(1..n) = n
  BY <1>1, FS_Interval
<1>9. Cardinality(E) = n
  BY <1>7, <1>8, FS_Bijection
<1> QED
  BY <1>5, <1>9 DEF n, E

\* Whom a dispatch gives the processor.
LEMMA DispatchStep ==
  ASSUME Coherent, DecideDispatch
  PROVE  \E p \in ReadyPcbs, timeslice \in 0..Longest :
           /\ Sorted(ReadyOnNext) \in Seq(ReadyPcbs) /\ Sorted(ReadyOnNext) # << >>
           /\ Elements(Sorted(ReadyOnNext)) = Elements(ReadyOnNext)
           /\ InOrder(Sorted(ReadyOnNext))
           /\ p = Head(Sorted(ReadyOnNext))
           /\ timeslice = ComputeTimeslice(Len(Sorted(ReadyOnNext)))
           /\ running_process' = {SetRunning(p)}
           /\ ready_processes' = Tail(Sorted(ReadyOnNext))
           /\ waiting_processes' = WaitingOnNext
           /\ remaining_time' = timeslice
           /\ decision' = NonZero(timeslice, RunFor(p.pid, timeslice))
           /\ Calls(p, ready_processes', waiting_processes', highest_pid)
<1> DEFINE queue == Sorted(ReadyOnNext)
           p == Head(queue)
           timeslice == ComputeTimeslice(Size(ReadyOnNext, {}, {}))
<1>1. /\ running_process = {} /\ ReadyOnNext # << >>
      /\ running_process' = {SetRunning(p)} /\ ready_processes' = Tail(queue)
      /\ waiting_processes' = WaitingOnNext /\ remaining_time' = timeslice
      /\ decision' = NonZero(timeslice, RunFor(p.pid, timeslice))
  BY DEF DecideDispatch, Coherent
<1>2. Placed({}, ReadyOnNext, WaitingOnNext, highest_pid)
  BY <1>1, NextStep
<1>3. {r.pid : r \in {}} = {}
  OBVIOUS
<1>4. /\ ReadyOnNext \in Seq(ReadyPcbs) /\ WaitingOnNext \in Seq(WaitingPcbs)
      /\ PidsDiffer(ReadyOnNext) /\ Apart({}, ReadyOnNext, WaitingOnNext, highest_pid)
  BY <1>2, <1>3 DEF Placed, Apart
<1>5. ReadyPcbs \subseteq CfsPcb
  BY DEF ReadyPcbs
<1>6. /\ queue \in Seq(ReadyPcbs) /\ Elements(queue) = Elements(ReadyOnNext)
      /\ InOrder(queue) /\ Apart({}, queue, WaitingOnNext, highest_pid)
  BY <1>4, <1>5, SortedInOrder, ApartSorted
<1> HIDE DEF queue
<1>7. queue # << >>
  <2>1. Elements(ReadyOnNext) # {}
    BY <1>1, <1>4, ElementsHeadTail
  <2>2. Elements(<< >>) = {}
    BY DEF Elements
  <2> QED
    BY <1>6, <2>1, <2>2
<1>8. p \in ReadyPcbs /\ Tail(queue) \in Seq(ReadyPcbs) /\ Len(queue) \in Nat \ {0}
  BY <1>6, <1>7
<1>9. timeslice = ComputeTimeslice(Len(queue)) /\ timeslice \in 0..Longest
  <2>1. PidsDiffer(queue)
    BY <1>6 DEF Apart
  <2>2. Len(queue) = Len(ReadyOnNext)
    BY <1>4, <1>6, <2>1, PidsCount
  <2>3. Size(ReadyOnNext, {}, {}) = Len(queue)
    BY <1>4, <2>2, SizeOfAll
  <2> QED
    BY <1>8, <2>3, TimesliceShare
<1>10. Apart({p.pid}, Tail(queue), WaitingOnNext, highest_pid)
  BY <1>6, <1>7, ApartDispatched
<1> HIDE DEF p, timeslice
<1>11. Calls(p, Tail(queue), WaitingOnNext, highest_pid)
  BY <1>4, <1>8, <1>10 DEF Calls, ReadyPcbs, Parked
<1> QED
  BY <1>1, <1>6, <1>7, <1>8, <1>9, <1>11 DEF queue, p, timeslice

LEMMA DispatchCoherent ==
  ASSUME Coherent, DecideDispatch
  PROVE  Coherent'
<1>1. PICK p \in ReadyPcbs, timeslice \in 0..Longest :
        /\ running_process' = {SetRunning(p)}
        /\ remaining_time' = timeslice
        /\ decision' = NonZero(timeslice, RunFor(p.pid, timeslice))
        /\ Calls(p, ready_processes', waiting_processes', highest_pid)
  BY DispatchStep
<1>2. /\ highest_pid' = highest_pid /\ highest_pid \in 0..MaxPid /\ sleep_time' = 0
  BY DEF DecideDispatch, Coherent
<1>3. Placed(running_process', ready_processes', waiting_processes', highest_pid')
  BY <1>1, <1>2, ContinuePlaces
<1>4. SetRunning(p).pid = p.pid /\ p.pid \in Nat /\ timeslice \in Nat
  <2>1. p \in CfsPcb /\ p.wakeup = NoWakeup
    BY DEF ReadyPcbs, Parked
  <2>2. SetRunning(p).pid = p.pid
    BY <2>1, PcbOperations
  <2>3. p.pid \in Nat
    BY <2>1 DEF CfsPcb, Pid
  <2>4. timeslice \in Nat
    BY CfsAssumption DEF Longest
  <2> QED
    BY <2>2, <2>3, <2>4
<1>5. decision' \in Decision
  BY <1>1, <1>4 DEF NonZero, RunFor, Outcome, Decision, Final
<1>6. /\ decision'.kind \in {"Run", "Abort"}
      /\ decision'.kind = "Run" => decision' = RunFor(p.pid, timeslice)
  BY <1>1 DEF NonZero, RunFor, Outcome
<1>7. DecisionMatchesState'
  BY <1>1, <1>2, <1>4, <1>6 DEF DecisionMatchesState
<1>8. stopped_process' = {}
  BY DEF DecideDispatch, Coherent
<1> QED
  BY <1>1, <1>2, <1>3, <1>5, <1>6, <1>7, <1>8 DEF Coherent

LEMMA SleepDecisionCoherent ==
  ASSUME Coherent, DecideSleep
  PROVE  Coherent'
<1>1. PICK time \in FindSleepTime(WaitingOnNext) :
        sleep_time' = time /\ decision' = NonZero(time, SleepFor(time))
  BY DEF DecideSleep
<1>2. time \in Nat
  BY <1>1, NextStep, SleepTimeIsNat DEF Placed
<1>3. decision' \in Decision /\ decision'.kind \in {"Sleep", "Abort"}
  BY <1>1, <1>2 DEF NonZero, SleepFor, Outcome, Decision, Final
<1>4. /\ decision'.kind = "Sleep" => decision' = SleepFor(time)
      /\ time # 0 => decision'.kind = "Sleep"
  BY <1>1 DEF NonZero, SleepFor, Outcome
<1>5. DecisionMatchesState'
  BY <1>1, <1>3, <1>4 DEF DecisionMatchesState
<1> QED
  BY <1>1, <1>2, <1>3, <1>5, NextStep DEF Coherent, DecideSleep

LEMMA StopCoherent ==
  ASSUME Coherent, Stop
  PROVE  Coherent'
<1>1. CASE Start
  BY <1>1, StartCoherent
<1>2. CASE Expired
  BY <1>2, ExpiredCoherent
<1>3. ASSUME NEW remaining \in Remaining, Fork(remaining) PROVE Coherent'
  BY <1>3, ForkCoherent
<1>4. ASSUME NEW remaining \in Remaining, Exit(remaining) PROVE Coherent'
  BY <1>4, ExitCoherent
<1>5. ASSUME NEW remaining \in Remaining, NEW event \in Events, Signal(event, remaining)
      PROVE  Coherent'
  BY <1>5, SignalCoherent
<1>6. ASSUME NEW remaining \in Remaining, NEW event \in Events, Wait(event, remaining)
      PROVE  Coherent'
  BY <1>6, WaitCoherent
<1>7. ASSUME NEW remaining \in Remaining, NEW time \in SleepTimes, Sleep(time, remaining)
      PROVE  Coherent'
  BY <1>7, SleepCoherent
<1> QED
  BY <1>1, <1>2, <1>3, <1>4, <1>5, <1>6, <1>7 DEF Stop

LEMMA NextDecisionCoherent ==
  ASSUME Coherent, NextDecision
  PROVE  Coherent'
<1>1. CASE DecideDone
  BY <1>1, HaltStep DEF DecideDone, Final
<1>2. CASE DecidePanic
  BY <1>2, HaltStep DEF DecidePanic, Final
<1>3. CASE DecideContinue
  BY <1>3, ContinueCoherent
<1>4. CASE DecideDispatch
  BY <1>4, DispatchCoherent
<1>5. CASE DecideSleep
  BY <1>5, SleepDecisionCoherent
<1>6. CASE DecideDeadlock
  BY <1>6, HaltStep DEF DecideDeadlock, Final
<1> QED
  BY <1>1, <1>2, <1>3, <1>4, <1>5, <1>6 DEF NextDecision

LEMMA StutterCoherent ==
  ASSUME Coherent, UNCHANGED vars
  PROVE  Coherent'
BY DEF Coherent, Placed, Nothing, DecisionMatchesState, vars

LEMMA NextCoherent == Coherent /\ [Next]_vars => Coherent'
BY StopCoherent, NextDecisionCoherent, StutterCoherent DEF Next, Halted

(***************************************************************************)
(* Every PCB is in the place its state says, once, and the decision the    *)
(* processor acts on is the one the scheduler will act on.                 *)
(***************************************************************************)
THEOREM Coherence == Spec => []Coherent
<1>1. Init => Coherent
  BY InitCoherent
<1>2. Coherent /\ [Next]_vars => Coherent'
  BY NextCoherent
<1> QED
  BY <1>1, <1>2, PTL DEF Spec

-----------------------------------------------------------------------------
(* What the invariant says of the checked properties. *)

\* The lists of the invariant are lists of PCBs.
LEMMA ListTypes ==
  /\ RunningPcbs \subseteq CfsPcb
  /\ Seq(ReadyPcbs) \subseteq Seq(CfsPcb)
  /\ Seq(WaitingPcbs) \subseteq Seq(CfsPcb)
<1>1. RunningPcbs \subseteq CfsPcb /\ ReadyPcbs \subseteq CfsPcb /\ WaitingPcbs \subseteq CfsPcb
  BY DEF RunningPcbs, ReadyPcbs, WaitingPcbs
<1> QED
  BY <1>1, SeqMonotonic

(***************************************************************************)
(* Type correctness of the scheduler's state through every sequence of     *)
(* calls; in particular no timeslice is longer than cpu_time or the        *)
(* minimum, and at most one process runs.                                  *)
(***************************************************************************)
THEOREM TypeCorrect == Spec => []TypeOK
<1>1. Coherent => TypeOK
  BY ListTypes DEF Coherent, Placed, TypeOK
<1> QED
  BY <1>1, Coherence, PTL

(***************************************************************************)
(* The state and the wakeup condition written in a PCB agree with the place*)
(* the scheduler keeps it in: between the calls nobody is left on the      *)
(* waiting list whose sleep has run out or whose event was signalled.      *)
(***************************************************************************)
THEOREM PlacesMatch == Spec => []StateMatchesPlace
<1>1. Coherent => StateMatchesPlace
  <2>1. ASSUME Coherent
        PROVE  /\ running_process \subseteq RunningPcbs
               /\ Elements(ready_processes) \subseteq ReadyPcbs
               /\ Elements(waiting_processes) \subseteq WaitingPcbs
    BY <2>1, ElementsType DEF Coherent, Placed
  <2> QED
    BY <2>1 DEF StateMatchesPlace, RunningPcbs, ReadyPcbs, WaitingPcbs, Parked
<1> QED
  BY <1>1, Coherence, PTL

(***************************************************************************)
(* No process is ever in two places, or twice in one, and no PID is used   *)
(* twice, for any number of processes and any sequence of calls: neither   *)
(* the sort nor the cloned waiting list duplicates or loses a process.     *)
(***************************************************************************)
THEOREM ProcessOnce == Spec => []EachProcessOnce
<1>1. ASSUME Coherent PROVE EachProcessOnce
  <2> DEFINE R == {p.pid : p \in running_process}
             q == ready_processes
             w == waiting_processes
  <2>1. /\ q \in Seq(ReadyPcbs) /\ w \in Seq(WaitingPcbs)
        /\ \A p, r \in running_process : p = r
        /\ Apart(R, q, w, highest_pid)
    BY <1>1 DEF Coherent, Placed
  <2>2. /\ Len(q) = Cardinality(Elements(q)) /\ Len(w) = Cardinality(Elements(w))
        /\ \A p, r \in Elements(q) : p.pid = r.pid => p = r
        /\ \A p, r \in Elements(w) : p.pid = r.pid => p = r
    BY <2>1, PidsCount DEF Apart
  <2>3. /\ \A p \in running_process : p.pid \in R
        /\ \A p \in Elements(q) : p.pid \in Pids(q)
        /\ \A p \in Elements(w) : p.pid \in Pids(w)
    BY ElementsPids
  <2>4. /\ R \cap Pids(q) = {} /\ R \cap Pids(w) = {} /\ Pids(q) \cap Pids(w) = {}
        /\ R \cup Pids(q) \cup Pids(w) \subseteq 1..highest_pid
    BY <2>1 DEF Apart
  <2> HIDE DEF R, q, w
  <2>5. \A p, r \in running_process \cup Elements(q) \cup Elements(w) : p.pid = r.pid => p = r
    BY <2>1, <2>2, <2>3, <2>4
  <2>6. Elements(q) \cap Elements(w) = {}
    BY <2>3, <2>4
  <2>7. \A p \in running_process \cup Elements(q) \cup Elements(w) : p.pid <= highest_pid
    <3>1. \A pid \in 1..highest_pid : pid <= highest_pid
      OBVIOUS
    <3> QED
      BY <2>3, <2>4, <3>1
  <2> QED
    BY <2>2, <2>5, <2>6, <2>7 DEF EachProcessOnce, Live, q, w
<1> QED
  BY <1>1, Coherence, PTL

-----------------------------------------------------------------------------
(* Who is given the processor, and for how long. *)

FirstInOrder ==
  running_process = {} /\ running_process' # {} =>
    \A p \in running_process', q \in Elements(ready_processes') : Before(p, q)

HasItsShare ==
  running_process = {} /\ decision'.kind = "Run" =>
    LET sharers == Len(ready_processes') + 1
    IN  /\ remaining_time' >= MinimumRemainingTimeslice
        /\ \/ remaining_time' = MinimumRemainingTimeslice
           \/ remaining_time' * sharers <= CpuTime
        /\ (remaining_time' + 1) * sharers > CpuTime

\* The first of a list in order comes before all others.
LEMMA HeadIsFirst ==
  ASSUME NEW S, NEW queue \in Seq(S), queue # << >>, InOrder(queue)
  PROVE  \A q \in Elements(Tail(queue)) : Before(Head(queue), q)
<1> DEFINE rest == Tail(queue)
           n == Len(queue)
<1>1. /\ n \in Nat \ {0} /\ DOMAIN queue = 1..n /\ DOMAIN rest = 1..(n - 1)
      /\ Head(queue) = queue[1]
      /\ \A i \in 1..(n - 1) : rest[i] = queue[i + 1]
  OBVIOUS
<1> HIDE DEF rest, n
<1>2. ASSUME NEW i \in DOMAIN rest PROVE Before(queue[1], rest[i])
  <2>1. rest[i] = queue[i + 1] /\ 1 \in DOMAIN queue /\ i + 1 \in DOMAIN queue /\ 1 < i + 1
    BY <1>1
  <2> QED
    BY <2>1 DEF InOrder
<1> QED
  BY <1>1, <1>2 DEF Elements, rest

\* Only a dispatch gives the processor to a process.
LEMMA OnlyDispatch ==
  ASSUME Next, running_process = {}, running_process' # {}
  PROVE  DecideDispatch
<1>1. CASE Stop
  BY <1>1 DEF Stop, Start, Expired, Fork, Signal, Sleep, Wait, Exit
<1>2. CASE NextDecision
  BY <1>2 DEF NextDecision, DecideDone, DecidePanic, DecideContinue, DecideSleep,
              DecideDeadlock, Halt
<1>3. CASE Halted
  BY <1>3 DEF Halted, vars
<1> QED
  BY <1>1, <1>2, <1>3 DEF Next

\* The process that a dispatch gives the processor, and the share it gets.
LEMMA DispatchFirst ==
  ASSUME Coherent, DecideDispatch
  PROVE  FirstInOrder /\ HasItsShare
<1>1. PICK p \in ReadyPcbs, timeslice \in 0..Longest :
        /\ Sorted(ReadyOnNext) \in Seq(ReadyPcbs) /\ Sorted(ReadyOnNext) # << >>
        /\ InOrder(Sorted(ReadyOnNext))
        /\ p = Head(Sorted(ReadyOnNext))
        /\ timeslice = ComputeTimeslice(Len(Sorted(ReadyOnNext)))
        /\ running_process' = {SetRunning(p)}
        /\ ready_processes' = Tail(Sorted(ReadyOnNext))
        /\ remaining_time' = timeslice
        /\ decision' = NonZero(timeslice, RunFor(p.pid, timeslice))
  BY DispatchStep
<1> DEFINE queue == Sorted(ReadyOnNext)
<1> HIDE DEF queue
<1>2. queue \in Seq(ReadyPcbs) /\ queue # << >> /\ InOrder(queue)
  BY <1>1 DEF queue
<1>3. \A q \in Elements(Tail(queue)) : Before(p, q)
  BY <1>1, <1>2, HeadIsFirst DEF queue
<1>4. SetRunning(p).vruntime = p.vruntime /\ SetRunning(p).pid = p.pid
  BY DEF SetRunning, ReadyPcbs, CfsPcb
<1>5. FirstInOrder
  BY <1>1, <1>3, <1>4 DEF FirstInOrder, Before, queue
<1>6. Len(queue) \in Nat \ {0} /\ Len(Tail(queue)) + 1 = Len(queue)
  BY <1>2
<1>7. decision'.kind = "Run" => MinimumRemainingTimeslice # 0
  BY <1>1 DEF NonZero, Outcome, ComputeTimeslice
<1>8. /\ timeslice >= MinimumRemainingTimeslice
      /\ \/ timeslice = MinimumRemainingTimeslice
         \/ timeslice * (Len(Tail(queue)) + 1) <= CpuTime
      /\ MinimumRemainingTimeslice # 0 => (timeslice + 1) * (Len(Tail(queue)) + 1) > CpuTime
  BY <1>1, <1>6, TimesliceShare DEF queue
<1>9. HasItsShare
  BY <1>1, <1>7, <1>8 DEF HasItsShare, queue
<1> QED
  BY <1>5, <1>9

(***************************************************************************)
(* Whatever the calls and however many processes, the one that is given the*)
(* processor is the first by vruntime, then by PID, of all that are ready. *)
(***************************************************************************)
THEOREM LeastFirst == Spec => LeastVruntimeFirst
<1>1. Coherent /\ [Next]_vars => [FirstInOrder]_vars
  BY OnlyDispatch, DispatchFirst DEF FirstInOrder
<1>2. Spec => [][FirstInOrder]_vars
  BY <1>1, Coherence, PTL DEF Spec
<1> QED
  BY <1>2 DEF LeastVruntimeFirst, FirstInOrder

(***************************************************************************)
(* For every cpu_time and minimum, the timeslice a process is given is its *)
(* share of cpu_time among all that want the processor, itself counted, or *)
(* the minimum where the share would be less: no more, and not a unit less.*)
(***************************************************************************)
THEOREM FairTimeslice == Spec => FairShare
<1>1. Coherent /\ [Next]_vars => [HasItsShare]_vars
  <2>1. ASSUME Coherent, Next, running_process = {}, decision'.kind = "Run"
        PROVE  DecideDispatch
    <3>1. running_process' # {}
      BY <2>1, NextCoherent DEF Coherent, DecisionMatchesState
    <3> QED
      BY <2>1, <3>1, OnlyDispatch
  <2> QED
    BY <2>1, DispatchFirst DEF HasItsShare
<1>2. Spec => [][HasItsShare]_vars
  BY <1>1, Coherence, PTL DEF Spec
<1> QED
  BY <1>2 DEF FairShare, HasItsShare

CostsTime ==
  decision.kind = "Run" /\ running_process' # {} => remaining_time' < remaining_time

\* The process that goes on does so for less time than it had.
LEMMA ContinueCosts ==
  ASSUME Coherent, decision.kind = "Run", NEW r \in running_process,
         NEW p, NEW q \in Seq(ReadyPcbs), NEW remaining \in Remaining,
         ContinueOrYield(p, q, remaining)
  PROVE  CostsTime
<1>1. remaining_time \in 0..Longest
  BY RunningStep
<1>2. remaining \in 0..Longest /\ remaining < remaining_time
  BY <1>1, RemainingStep
<1> DEFINE rest == RestOfTimeslice(Size(q, {p}, {}), remaining)
<1>3. rest <= remaining /\ rest \in 0..Longest
  BY <1>2, SizeOfAll, RestIsShorter
<1>4. Longest \in Nat
  BY CfsAssumption DEF Longest
<1>5. rest < remaining_time
  BY <1>1, <1>2, <1>3, <1>4
<1> QED
  BY <1>5 DEF ContinueOrYield, Yield, CostsTime

\* In each call the process that goes on loses time.
LEMMA StopCosts ==
  ASSUME Coherent, Stop
  PROVE  CostsTime
<1>1. ASSUME running_process' = {} PROVE CostsTime
  BY <1>1 DEF CostsTime
<1>2. ASSUME NEW remaining \in Remaining
      PROVE  remaining_time - remaining \in Nat
  BY RemainingStep DEF Coherent
<1>3. ASSUME NEW r \in running_process, decision.kind = "Run", NEW time \in Nat
      PROVE  /\ ready_processes \o Woken(WaitingAfter(time)) \in Seq(ReadyPcbs)
             /\ \A event :
                  ready_processes \o Woken(Notified(WaitingAfter(time), event)) \in Seq(ReadyPcbs)
  <2>1. Calls(r, ready_processes, waiting_processes, highest_pid)
    BY <1>3, RunningStep
  <2> QED
    BY <2>1, TimePasses, SignalPasses DEF Calls, WaitingAfter
<1>4. ASSUME NEW remaining \in Remaining, Fork(remaining) PROVE CostsTime
  <2>1. PICK r \in running_process, new \in ReadyPcbs, time \in Nat, queue \in Seq(ReadyPcbs) :
          ContinueOrYield(Charge(r, time), Append(queue, new), remaining)
    BY <1>4, ForkStep
  <2>2. decision.kind = "Run" /\ Append(queue, new) \in Seq(ReadyPcbs)
    BY <1>4 DEF Fork
  <2> QED
    BY <2>1, <2>2, ContinueCosts
<1>5. ASSUME NEW remaining \in Remaining, NEW event, Signal(event, remaining) PROVE CostsTime
  <2> DEFINE time == remaining_time - remaining
             queue == ready_processes \o Woken(Notified(WaitingAfter(time), event))
  <2>1. PICK r \in running_process : ContinueOrYield(Charge(r, time), queue, remaining)
    BY <1>5 DEF Signal
  <2>2. decision.kind = "Run" /\ time \in Nat
    BY <1>2, <1>5 DEF Signal
  <2> HIDE DEF time
  <2>3. queue \in Seq(ReadyPcbs)
    BY <1>3, <2>1, <2>2
  <2> QED
    BY <2>1, <2>2, <2>3, ContinueCosts
<1>6. Start => CostsTime
  BY DEF Start, CostsTime
<1> QED
  BY <1>1, <1>4, <1>5, <1>6 DEF Stop, Expired, Yield, Exit, Sleep, Wait

(***************************************************************************)
(* A process that goes on after a system call has less time than before it,*)
(* although its timeslice is computed anew for each call: no number of     *)
(* calls and no change of the ready processes gives it time back.          *)
(***************************************************************************)
THEOREM CallsCost == Spec => CallsCostTime
<1>1. Coherent /\ [Next]_vars => [CostsTime]_vars
  <2>1. NextDecision => CostsTime
    BY DEF NextDecision, DecideDone, DecidePanic, DecideContinue, DecideDispatch, DecideSleep,
           DecideDeadlock, NobodyToRun, NextIsDue, CostsTime
  <2>2. Halted => UNCHANGED vars
    BY DEF Halted
  <2> QED
    BY <2>1, <2>2, StopCosts DEF Next
<1>2. Spec => [][CostsTime]_vars
  BY <1>1, Coherence, PTL DEF Spec
<1> QED
  BY <1>2 DEF CallsCostTime, CostsTime

-----------------------------------------------------------------------------
(* The least vruntime. *)

\* For each of `newer' there is one of `older' with no more vruntime.
NotBehind(older, newer) == \A p \in newer : \E q \in older : q.vruntime <= p.vruntime

NotBehindNow == Live # {} /\ Live' # {} => NotBehind(Live, Live')

\* `list' has the processes of w, with the vruntime they had, and is woken in two parts.
SameVruntimes(list, w) ==
  /\ Elements(Woken(list)) \cup Elements(StillWaiting(list)) = Elements(list)
  /\ \A p \in Elements(list) : \E q \in Elements(w) : q.vruntime = p.vruntime

\* Time passing, a signal and a wakeup leave each process its vruntime.
LEMMA PassingKeepsVruntimes ==
  ASSUME NEW w \in Seq(WaitingPcbs), NEW time \in Nat
  PROVE  /\ SameVruntimes(Elapsed(w, time), w)
         /\ \A event : SameVruntimes(Notified(Elapsed(w, time), event), w)
<1> DEFINE passed == Elapsed(w, time)
<1>1. /\ passed \in Seq(PassedPcbs) /\ Elements(passed) = {Elapse(p, time) : p \in Elements(w)}
      /\ Elements(w) \subseteq WaitingPcbs
  BY ElapsedWaiting, ElapsedElements, ElementsType
<1>2. \A p \in Elements(passed) : \E q \in Elements(w) : q.vruntime = p.vruntime
  BY <1>1, ElapseWaiting
<1> HIDE DEF passed
<1>3. \A list \in Seq(PassedPcbs) :
        Elements(Woken(list)) \cup Elements(StillWaiting(list)) = Elements(list)
  BY WakeupElements
<1>4. ASSUME NEW event
      PROVE  /\ Notified(passed, event) \in Seq(PassedPcbs)
             /\ \A p \in Elements(Notified(passed, event)) :
                  \E q \in Elements(w) : q.vruntime = p.vruntime
  <2>1. /\ Notified(passed, event) \in Seq(PassedPcbs)
        /\ Elements(Notified(passed, event)) = {Notify(p, event) : p \in Elements(passed)}
        /\ Elements(passed) \subseteq PassedPcbs
    BY <1>1, NotifiedWaiting, NotifiedElements, ElementsType
  <2>2. \A p \in Elements(passed) : Notify(p, event).vruntime = p.vruntime
    BY <2>1, NotifyWaiting
  <2> QED
    BY <1>2, <2>1, <2>2
<1>5. SameVruntimes(passed, w)
  BY <1>1, <1>2, <1>3 DEF SameVruntimes, passed
<1>6. ASSUME NEW event PROVE SameVruntimes(Notified(passed, event), w)
  BY <1>3, <1>4 DEF SameVruntimes
<1> QED
  BY <1>5, <1>6 DEF passed

\* What ContinueOrYield and Yield do to the places, whatever time is left.
StaysOrYields(p, queue) ==
  \/ Yield(p, queue)
  \/ running_process' = {SetRunning(p)} /\ ready_processes' = queue

LEMMA ContinueStaysOrYields ==
  ASSUME NEW p, NEW queue, NEW remaining, ContinueOrYield(p, queue, remaining)
  PROVE  StaysOrYields(p, queue)
BY DEF ContinueOrYield, StaysOrYields

\* Who is alive after a call of p that lets `queue' be ready.
LEMMA LiveAfterCall ==
  ASSUME NEW p, NEW queue,
         Calls(p, queue, waiting_processes', highest_pid'),
         StaysOrYields(p, queue)
  PROVE  \A r \in Live' : \E q \in {p} \cup Elements(queue) \cup Elements(waiting_processes') :
           q.vruntime = r.vruntime
<1>1. /\ p \in CfsPcb /\ queue \in Seq(ReadyPcbs)
  BY DEF Calls
<1>2. /\ SetReady(p) \in ReadyPcbs
      /\ SetReady(p).vruntime = p.vruntime /\ SetRunning(p).vruntime = p.vruntime
  BY <1>1, PcbOperations DEF SetReady, SetRunning, CfsPcb
<1>3. CASE Yield(p, queue)
  <2>1. Elements(Append(queue, SetReady(p))) = Elements(queue) \cup {SetReady(p)}
    BY <1>1, <1>2, ElementsAppend
  <2>2. Live' = Elements(queue) \cup {SetReady(p)} \cup Elements(waiting_processes')
    BY <1>3, <2>1 DEF Yield, Live
  <2> QED
    BY <1>2, <2>2
<1>4. CASE running_process' = {SetRunning(p)} /\ ready_processes' = queue
  <2>1. Live' = {SetRunning(p)} \cup Elements(queue) \cup Elements(waiting_processes')
    BY <1>4 DEF Live
  <2> QED
    BY <1>2, <2>1
<1> QED
  BY <1>3, <1>4 DEF StaysOrYields

\* What every stop of the running process r starts from.
LEMMA LiveInCall ==
  ASSUME Coherent, decision.kind = "Run", NEW r \in running_process, NEW time \in Nat
  PROVE  /\ Live = {r} \cup Elements(ready_processes) \cup Elements(waiting_processes)
         /\ Live \subseteq CfsPcb
         /\ waiting_processes \in Seq(WaitingPcbs)
         /\ ready_processes \in Seq(ReadyPcbs)
         /\ r.vruntime <= r.vruntime + time
         /\ Charge(r, time).vruntime = r.vruntime + time
<1>1. /\ Calls(r, ready_processes, waiting_processes, highest_pid) /\ running_process = {r}
      /\ r \in CfsPcb
  BY RunningStep
<1>2. ready_processes \in Seq(ReadyPcbs) /\ waiting_processes \in Seq(WaitingPcbs)
  BY <1>1 DEF Calls
<1>3. Elements(ready_processes) \subseteq CfsPcb /\ Elements(waiting_processes) \subseteq CfsPcb
  BY <1>2, ElementsType DEF ReadyPcbs, WaitingPcbs
<1>4. Charge(r, time).vruntime = r.vruntime + time /\ r.vruntime <= r.vruntime + time
  <2>1. Charge(r, time).vruntime = r.vruntime + time
    BY <1>1, PcbOperations
  <2>2. r.vruntime \in Nat
    BY <1>1 DEF CfsPcb
  <2> QED
    BY <2>1, <2>2
<1> QED
  BY <1>1, <1>2, <1>3, <1>4 DEF Live

\* The ready processes of a call, the woken ones included.
LEMMA ReadyInCall ==
  ASSUME NEW q \in Seq(ReadyPcbs), NEW list \in Seq(PassedPcbs)
  PROVE  Elements(q \o Woken(list)) = Elements(q) \cup Elements(Woken(list))
BY WakeupWaiting, ElementsConcat

\* No call makes a process with less vruntime than all had before it.
LEMMA BlockNotBehind ==
  ASSUME Coherent, decision.kind = "Run", NEW remaining \in Remaining,
         NEW p \in running_process, NEW asleep \in WaitingPcbs,
         asleep.vruntime = p.vruntime,
         Block(asleep, remaining_time - remaining), running_process' = {}
  PROVE  NotBehind(Live, Live')
<1> DEFINE time == remaining_time - remaining
           passed == Elapsed(waiting_processes, time)
           charged == Charge(asleep, time)
<1>1. time \in Nat
  BY RemainingStep DEF Coherent
<1> HIDE DEF time
<1>2. /\ Live = {p} \cup Elements(ready_processes) \cup Elements(waiting_processes)
      /\ Live \subseteq CfsPcb
      /\ waiting_processes \in Seq(WaitingPcbs) /\ ready_processes \in Seq(ReadyPcbs)
      /\ p.vruntime <= p.vruntime + time
  BY <1>1, LiveInCall
<1>3. /\ charged \in WaitingPcbs /\ charged.vruntime = p.vruntime + time
  BY <1>1, ChargeWaiting, PcbOperations DEF WaitingPcbs
<1>4. passed \in Seq(PassedPcbs)
  BY <1>1, <1>2, ElapsedWaiting
<1>5. /\ Elements(Woken(passed)) \cup Elements(StillWaiting(passed)) = Elements(passed)
      /\ \A q \in Elements(passed) : \E r \in Elements(waiting_processes) : r.vruntime = q.vruntime
  BY <1>1, <1>2, PassingKeepsVruntimes DEF SameVruntimes
<1>6. /\ ready_processes' = ready_processes \o Woken(passed)
      /\ waiting_processes' = Append(StillWaiting(passed), charged)
  BY DEF Block, WaitingAfter, time
<1> HIDE DEF passed, charged
<1>7. StillWaiting(passed) \in Seq(WaitingPcbs)
  BY <1>4, WakeupWaiting
<1>8. Live' = Elements(ready_processes) \cup Elements(passed) \cup {charged}
  <2>1. Elements(ready_processes') = Elements(ready_processes) \cup Elements(Woken(passed))
    BY <1>2, <1>4, <1>6, ReadyInCall
  <2>2. Elements(waiting_processes') = Elements(StillWaiting(passed)) \cup {charged}
    BY <1>3, <1>6, <1>7, ElementsAppend
  <2> QED
    BY <1>5, <2>1, <2>2 DEF Live
<1>9. \A q \in Live : q.vruntime \in Nat
  BY <1>2 DEF CfsPcb
<1>10. \A q \in Live : q.vruntime <= q.vruntime
  BY <1>9
<1>11. ASSUME NEW q \in Live' PROVE \E r \in Live : r.vruntime <= q.vruntime
  <2>1. CASE q \in Elements(ready_processes)
    BY <1>2, <1>10, <2>1
  <2>2. CASE q \in Elements(passed)
    <3>1. PICK r \in Elements(waiting_processes) : r.vruntime = q.vruntime
      BY <1>5, <2>2
    <3> QED
      BY <1>2, <1>10, <3>1
  <2>3. CASE q = charged
    BY <1>2, <1>3, <2>3
  <2> QED
    BY <1>8, <2>1, <2>2, <2>3
<1> QED
  BY <1>11 DEF NotBehind

\* A call after which the process that called goes on or yields, but for fork.
LEMMA CallNotBehind ==
  ASSUME Coherent, decision.kind = "Run", NEW r \in running_process, NEW time \in Nat,
         NEW list \in Seq(PassedPcbs), SameVruntimes(list, waiting_processes),
         NEW queue, NEW more,
         Elements(queue) = Elements(ready_processes) \cup Elements(Woken(list)) \cup more,
         \A p \in more : \E q \in Live : q.vruntime <= p.vruntime,
         waiting_processes' = StillWaiting(list),
         Calls(Charge(r, time), queue, waiting_processes', highest_pid'),
         StaysOrYields(Charge(r, time), queue)
  PROVE  NotBehind(Live, Live')
<1> DEFINE charged == Charge(r, time)
           now == {charged} \cup Elements(queue) \cup Elements(waiting_processes')
<1>1. \A p \in Live' : \E q \in now : q.vruntime = p.vruntime
  BY LiveAfterCall
<1>2. /\ Live = {r} \cup Elements(ready_processes) \cup Elements(waiting_processes)
      /\ Live \subseteq CfsPcb
      /\ r.vruntime <= r.vruntime + time /\ charged.vruntime = r.vruntime + time
  BY LiveInCall
<1>3. \A q \in Live : q.vruntime <= q.vruntime
  BY <1>2 DEF CfsPcb
<1> HIDE DEF charged
<1>4. now = {charged} \cup Elements(ready_processes) \cup Elements(list) \cup more
  BY DEF SameVruntimes
<1>5. ASSUME NEW p \in now PROVE \E q \in Live : q.vruntime <= p.vruntime
  <2>1. CASE p = charged
    BY <1>2, <2>1
  <2>2. CASE p \in Elements(ready_processes)
    BY <1>2, <1>3, <2>2
  <2>3. CASE p \in Elements(list)
    <3>1. PICK q \in Elements(waiting_processes) : q.vruntime = p.vruntime
      BY <2>3 DEF SameVruntimes
    <3> QED
      BY <1>2, <1>3, <3>1
  <2> QED
    BY <1>4, <1>5, <2>1, <2>2, <2>3
<1> HIDE DEF now
<1>6. ASSUME NEW p \in Live' PROVE \E q \in Live : q.vruntime <= p.vruntime
  <2>1. PICK q \in now : q.vruntime = p.vruntime
    BY <1>1
  <2> QED
    BY <1>5, <2>1
<1> QED
  BY <1>6 DEF NotBehind

LEMMA ForkNotBehind ==
  ASSUME Coherent, NEW remaining \in Remaining, Fork(remaining)
  PROVE  NotBehind(Live, Live')
<1>1. PICK p \in running_process, new \in ReadyPcbs, time \in Nat, queue \in Seq(ReadyPcbs) :
        /\ time = remaining_time - remaining
        /\ queue = ready_processes \o Woken(WaitingAfter(time))
        /\ ContinueOrYield(Charge(p, time), Append(queue, new), remaining)
        /\ waiting_processes' = StillWaiting(WaitingAfter(time))
        /\ Calls(Charge(p, time), Append(queue, new), waiting_processes', highest_pid')
        /\ \/ new.vruntime = p.vruntime + time
           \/ \E r \in Elements(ready_processes) \cup Elements(waiting_processes) :
                new.vruntime = r.vruntime
  BY ForkStep
<1> DEFINE passed == WaitingAfter(time)
<1>2. decision.kind = "Run" /\ remaining \in 0..Longest
  BY RemainingStep DEF Fork, Coherent
<1>3. /\ Live = {p} \cup Elements(ready_processes) \cup Elements(waiting_processes)
      /\ Live \subseteq CfsPcb
      /\ waiting_processes \in Seq(WaitingPcbs) /\ ready_processes \in Seq(ReadyPcbs)
      /\ p.vruntime <= p.vruntime + time
  BY <1>2, LiveInCall
<1>4. passed \in Seq(PassedPcbs) /\ SameVruntimes(passed, waiting_processes)
  BY <1>3, ElapsedWaiting, PassingKeepsVruntimes DEF WaitingAfter
<1> HIDE DEF passed
<1>5. Elements(queue) = Elements(ready_processes) \cup Elements(Woken(passed))
  BY <1>1, <1>3, <1>4, ReadyInCall DEF passed
<1>6. Elements(Append(queue, new)) = Elements(ready_processes) \cup Elements(Woken(passed)) \cup {new}
  BY <1>5, ElementsAppend
<1>7. \E q \in Live : q.vruntime <= new.vruntime
  <2>1. \A q \in Live : q.vruntime <= q.vruntime
    BY <1>3 DEF CfsPcb
  <2> QED
    BY <1>1, <1>3, <2>1
<1>8. \A q \in {new} : \E r \in Live : r.vruntime <= q.vruntime
  BY <1>7
<1>9. StaysOrYields(Charge(p, time), Append(queue, new))
  BY <1>1, ContinueStaysOrYields
<1> DEFINE longer == Append(queue, new)
           more == {new}
<1>10. /\ Elements(longer) = Elements(ready_processes) \cup Elements(Woken(passed)) \cup more
       /\ \A q \in more : \E r \in Live : r.vruntime <= q.vruntime
       /\ waiting_processes' = StillWaiting(passed)
       /\ Calls(Charge(p, time), longer, waiting_processes', highest_pid')
       /\ StaysOrYields(Charge(p, time), longer)
  BY <1>1, <1>6, <1>8, <1>9 DEF passed
<1> HIDE DEF longer, more
<1> QED
  BY <1>1, <1>2, <1>4, <1>10, CallNotBehind

\* Expired and signals.
LEMMA CallerNotBehind ==
  ASSUME Coherent, decision.kind = "Run", NEW r \in running_process, NEW time \in Nat,
         NEW list \in Seq(PassedPcbs), SameVruntimes(list, waiting_processes),
         waiting_processes' = StillWaiting(list),
         Calls(Charge(r, time), ready_processes \o Woken(list), waiting_processes', highest_pid'),
         StaysOrYields(Charge(r, time), ready_processes \o Woken(list))
  PROVE  NotBehind(Live, Live')
<1> DEFINE queue == ready_processes \o Woken(list)
           more == {}
<1>1. ready_processes \in Seq(ReadyPcbs)
  BY LiveInCall
<1>2. Elements(queue) = Elements(ready_processes) \cup Elements(Woken(list)) \cup more
  BY <1>1, ReadyInCall
<1>3. \A p \in more : \E q \in Live : q.vruntime <= p.vruntime
  OBVIOUS
<1>4. /\ Calls(Charge(r, time), queue, waiting_processes', highest_pid')
      /\ StaysOrYields(Charge(r, time), queue)
  OBVIOUS
<1> HIDE DEF queue, more
<1> QED
  BY <1>2, <1>3, <1>4, CallNotBehind

LEMMA StopNotBehind ==
  ASSUME Coherent, Stop
  PROVE  NotBehindNow
<1>1. ASSUME NEW r \in running_process, decision.kind = "Run", NEW time \in Nat
      PROVE  /\ waiting_processes \in Seq(WaitingPcbs)
             /\ Elapsed(waiting_processes, time) \in Seq(PassedPcbs)
             /\ SameVruntimes(Elapsed(waiting_processes, time), waiting_processes)
             /\ Calls(r, ready_processes, waiting_processes, highest_pid)
  <2>1. waiting_processes \in Seq(WaitingPcbs) /\ Calls(r, ready_processes, waiting_processes, highest_pid)
    BY <1>1, RunningStep DEF Calls
  <2> QED
    BY <2>1, ElapsedWaiting, PassingKeepsVruntimes
<1>2. ASSUME NEW remaining \in Remaining
      PROVE  remaining_time - remaining \in Nat /\ remaining \in 0..Longest
  BY RemainingStep DEF Coherent
<1>3. Start => Live = {}
  BY DEF Start, Coherent, Nothing, Live, Elements
<1>4. CASE Expired
  <2> DEFINE time == remaining_time
             passed == Elapsed(waiting_processes, time)
  <2>1. PICK r \in running_process :
          /\ Yield(Charge(r, time), ready_processes \o Woken(passed))
          /\ waiting_processes' = StillWaiting(passed)
    BY <1>4 DEF Expired, WaitingAfter
  <2>2. decision.kind = "Run" /\ highest_pid' = highest_pid
    BY <1>4 DEF Expired
  <2>3. time \in Nat
    BY <2>1, <2>2, RunningStep
  <2> HIDE DEF time
  <2>4. /\ passed \in Seq(PassedPcbs) /\ SameVruntimes(passed, waiting_processes)
        /\ waiting_processes \in Seq(WaitingPcbs)
        /\ Calls(r, ready_processes, waiting_processes, highest_pid)
    BY <1>1, <2>1, <2>2, <2>3
  <2>5. Calls(Charge(r, time), ready_processes \o Woken(passed), waiting_processes', highest_pid')
    BY <2>1, <2>2, <2>3, <2>4, TimePasses
  <2>6. StaysOrYields(Charge(r, time), ready_processes \o Woken(passed))
    BY <2>1 DEF StaysOrYields
  <2> HIDE DEF passed
  <2>7. NotBehind(Live, Live')
    BY <2>1, <2>2, <2>3, <2>4, <2>5, <2>6, CallerNotBehind
  <2> QED
    BY <2>7 DEF NotBehindNow
<1>5. ASSUME NEW remaining \in Remaining, NEW event, Signal(event, remaining)
      PROVE  NotBehindNow
  <2> DEFINE time == remaining_time - remaining
             before == Elapsed(waiting_processes, time)
             passed == Notified(before, event)
  <2>1. PICK r \in running_process :
          /\ ContinueOrYield(Charge(r, time), ready_processes \o Woken(passed), remaining)
          /\ waiting_processes' = StillWaiting(passed)
    BY <1>5 DEF Signal, WaitingAfter
  <2>2. /\ decision.kind = "Run" /\ highest_pid' = highest_pid
        /\ time \in Nat /\ remaining \in 0..Longest
    BY <1>2, <1>5 DEF Signal
  <2> HIDE DEF time
  <2>3. /\ before \in Seq(PassedPcbs) /\ waiting_processes \in Seq(WaitingPcbs)
        /\ Calls(r, ready_processes, waiting_processes, highest_pid)
    BY <1>1, <2>1, <2>2
  <2>4. Calls(Charge(r, time), ready_processes \o Woken(passed), waiting_processes', highest_pid')
    BY <2>1, <2>2, <2>3, SignalPasses
  <2>5. SameVruntimes(passed, waiting_processes)
    BY <2>2, <2>3, PassingKeepsVruntimes
  <2> HIDE DEF before
  <2>6. passed \in Seq(PassedPcbs)
    BY <2>3, NotifiedWaiting
  <2>7. StaysOrYields(Charge(r, time), ready_processes \o Woken(passed))
    BY <2>1, ContinueStaysOrYields
  <2> HIDE DEF passed
  <2>8. NotBehind(Live, Live')
    BY <2>1, <2>2, <2>4, <2>5, <2>6, <2>7, CallerNotBehind
  <2> QED
    BY <2>8 DEF NotBehindNow
<1>6. ASSUME NEW remaining \in Remaining, Fork(remaining) PROVE NotBehindNow
  BY <1>6, ForkNotBehind DEF NotBehindNow
<1>7. ASSUME NEW p \in running_process, decision.kind = "Run"
      PROVE  /\ \A time \in SleepTimes : /\ PutToSleep(p, time) \in WaitingPcbs
                                         /\ PutToSleep(p, time).vruntime = p.vruntime
             /\ \A event \in Events : /\ AwaitEvent(p, event) \in WaitingPcbs
                                      /\ AwaitEvent(p, event).vruntime = p.vruntime
  <2>1. p \in CfsPcb
    BY <1>7, RunningStep
  <2>2. \A x : PutToSleep(p, x).vruntime = p.vruntime /\ AwaitEvent(p, x).vruntime = p.vruntime
    BY <2>1 DEF PutToSleep, AwaitEvent, CfsPcb
  <2> QED
    BY <2>1, <2>2, PcbOperations, CfsAssumption
<1>8. ASSUME NEW remaining \in Remaining, NEW time \in SleepTimes, Sleep(time, remaining)
      PROVE  NotBehindNow
  <2>1. PICK p \in running_process : Block(PutToSleep(p, time), remaining_time - remaining)
    BY <1>8 DEF Sleep
  <2>2. decision.kind = "Run" /\ running_process' = {}
    BY <1>8 DEF Sleep
  <2>3. NotBehind(Live, Live')
    BY <1>7, <2>1, <2>2, BlockNotBehind
  <2> QED
    BY <2>3 DEF NotBehindNow
<1>9. ASSUME NEW remaining \in Remaining, NEW event \in Events, Wait(event, remaining)
      PROVE  NotBehindNow
  <2>1. PICK p \in running_process : Block(AwaitEvent(p, event), remaining_time - remaining)
    BY <1>9 DEF Wait
  <2>2. decision.kind = "Run" /\ running_process' = {}
    BY <1>9 DEF Wait
  <2>3. NotBehind(Live, Live')
    BY <1>7, <2>1, <2>2, BlockNotBehind
  <2> QED
    BY <2>3 DEF NotBehindNow
<1>10. ASSUME NEW remaining \in Remaining, Exit(remaining) PROVE NotBehindNow
  <2> DEFINE time == remaining_time - remaining
             passed == Elapsed(waiting_processes, time)
  <2>1. PICK r \in running_process : TRUE
    BY <1>10 DEF Exit, Coherent, DecisionMatchesState
  <2>2. /\ decision.kind = "Run" /\ time \in Nat /\ running_process' = {}
        /\ ready_processes' = ready_processes \o Woken(passed)
        /\ waiting_processes' = StillWaiting(passed)
    BY <1>2, <1>10 DEF Exit, WaitingAfter
  <2> HIDE DEF time
  <2>3. passed \in Seq(PassedPcbs) /\ SameVruntimes(passed, waiting_processes)
    BY <1>1, <2>1, <2>2
  <2>4. /\ Live = {r} \cup Elements(ready_processes) \cup Elements(waiting_processes)
        /\ Live \subseteq CfsPcb /\ ready_processes \in Seq(ReadyPcbs)
    BY <2>1, <2>2, LiveInCall
  <2> HIDE DEF passed
  <2>5. Elements(ready_processes \o Woken(passed)) = Elements(ready_processes) \cup Elements(Woken(passed))
    BY <2>3, <2>4, ReadyInCall
  <2>6. Live' = Elements(ready_processes) \cup Elements(passed)
    BY <2>2, <2>3, <2>5 DEF Live, SameVruntimes
  <2>7. \A q \in Live : q.vruntime <= q.vruntime
    BY <2>4 DEF CfsPcb
  <2>8. \A p \in Elements(passed) : \E q \in Live : q.vruntime <= p.vruntime
    BY <2>3, <2>4, <2>7 DEF SameVruntimes
  <2> QED
    BY <2>4, <2>6, <2>7, <2>8 DEF NotBehindNow, NotBehind
<1> QED
  BY <1>3, <1>4, <1>5, <1>6, <1>8, <1>9, <1>10 DEF Stop, NotBehindNow

\* Playing the sleep wakes processes and changes no vruntime.
LEMMA NextNotBehind ==
  ASSUME Coherent, NextDecision
  PROVE  NotBehindNow
<1> DEFINE passed == Elapsed(waiting_processes, sleep_time)
           onNext == Elements(ReadyOnNext) \cup Elements(WaitingOnNext)
<1>1. /\ ready_processes \in Seq(ReadyPcbs) /\ waiting_processes \in Seq(WaitingPcbs)
      /\ running_process \subseteq RunningPcbs /\ sleep_time \in Nat
  BY DEF Coherent, Placed
<1>2. passed \in Seq(PassedPcbs) /\ SameVruntimes(passed, waiting_processes)
  BY <1>1, ElapsedWaiting, PassingKeepsVruntimes
<1>3. Live \subseteq CfsPcb
  <2>1. /\ Elements(ready_processes) \subseteq ReadyPcbs
        /\ Elements(waiting_processes) \subseteq WaitingPcbs
    BY <1>1, ElementsType
  <2> QED
    BY <1>1, <2>1 DEF Live, RunningPcbs, ReadyPcbs, WaitingPcbs
<1>4. \A q \in Live : q.vruntime <= q.vruntime
  BY <1>3 DEF CfsPcb
<1> HIDE DEF passed
<1>5. \A p \in onNext : \E q \in Live : q.vruntime <= p.vruntime
  <2>1. CASE sleep_time = 0
    BY <1>4, <2>1 DEF ReadyOnNext, WaitingOnNext, Live
  <2>2. CASE sleep_time # 0
    <3>1. Elements(ReadyOnNext) = Elements(ready_processes) \cup Elements(Woken(passed))
      BY <1>1, <1>2, <2>2, ReadyInCall DEF ReadyOnNext, WaitingAfter, passed
    <3>2. Elements(WaitingOnNext) = Elements(StillWaiting(passed))
      BY <2>2 DEF WaitingOnNext, WaitingAfter, passed
    <3>3. onNext = Elements(ready_processes) \cup Elements(passed)
      BY <1>2, <3>1, <3>2 DEF SameVruntimes
    <3>4. \A p \in Elements(passed) : \E q \in Live : q.vruntime <= p.vruntime
      BY <1>2, <1>4 DEF SameVruntimes, Live
    <3> QED
      BY <1>4, <3>3, <3>4 DEF Live
  <2> QED
    BY <2>1, <2>2
<1>6. \A p \in running_process : \E q \in Live : q.vruntime <= p.vruntime
  BY <1>4 DEF Live
<1>7. CASE DecideDispatch
  <2>1. PICK p \in ReadyPcbs :
          /\ Sorted(ReadyOnNext) \in Seq(ReadyPcbs) /\ Sorted(ReadyOnNext) # << >>
          /\ Elements(Sorted(ReadyOnNext)) = Elements(ReadyOnNext)
          /\ p = Head(Sorted(ReadyOnNext))
          /\ running_process' = {SetRunning(p)}
          /\ ready_processes' = Tail(Sorted(ReadyOnNext))
          /\ waiting_processes' = WaitingOnNext
    BY <1>7, DispatchStep
  <2>2. Elements(ReadyOnNext) = {p} \cup Elements(ready_processes')
    BY <2>1, ElementsHeadTail
  <2>3. SetRunning(p).vruntime = p.vruntime
    BY DEF SetRunning, ReadyPcbs, CfsPcb
  <2>4. Live' = {SetRunning(p)} \cup Elements(ready_processes') \cup Elements(WaitingOnNext)
    BY <2>1 DEF Live
  <2> QED
    BY <1>5, <2>2, <2>3, <2>4 DEF NotBehindNow, NotBehind
<1>8. CASE ~ DecideDispatch
  <2>1. /\ running_process' = running_process
        /\ ready_processes' = ReadyOnNext /\ waiting_processes' = WaitingOnNext
    BY <1>8 DEF NextDecision, DecideDone, DecidePanic, DecideContinue, DecideSleep,
                DecideDeadlock, Halt
  <2>2. Live' = running_process \cup onNext
    BY <2>1 DEF Live
  <2> QED
    BY <1>5, <1>6, <2>2 DEF NotBehindNow, NotBehind
<1> QED
  BY <1>7, <1>8

(***************************************************************************)
(* Whatever forks, sleeps and signals there are, the least vruntime never  *)
(* falls: no process comes in, or comes back, behind all the others.       *)
(***************************************************************************)
THEOREM LeastStays == Spec => LeastNeverFalls
<1>1. Coherent /\ [Next]_vars => [NotBehindNow]_vars
  <2>1. Halted => UNCHANGED vars
    BY DEF Halted
  <2> QED
    BY <2>1, StopNotBehind, NextNotBehind DEF Next
<1>2. Spec => [][NotBehindNow]_vars
  BY <1>1, Coherence, PTL DEF Spec
<1> QED
  BY <1>2 DEF LeastNeverFalls, NotBehindNow, NotBehind

-----------------------------------------------------------------------------
(***************************************************************************)
(* next() always answers.  It calls exit(-1) when a process would go on for*)
(* no time, or when the shortest sleep is 0, and it divides by the minimum *)
(* remaining timeslice; nothing of that happens if the minimum is not 0 and*)
(* nobody asks to sleep for 0.                                             *)
(***************************************************************************)
PositiveTimes == MinimumRemainingTimeslice # 0 /\ 0 \notin SleepTimes

CountdownPcbs == {p \in PassedPcbs : p.wakeup.kind = "Sleep" => p.wakeup.arg # 0}

TimeIsLeft ==
  /\ waiting_processes \in Seq(CountdownPcbs)
  /\ running_process # {} => remaining_time # 0
  /\ NeverAborts

\* A sleep that has not run out has some time left, whatever passes.
LEMMA CountdownLists ==
  ASSUME NEW w \in Seq(WaitingPcbs), w \in Seq(CountdownPcbs), NEW time \in Nat
  PROVE  /\ Elapsed(w, time) \in Seq(CountdownPcbs)
         /\ \A event : Notified(Elapsed(w, time), event) \in Seq(CountdownPcbs)
<1>1. \A p \in CfsPcb : SetReady(p) \in CountdownPcbs
  <2> SUFFICES ASSUME NEW p \in CfsPcb PROVE SetReady(p) \in CountdownPcbs
    OBVIOUS
  <2>1. SetReady(p) \in ReadyPcbs
    BY PcbOperations
  <2> QED
    BY <2>1, Kinds DEF CountdownPcbs, PassedPcbs, ReadyPcbs, Parked
<1>2. ASSUME NEW p \in WaitingPcbs, p \in CountdownPcbs PROVE Elapse(p, time) \in CountdownPcbs
  <2>1. p \in CfsPcb /\ Elapse(p, time) \in PassedPcbs
    BY ElapseWaiting DEF WaitingPcbs
  <2>2. CASE p.wakeup.kind = "Sleep" /\ p.wakeup.arg > time
    <3>1. Elapse(p, time).wakeup = SleepWakeup(p.wakeup.arg - time)
      BY <2>1, <2>2 DEF Elapse, CfsPcb
    <3>2. p.wakeup.arg - time # 0
      BY <2>1, <2>2 DEF CfsPcb, WakeupCondition
    <3> QED
      BY <2>1, <3>1, <3>2 DEF CountdownPcbs, SleepWakeup
  <2> QED
    BY <1>1, <1>2, <2>1, <2>2 DEF Elapse
<1>3. ASSUME NEW p \in CountdownPcbs, NEW event PROVE Notify(p, event) \in CountdownPcbs
  BY <1>1 DEF Notify, CountdownPcbs, PassedPcbs
<1>4. Elapsed(w, time) \in Seq(CountdownPcbs)
  <2>1. \A i \in DOMAIN w : w[i] \in WaitingPcbs /\ w[i] \in CountdownPcbs
    OBVIOUS
  <2>2. \A i \in DOMAIN w : Elapsed(w, time)[i] \in CountdownPcbs
    BY <1>2, <2>1 DEF Elapsed
  <2>3. Elapsed(w, time) = [i \in DOMAIN w |-> Elapsed(w, time)[i]]
    BY DEF Elapsed
  <2> QED
    BY <2>2, <2>3, MappedType
<1>5. ASSUME NEW list \in Seq(CountdownPcbs), NEW event
      PROVE  Notified(list, event) \in Seq(CountdownPcbs)
  <2>1. \A i \in DOMAIN list : Notified(list, event)[i] \in CountdownPcbs
    BY <1>3 DEF Notified
  <2>2. Notified(list, event) = [i \in DOMAIN list |-> Notified(list, event)[i]]
    BY DEF Notified
  <2> QED
    BY <2>1, <2>2, MappedType
<1> QED
  BY <1>4, <1>5

\* Nobody who waits still has a sleep of 0 after a call.
LEMMA CountdownStays ==
  ASSUME NEW list \in Seq(CountdownPcbs)
  PROVE  StillWaiting(list) \in Seq(CountdownPcbs)
<1>1. {p \in CountdownPcbs : p.state # Ready} \subseteq CountdownPcbs
  OBVIOUS
<1> QED
  BY <1>1, WakeupType, SeqMonotonic

\* The process goes on only for at least the minimum.
LEMMA ContinueTime ==
  ASSUME PositiveTimes, NEW p, NEW q \in Seq(ReadyPcbs), NEW remaining \in 0..Longest,
         ContinueOrYield(p, q, remaining)
  PROVE  running_process' # {} => remaining_time' # 0
<1>1. MinimumRemainingTimeslice \in Nat \ {0} /\ Longest \in Nat
  BY CfsAssumption DEF PositiveTimes, Longest
<1> DEFINE rest == RestOfTimeslice(Size(q, {p}, {}), remaining)
<1>2. /\ rest \in 0..Longest
      /\ LongEnough(remaining) => rest >= MinimumRemainingTimeslice
  BY SizeOfAll, RestIsShorter
<1>3. LongEnough(remaining) => rest # 0
  BY <1>1, <1>2
<1> QED
  BY <1>3 DEF ContinueOrYield, Yield

LEMMA StopTime ==
  ASSUME PositiveTimes, Coherent, TimeIsLeft, Stop
  PROVE  TimeIsLeft'
<1>1. waiting_processes \in Seq(WaitingPcbs) /\ waiting_processes \in Seq(CountdownPcbs)
  BY DEF Coherent, Placed, TimeIsLeft
<1>2. ASSUME NEW time \in Nat
      PROVE  /\ WaitingAfter(time) \in Seq(CountdownPcbs)
             /\ StillWaiting(WaitingAfter(time)) \in Seq(CountdownPcbs)
             /\ \A event : StillWaiting(Notified(WaitingAfter(time), event)) \in Seq(CountdownPcbs)
  BY <1>1, CountdownLists, CountdownStays DEF WaitingAfter
<1>3. ASSUME waiting_processes' \in Seq(CountdownPcbs), decision' = Outcome("Stopped"),
             running_process' # {} => remaining_time' # 0
      PROVE  TimeIsLeft'
  BY <1>3 DEF TimeIsLeft, NeverAborts, Outcome
<1>4. CASE Start
  BY <1>1, <1>3, <1>4 DEF Start, Coherent, Nothing
<1>5. CASE Expired
  <2>1. remaining_time \in Nat
    BY CfsAssumption DEF Coherent, Longest
  <2> QED
    BY <1>2, <1>3, <1>5, <2>1 DEF Expired, Yield
<1>6. ASSUME NEW remaining \in Remaining
      PROVE  remaining_time - remaining \in Nat /\ remaining \in 0..Longest
  BY RemainingStep DEF Coherent
<1>7. ASSUME NEW remaining \in Remaining, Fork(remaining) PROVE TimeIsLeft'
  <2>1. PICK p \in running_process, new \in ReadyPcbs, time \in Nat, queue \in Seq(ReadyPcbs) :
          /\ ContinueOrYield(Charge(p, time), Append(queue, new), remaining)
          /\ waiting_processes' = StillWaiting(WaitingAfter(time))
    BY <1>7, ForkStep
  <2>2. Append(queue, new) \in Seq(ReadyPcbs)
    OBVIOUS
  <2>3. running_process' # {} => remaining_time' # 0
    BY <1>6, <2>1, <2>2, ContinueTime
  <2>4. waiting_processes' \in Seq(CountdownPcbs)
    BY <1>2, <2>1
  <2> QED
    BY <1>3, <1>7, <2>3, <2>4 DEF Fork
<1>8. ASSUME NEW remaining \in Remaining, NEW event, Signal(event, remaining) PROVE TimeIsLeft'
  <2> DEFINE time == remaining_time - remaining
             passed == Notified(WaitingAfter(time), event)
             queue == ready_processes \o Woken(passed)
  <2>1. PICK p \in running_process :
          /\ ContinueOrYield(Charge(p, time), queue, remaining)
          /\ waiting_processes' = StillWaiting(passed)
    BY <1>8 DEF Signal
  <2>2. time \in Nat
    BY <1>6
  <2> HIDE DEF time
  <2>3. Calls(p, ready_processes, waiting_processes, highest_pid)
    BY <1>8, <2>1, RunningStep DEF Signal
  <2>4. queue \in Seq(ReadyPcbs)
    BY <2>2, <2>3, SignalPasses DEF Calls, WaitingAfter
  <2>5. waiting_processes' \in Seq(CountdownPcbs)
    BY <1>2, <2>1, <2>2
  <2> HIDE DEF queue
  <2>6. running_process' # {} => remaining_time' # 0
    BY <1>6, <2>1, <2>4, ContinueTime
  <2> QED
    BY <1>3, <1>8, <2>5, <2>6 DEF Signal
<1>9. ASSUME NEW remaining \in Remaining, Exit(remaining) PROVE TimeIsLeft'
  BY <1>2, <1>3, <1>6, <1>9 DEF Exit
<1>10. ASSUME NEW remaining \in Remaining, NEW asleep \in CountdownPcbs,
              asleep \in WaitingPcbs,
              Block(asleep, remaining_time - remaining), running_process' = {},
              decision' = Outcome("Stopped")
       PROVE  TimeIsLeft'
  <2> DEFINE time == remaining_time - remaining
             charged == Charge(asleep, time)
  <2>1. time \in Nat
    BY <1>6
  <2> HIDE DEF time
  <2>2. charged \in WaitingPcbs /\ charged.wakeup = asleep.wakeup
    <3>1. charged \in WaitingPcbs
      BY <1>10, <2>1, ChargeWaiting
    <3>2. asleep \in CfsPcb
      BY <1>10 DEF WaitingPcbs
    <3>3. charged.wakeup = asleep.wakeup
      BY <2>1, <3>2, PcbOperations
    <3> QED
      BY <3>1, <3>3
  <2>3. charged \in CountdownPcbs
    BY <2>2 DEF CountdownPcbs, PassedPcbs, WaitingPcbs
  <2>4. waiting_processes' = Append(StillWaiting(WaitingAfter(time)), charged)
    BY <1>10 DEF Block, time
  <2> HIDE DEF charged
  <2>5. waiting_processes' \in Seq(CountdownPcbs)
    BY <1>2, <2>1, <2>3, <2>4
  <2> QED
    BY <1>3, <1>10, <2>5
<1>11. ASSUME NEW p \in running_process, decision.kind = "Run"
       PROVE  /\ \A time \in SleepTimes :
                   PutToSleep(p, time) \in WaitingPcbs /\ PutToSleep(p, time) \in CountdownPcbs
              /\ \A event \in Events :
                   AwaitEvent(p, event) \in WaitingPcbs /\ AwaitEvent(p, event) \in CountdownPcbs
  <2>1. p \in CfsPcb /\ WaitingPcbs \subseteq PassedPcbs
    BY <1>11, RunningStep DEF WaitingPcbs, PassedPcbs
  <2>2. ASSUME NEW time \in SleepTimes
        PROVE  PutToSleep(p, time) \in WaitingPcbs /\ PutToSleep(p, time).wakeup.arg # 0
    <3>1. time # 0 /\ time \in Nat
      BY CfsAssumption DEF PositiveTimes
    <3> QED
      BY <2>1, <3>1, PcbOperations DEF PutToSleep, SleepWakeup, CfsPcb
  <2>3. ASSUME NEW event \in Events
        PROVE  AwaitEvent(p, event) \in WaitingPcbs /\ AwaitEvent(p, event).wakeup.kind # "Sleep"
    BY <2>1, PcbOperations DEF AwaitEvent, SignalWakeup, CfsPcb
  <2> QED
    BY <2>1, <2>2, <2>3 DEF CountdownPcbs
<1>12. ASSUME NEW remaining \in Remaining, NEW time \in SleepTimes, Sleep(time, remaining)
       PROVE  TimeIsLeft'
  BY <1>10, <1>11, <1>12 DEF Sleep
<1>13. ASSUME NEW remaining \in Remaining, NEW event \in Events, Wait(event, remaining)
       PROVE  TimeIsLeft'
  BY <1>10, <1>11, <1>13 DEF Wait
<1> QED
  BY <1>4, <1>5, <1>7, <1>8, <1>9, <1>12, <1>13 DEF Stop

LEMMA NextDecisionTime ==
  ASSUME PositiveTimes, Coherent, TimeIsLeft, NextDecision
  PROVE  TimeIsLeft'
<1>1. WaitingOnNext \in Seq(CountdownPcbs)
  <2>1. /\ waiting_processes \in Seq(WaitingPcbs) /\ waiting_processes \in Seq(CountdownPcbs)
        /\ sleep_time \in Nat
    BY DEF Coherent, Placed, TimeIsLeft
  <2> QED
    BY <2>1, CountdownLists, CountdownStays DEF WaitingOnNext, WaitingAfter
<1>2. waiting_processes' = WaitingOnNext
  BY DispatchStep DEF NextDecision, DecideDone, DecidePanic, DecideContinue, DecideDispatch,
       DecideSleep, DecideDeadlock, Halt
<1>3. CASE DecideDone \/ DecidePanic \/ DecideDeadlock
  BY <1>1, <1>2, <1>3
     DEF DecideDone, DecidePanic, DecideDeadlock, Halt, TimeIsLeft, NeverAborts, Outcome
<1>4. CASE DecideContinue
  BY <1>1, <1>2, <1>4 DEF DecideContinue, TimeIsLeft, NeverAborts, NonZero, RunFor
<1>5. CASE DecideDispatch
  <2>1. PICK p \in ReadyPcbs, timeslice \in 0..Longest :
          /\ Sorted(ReadyOnNext) \in Seq(ReadyPcbs) /\ Sorted(ReadyOnNext) # << >>
          /\ timeslice = ComputeTimeslice(Len(Sorted(ReadyOnNext)))
          /\ remaining_time' = timeslice
          /\ decision' = NonZero(timeslice, RunFor(p.pid, timeslice))
    BY <1>5, DispatchStep
  <2>2. Len(Sorted(ReadyOnNext)) \in Nat \ {0}
    BY <2>1
  <2>3. timeslice >= MinimumRemainingTimeslice /\ MinimumRemainingTimeslice \in Nat \ {0}
    BY <2>1, <2>2, TimesliceShare, CfsAssumption DEF PositiveTimes
  <2>4. timeslice # 0
    BY <2>3
  <2> QED
    BY <1>1, <1>2, <2>1, <2>4 DEF TimeIsLeft, NeverAborts, NonZero, RunFor
<1>6. CASE DecideSleep
  <2>1. PICK time \in FindSleepTime(WaitingOnNext) : decision' = NonZero(time, SleepFor(time))
    BY <1>6 DEF DecideSleep
  <2>2. time # 0
    BY <1>1, <2>1 DEF FindSleepTime, SleepingTimes, CountdownPcbs
  <2>3. running_process' = {}
    BY <1>6 DEF DecideSleep, NobodyToRun
  <2> QED
    BY <1>1, <1>2, <2>1, <2>2, <2>3 DEF TimeIsLeft, NeverAborts, NonZero, SleepFor
<1> QED
  BY <1>3, <1>4, <1>5, <1>6 DEF NextDecision

(***************************************************************************)
(* With these assumptions on the configuration and the programs no call    *)
(* ends the program, by exit(-1) or a division by 0, whatever the shares.  *)
(***************************************************************************)
THEOREM NoAbort ==
  ASSUME PositiveTimes
  PROVE  Spec => []NeverAborts
<1>1. Init => TimeIsLeft
  BY DEF Init, TimeIsLeft, NeverAborts, Outcome
<1>2. Coherent /\ TimeIsLeft /\ [Next]_vars => TimeIsLeft'
  <2>1. ASSUME TimeIsLeft, UNCHANGED vars PROVE TimeIsLeft'
    BY <2>1 DEF vars, TimeIsLeft, NeverAborts
  <2> QED
    BY <2>1, StopTime, NextDecisionTime DEF Next, Halted
<1>3. TimeIsLeft => NeverAborts
  BY DEF TimeIsLeft
<1> QED
  BY <1>1, <1>2, <1>3, Coherence, PTL DEF Spec

=============================================================================
