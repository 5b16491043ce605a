---------------------------- MODULE PcbTheorems ----------------------------
(***************************************************************************)
(* What the operators of module Pcb return, for every list of PCBs.  The   *)
(* schedulers wake processes by splitting their waiting list in two; the   *)
(* theorems at the end say that the two parts have each process of the list*)
(* once between them, in the order of the list.                            *)
(***************************************************************************)
EXTENDS Pcb, SequenceTheorems, WellFoundedInduction, TLAPS

-----------------------------------------------------------------------------
(* Induction, over a set of numbers. *)

LessThan == OpToRel(<, Nat)

\* The order of the natural numbers as a set of pairs.
LEMMA LessThanDefinition == LessThan = {ss \in Nat \X Nat : ss[1] < ss[2]}
BY Zenon DEF LessThan, OpToRel

\* A set of natural numbers that is not empty has a least element.
LEMMA LeastElement ==
  ASSUME NEW T, T \subseteq Nat, T # {}
  PROVE  \E n \in T : \A k \in T : n <= k
<1>1. IsWellFoundedOn(LessThan, Nat)
  BY NatLessThanWellFounded, Zenon DEF LessThan
<1>2. PICK n \in T : \A k \in T : ~(<<k, n>> \in LessThan)
  BY <1>1, WFMin
<1>3. ASSUME NEW k \in T PROVE n <= k
  <2>1. ~(<<k, n>> \in {ss \in Nat \X Nat : ss[1] < ss[2]})
    BY <1>2, LessThanDefinition
  <2> QED
    BY <2>1
<1> QED
  BY <1>3

\* Induction up to n, for a property given as the set of its numbers.
LEMMA InductionUpTo ==
  ASSUME NEW n \in Nat, NEW T,
         0 \in T,
         \A i \in 0..(n - 1) : i \in T => i + 1 \in T
  PROVE  0..n \subseteq T
<1> DEFINE Missing == {i \in 0..n : i \notin T}
<1> SUFFICES ASSUME Missing # {} PROVE FALSE
  OBVIOUS
<1>1. PICK m \in Missing : \A k \in Missing : m <= k
  <2>1. Missing \subseteq Nat
    OBVIOUS
  <2> HIDE DEF Missing
  <2> QED
    BY <2>1, LeastElement
<1>2. m \in 0..n /\ m # 0 /\ m - 1 \in 0..(n - 1)
  BY <1>1
<1>3. m - 1 \in T
  BY <1>1, <1>2
<1>4. m \in T
  BY <1>2, <1>3
<1> QED
  BY <1>1, <1>4

-----------------------------------------------------------------------------
(* Filter. *)

\* One step of the recursion in Filter.
Taken(list, kept, i, sofar) ==
  IF list[i] \in kept THEN Append(sofar, list[i]) ELSE sofar

IsFilterUpTo(f, list, kept, n) ==
  /\ f = [i \in 0..n |-> f[i]]
  /\ f[0] = << >>
  /\ \A i \in 1..n : f[i] = Taken(list, kept, i, f[i-1])

\* The recursion that defines Filter has a solution.
LEMMA FilterFunctionExists ==
  ASSUME NEW list, NEW kept, NEW n \in Nat
  PROVE  \E f : IsFilterUpTo(f, list, kept, n)
<1> DEFINE T == {m \in Nat : \E f : IsFilterUpTo(f, list, kept, m)}
<1>1. 0 \in T
  <2>1. IsFilterUpTo([i \in 0..0 |-> << >>], list, kept, 0)
    BY DEF IsFilterUpTo
  <2> QED
    BY <2>1
<1>2. ASSUME NEW m \in 0..(n - 1), m \in T
      PROVE  m + 1 \in T
  <2>1. PICK f : IsFilterUpTo(f, list, kept, m)
    BY <1>2
  <2> DEFINE g == [i \in 0..(m + 1) |->
                     IF i <= m THEN f[i] ELSE Taken(list, kept, m + 1, f[m])]
  <2>2. g[0] = << >>
    BY <2>1 DEF IsFilterUpTo
  <2>3. ASSUME NEW i \in 1..(m + 1) PROVE g[i] = Taken(list, kept, i, g[i-1])
    <3>1. CASE i = m + 1
      <4>1. g[i] = Taken(list, kept, m + 1, f[m]) /\ g[i-1] = f[m]
        BY <3>1
      <4> QED BY <4>1, <3>1
    <3>2. CASE i \in 1..m
      <4>1. g[i] = f[i] /\ g[i-1] = f[i-1]
        BY <3>2
      <4>2. f[i] = Taken(list, kept, i, f[i-1])
        BY <2>1, <3>2 DEF IsFilterUpTo
      <4> QED BY <4>1, <4>2
    <3> QED BY <3>1, <3>2
  <2>4. g = [i \in 0..(m + 1) |-> g[i]]
    OBVIOUS
  <2> HIDE DEF g
  <2>5. IsFilterUpTo(g, list, kept, m + 1)
    BY <2>2, <2>3, <2>4 DEF IsFilterUpTo
  <2> QED
    BY <2>5
<1>3. 0..n \subseteq T
  <2> HIDE DEF T
  <2> QED BY <1>1, <1>2, InductionUpTo
<1> QED
  BY <1>3

\* Filter is the last value of a function that satisfies the recursion.
LEMMA FilterDefinition ==
  ASSUME NEW list, NEW kept, Len(list) \in Nat
  PROVE  \E f : /\ IsFilterUpTo(f, list, kept, Len(list))
                /\ Filter(list, kept) = f[Len(list)]
<1> DEFINE n == Len(list)
           Step(g) == [i \in 0..n |->
                         IF i = 0 THEN << >>
                         ELSE IF list[i] \in kept THEN Append(g[i-1], list[i])
                              ELSE g[i-1]]
           f == CHOOSE g : g = Step(g)
<1>1. PICK h : IsFilterUpTo(h, list, kept, n)
  BY FilterFunctionExists
<1>2. h = Step(h)
  <2>1. ASSUME NEW i \in 0..n PROVE h[i] = Step(h)[i]
    BY <1>1 DEF IsFilterUpTo, Taken
  <2> QED
    BY <1>1, <2>1 DEF IsFilterUpTo
<1>3. f = Step(f)
  BY <1>2
<1>4. Filter(list, kept) = f[n]
  BY DEF Filter
<1> HIDE DEF f
<1>5. f[0] = << >>
  BY <1>3
<1>6. ASSUME NEW i \in 1..n PROVE f[i] = Taken(list, kept, i, f[i-1])
  <2>1. i \in 0..n /\ i # 0
    OBVIOUS
  <2>2. f[i] = Step(f)[i]
    BY <1>3
  <2> QED
    BY <2>1, <2>2 DEF Taken
<1>7. f = [i \in 0..n |-> f[i]]
  BY <1>3
<1>8. IsFilterUpTo(f, list, kept, n)
  BY <1>5, <1>6, <1>7 DEF IsFilterUpTo
<1> QED
  BY <1>4, <1>8

(***************************************************************************)
(* `at' says where in the first n places of `list' each element of `out'   *)
(* comes from: they are those in `kept', all of them, in their order.      *)
(***************************************************************************)
Picks(at, out, list, kept, n) ==
  /\ at \in [1..Len(out) -> 1..n]
  /\ \A k \in 1..Len(out) : out[k] = list[at[k]] /\ list[at[k]] \in kept
  /\ \A k, l \in 1..Len(out) : k < l => at[k] < at[l]
  /\ \A i \in 1..n : list[i] \in kept => \E k \in 1..Len(out) : at[k] = i

\* One more place that is not kept, and one more that is.
LEMMA PicksSkip ==
  ASSUME NEW S, NEW list, NEW kept, NEW n \in Nat, NEW out \in Seq(S), NEW at,
         Picks(at, out, list, kept, n), list[n+1] \notin kept
  PROVE  Picks(at, out, list, kept, n + 1)
<1>1. at \in [1..Len(out) -> 1..(n + 1)]
  BY DEF Picks
<1>2. ASSUME NEW i \in 1..(n + 1), list[i] \in kept
      PROVE  \E k \in 1..Len(out) : at[k] = i
  <2>1. i \in 1..n
    BY <1>2
  <2> QED
    BY <2>1, <1>2 DEF Picks
<1> QED
  BY <1>1, <1>2 DEF Picks

\* One more place of the list is looked at, and its process kept.
LEMMA PicksTake ==
  ASSUME NEW S, NEW list, NEW kept, NEW n \in Nat, NEW out \in Seq(S), NEW at,
         Picks(at, out, list, kept, n), list[n+1] \in kept, list[n+1] \in S
  PROVE  \E more : Picks(more, Append(out, list[n+1]), list, kept, n + 1)
<1> DEFINE m == Len(out)
           all == Append(out, list[n+1])
           more == [k \in 1..(m + 1) |-> IF k <= m THEN at[k] ELSE n + 1]
<1>1. m \in Nat /\ Len(all) = m + 1 /\ all[m+1] = list[n+1]
  OBVIOUS
<1>2. \A k \in 1..m : all[k] = out[k]
  OBVIOUS
<1>3. more[m+1] = n + 1 /\ \A k \in 1..m : more[k] = at[k]
  BY <1>1
<1>4. \A k \in 1..m : at[k] \in 1..n
  BY <1>1 DEF Picks
<1>5. more \in [1..(m + 1) -> 1..(n + 1)]
  BY <1>1, <1>4
<1> HIDE DEF more, all, m
<1>6. ASSUME NEW k \in 1..(m + 1)
      PROVE  all[k] = list[more[k]] /\ list[more[k]] \in kept
  <2>1. CASE k = m + 1
    BY <2>1, <1>1, <1>3
  <2>2. CASE k \in 1..m
    BY <2>2, <1>2, <1>3 DEF Picks, m
  <2> QED
    BY <2>1, <2>2, <1>1
<1>7. ASSUME NEW k \in 1..(m + 1), NEW l \in 1..(m + 1), k < l
      PROVE  more[k] < more[l]
  <2>1. k \in 1..m
    BY <1>1, <1>7
  <2>2. CASE l = m + 1
    BY <2>1, <2>2, <1>3, <1>4
  <2>3. CASE l \in 1..m
    BY <2>1, <2>3, <1>3, <1>7 DEF Picks, m
  <2> QED
    BY <2>2, <2>3, <1>1
<1>8. ASSUME NEW i \in 1..(n + 1), list[i] \in kept
      PROVE  \E k \in 1..(m + 1) : more[k] = i
  <2>1. CASE i = n + 1
    BY <2>1, <1>1, <1>3
  <2>2. CASE i \in 1..n
    <3>1. PICK k \in 1..m : at[k] = i
      BY <2>2, <1>8 DEF Picks, m
    <3> QED
      BY <3>1, <1>1, <1>3
  <2> QED
    BY <2>1, <2>2
<1>9. Picks(more, all, list, kept, n + 1)
  BY <1>1, <1>5, <1>6, <1>7, <1>8 DEF Picks
<1> QED
  BY <1>9 DEF all

\* Filter returns the elements of a list that are kept, once each, in order.
THEOREM FilterPicks ==
  ASSUME NEW S, NEW list \in Seq(S), NEW kept
  PROVE  /\ Filter(list, kept) \in Seq(S)
         /\ \E at : Picks(at, Filter(list, kept), list, kept, Len(list))
<1> DEFINE n == Len(list)
<1>1. n \in Nat
  OBVIOUS
<1>2. PICK f : IsFilterUpTo(f, list, kept, n) /\ Filter(list, kept) = f[n]
  BY <1>1, FilterDefinition
<1> DEFINE T == {i \in Nat : f[i] \in Seq(S) /\ \E at : Picks(at, f[i], list, kept, i)}
<1>3. 0 \in T
  <2>1. f[0] = << >>
    BY <1>2 DEF IsFilterUpTo
  <2>2. \E at : Picks(at, f[0], list, kept, 0)
    <3>1. Picks(<< >>, << >>, list, kept, 0)
      BY DEF Picks
    <3> QED
      BY <2>1, <3>1
  <2>3. f[0] \in Seq(S)
    BY <2>1
  <2> QED
    BY <2>2, <2>3
<1>4. ASSUME NEW i \in 0..(n - 1), i \in T PROVE i + 1 \in T
  <2>1. i \in Nat /\ i + 1 \in 1..n /\ (i + 1) - 1 = i
    BY <1>1
  <2>2. f[i+1] = Taken(list, kept, i + 1, f[i])
    BY <2>1, <1>2 DEF IsFilterUpTo
  <2>3. list[i+1] \in S
    BY <2>1
  <2>4. PICK at : f[i] \in Seq(S) /\ Picks(at, f[i], list, kept, i)
    BY <1>4
  <2>5. CASE list[i+1] \in kept
    <3>1. f[i+1] = Append(f[i], list[i+1])
      BY <2>2, <2>5 DEF Taken
    <3>2. \E more : Picks(more, Append(f[i], list[i+1]), list, kept, i + 1)
      BY <2>1, <2>3, <2>4, <2>5, PicksTake
    <3>3. Append(f[i], list[i+1]) \in Seq(S)
      BY <2>3, <2>4
    <3>4. f[i+1] \in Seq(S) /\ \E more : Picks(more, f[i+1], list, kept, i + 1)
      BY <3>1, <3>2, <3>3
    <3> QED
      BY <2>1, <3>4
  <2>6. CASE list[i+1] \notin kept
    <3>1. f[i+1] = f[i]
      BY <2>2, <2>6 DEF Taken
    <3>2. Picks(at, f[i], list, kept, i + 1)
      BY <2>1, <2>4, <2>6, PicksSkip
    <3> QED
      BY <2>1, <2>4, <3>1, <3>2
  <2> QED
    BY <2>5, <2>6
<1>5. n \in T
  <2>1. 0..n \subseteq T
    <3> HIDE DEF T, n
    <3> QED BY <1>1, <1>3, <1>4, InductionUpTo
  <2> QED
    BY <2>1, <1>1
<1> QED
  BY <1>2, <1>5

\* Every element of the result is one of the list, and is kept.
THEOREM FilterType ==
  ASSUME NEW S, NEW list \in Seq(S), NEW kept
  PROVE  Filter(list, kept) \in Seq(S \cap kept)
<1>1. PICK at : Picks(at, Filter(list, kept), list, kept, Len(list))
  BY FilterPicks
<1>2. Filter(list, kept) \in Seq(S)
  BY FilterPicks
<1>3. \A k \in 1..Len(Filter(list, kept)) : Filter(list, kept)[k] \in S \cap kept
  BY <1>1, <1>2 DEF Picks
<1> QED
  BY <1>2, <1>3

\* The PIDs of the result: those kept; and no PID comes twice that did not.
THEOREM FilterPids ==
  ASSUME NEW S, NEW list \in Seq(S), NEW kept
  PROVE  /\ Pids(Filter(list, kept)) =
              {list[i].pid : i \in {j \in DOMAIN list : list[j] \in kept}}
         /\ PidsDiffer(list) => PidsDiffer(Filter(list, kept))
<1> DEFINE out == Filter(list, kept)
<1>1. PICK at : Picks(at, out, list, kept, Len(list))
  BY FilterPicks
<1>2. out \in Seq(S)
  BY FilterPicks
<1> HIDE DEF out
<1>3. DOMAIN list = 1..Len(list) /\ DOMAIN out = 1..Len(out) /\ Len(out) \in Nat
  BY <1>2
<1>4. \A k \in DOMAIN out : at[k] \in DOMAIN list /\ out[k] = list[at[k]] /\ list[at[k]] \in kept
  BY <1>1, <1>3 DEF Picks
<1>5. \A i \in DOMAIN list : list[i] \in kept => \E k \in DOMAIN out : out[k] = list[i]
  <2>1. \A i \in DOMAIN list : list[i] \in kept => \E k \in DOMAIN out : at[k] = i
    BY <1>1, <1>3 DEF Picks
  <2> QED
    BY <2>1, <1>4
<1>6. Pids(out) = {list[i].pid : i \in {j \in DOMAIN list : list[j] \in kept}}
  BY <1>4, <1>5 DEF Pids
<1>7. ASSUME PidsDiffer(list), NEW k \in DOMAIN out, NEW l \in DOMAIN out,
             out[k].pid = out[l].pid
      PROVE  k = l
  <2>1. at[k] = at[l] /\ at[k] \in Int
    BY <1>3, <1>4, <1>7 DEF PidsDiffer
  <2>2. ~(k < l) /\ ~(l < k)
    BY <1>1, <1>3, <2>1 DEF Picks
  <2> QED
    BY <2>2, <1>3
<1> QED
  BY <1>6, <1>7 DEF PidsDiffer, out

-----------------------------------------------------------------------------
(* wakeup_processes. *)

\* The woken processes are Ready, the others are not.
THEOREM WakeupType ==
  ASSUME NEW S, NEW list \in Seq(S)
  PROVE  /\ Woken(list) \in Seq({p \in S : p.state = Ready})
         /\ StillWaiting(list) \in Seq({p \in S : p.state # Ready})
<1>1. \A T : Filter(list, T) \in Seq(S \cap T)
  BY FilterType
<1>3. Woken(list) \in Seq(S \cap {p \in Elements(list) : p.state = Ready})
  BY <1>1 DEF Woken
<1>4. StillWaiting(list) \in Seq(S \cap {p \in Elements(list) : p.state # Ready})
  BY <1>1 DEF StillWaiting
<1>5. S \cap {p \in Elements(list) : p.state = Ready} \subseteq {p \in S : p.state = Ready}
  OBVIOUS
<1>6. S \cap {p \in Elements(list) : p.state # Ready} \subseteq {p \in S : p.state # Ready}
  OBVIOUS
<1> QED
  BY <1>3, <1>4, <1>5, <1>6, SeqMonotonic

(***************************************************************************)
(* Waking processes splits the waiting list: each of its processes is in   *)
(* one of the two halves, and in one only if its PID is in the list once.  *)
(***************************************************************************)
THEOREM WakeupPids ==
  ASSUME NEW S, NEW list \in Seq(S)
  PROVE  /\ Pids(Woken(list)) \cup Pids(StillWaiting(list)) = Pids(list)
         /\ PidsDiffer(list) =>
              /\ PidsDiffer(Woken(list))
              /\ PidsDiffer(StillWaiting(list))
              /\ Pids(Woken(list)) \cap Pids(StillWaiting(list)) = {}
<1> DEFINE R == {p \in Elements(list) : p.state = Ready}
           W == {p \in Elements(list) : p.state # Ready}
<1>1. /\ Pids(Woken(list)) = {list[i].pid : i \in {j \in DOMAIN list : list[j] \in R}}
      /\ Pids(StillWaiting(list)) = {list[i].pid : i \in {j \in DOMAIN list : list[j] \in W}}
  BY FilterPids DEF Woken, StillWaiting
<1>2. PidsDiffer(list) => PidsDiffer(Woken(list)) /\ PidsDiffer(StillWaiting(list))
  BY FilterPids DEF Woken, StillWaiting
<1>3. \A i \in DOMAIN list : (list[i] \in R) # (list[i] \in W)
  BY DEF Elements
<1> HIDE DEF R, W
<1>4. Pids(Woken(list)) \cup Pids(StillWaiting(list)) = Pids(list)
  <2>1. \A x : x \in Pids(Woken(list)) <=>
                 \E i \in DOMAIN list : list[i] \in R /\ x = list[i].pid
    BY <1>1
  <2>2. \A x : x \in Pids(StillWaiting(list)) <=>
                 \E i \in DOMAIN list : list[i] \in W /\ x = list[i].pid
    BY <1>1
  <2>3. \A x : x \in Pids(list) <=> \E i \in DOMAIN list : x = list[i].pid
    BY DEF Pids
  <2> QED
    BY <2>1, <2>2, <2>3, <1>3
<1>5. PidsDiffer(list) => Pids(Woken(list)) \cap Pids(StillWaiting(list)) = {}
  BY <1>1, <1>3 DEF PidsDiffer
<1> QED
  BY <1>2, <1>4, <1>5

-----------------------------------------------------------------------------
(* Elapsed and Notified. *)

\* A list made of another, place by place.
LEMMA MappedType ==
  ASSUME NEW S, NEW T, NEW list \in Seq(S), NEW out,
         out = [i \in DOMAIN list |-> out[i]],
         \A i \in DOMAIN list : out[i] \in T
  PROVE  out \in Seq(T) /\ DOMAIN out = DOMAIN list /\ Len(out) = Len(list)
OBVIOUS

\* Its PIDs, if they are the same place by place.
LEMMA MappedPids ==
  ASSUME NEW list, NEW out, DOMAIN out = DOMAIN list,
         \A i \in DOMAIN list : out[i].pid = list[i].pid
  PROVE  /\ Pids(out) = Pids(list)
         /\ PidsDiffer(list) => PidsDiffer(out)
BY DEF Pids, PidsDiffer

\* Time passing for a list leaves the PIDs in it as they are.
THEOREM ElapsedPids ==
  ASSUME NEW list, NEW time, \A i \in DOMAIN list : list[i] \in PcbType
  PROVE  /\ Pids(Elapsed(list, time)) = Pids(list)
         /\ PidsDiffer(list) => PidsDiffer(Elapsed(list, time))
<1>1. DOMAIN Elapsed(list, time) = DOMAIN list
  BY DEF Elapsed
<1>2. ASSUME NEW i \in DOMAIN list PROVE Elapsed(list, time)[i].pid = list[i].pid
  BY DEF Elapsed, Elapse, SetReady, PcbType
<1> QED
  BY <1>1, <1>2, MappedPids

\* So does a signal.
THEOREM NotifiedPids ==
  ASSUME NEW list, NEW event, \A i \in DOMAIN list : list[i] \in PcbType
  PROVE  /\ Pids(Notified(list, event)) = Pids(list)
         /\ PidsDiffer(list) => PidsDiffer(Notified(list, event))
<1>1. DOMAIN Notified(list, event) = DOMAIN list
  BY DEF Notified
<1>2. ASSUME NEW i \in DOMAIN list PROVE Notified(list, event)[i].pid = list[i].pid
  BY DEF Notified, Notify, SetReady, PcbType
<1> QED
  BY <1>1, <1>2, MappedPids

-----------------------------------------------------------------------------
(* The PIDs of longer and of shorter lists. *)

\* A process put at the end adds its PID, and is no duplicate if that is new.
THEOREM AppendPids ==
  ASSUME NEW S, NEW list \in Seq(S), NEW p \in S
  PROVE  /\ Pids(Append(list, p)) = Pids(list) \cup {p.pid}
         /\ PidsDiffer(list) /\ p.pid \notin Pids(list) => PidsDiffer(Append(list, p))
<1> DEFINE n == Len(list)
           longer == Append(list, p)
<1>1. n \in Nat /\ DOMAIN list = 1..n /\ DOMAIN longer = 1..(n + 1)
  OBVIOUS
<1>2. longer[n+1] = p /\ \A i \in 1..n : longer[i] = list[i]
  OBVIOUS
<1> HIDE DEF longer, n
<1>3. Pids(longer) = Pids(list) \cup {p.pid}
  <2>1. \A i \in 1..(n + 1) : longer[i].pid \in Pids(list) \cup {p.pid}
    BY <1>1, <1>2 DEF Pids
  <2>2. \A i \in 1..n : list[i].pid \in Pids(longer)
    BY <1>1, <1>2 DEF Pids
  <2>3. p.pid \in Pids(longer)
    BY <1>1, <1>2 DEF Pids
  <2> QED
    BY <2>1, <2>2, <2>3, <1>1 DEF Pids
<1>4. ASSUME PidsDiffer(list), p.pid \notin Pids(list),
             NEW i \in 1..(n + 1), NEW j \in 1..(n + 1), longer[i].pid = longer[j].pid
      PROVE  i = j
  <2>1. \A k \in 1..n : longer[k].pid # p.pid
    BY <1>1, <1>2, <1>4 DEF Pids
  <2>2. CASE i \in 1..n /\ j \in 1..n
    BY <2>2, <1>1, <1>2, <1>4 DEF PidsDiffer
  <2>3. CASE i = n + 1 \/ j = n + 1
    BY <2>1, <2>3, <1>1, <1>2, <1>4
  <2> QED
    BY <2>2, <2>3, <1>1
<1> QED
  BY <1>1, <1>3, <1>4 DEF PidsDiffer, longer

\* Two lists one after the other have the PIDs of both, once if they share none.
THEOREM ConcatPids ==
  ASSUME NEW S, NEW list \in Seq(S), NEW more \in Seq(S)
  PROVE  /\ Pids(list \o more) = Pids(list) \cup Pids(more)
         /\ /\ PidsDiffer(list)
            /\ PidsDiffer(more)
            /\ Pids(list) \cap Pids(more) = {}
            => PidsDiffer(list \o more)
<1> DEFINE m == Len(list)
           n == Len(more)
           both == list \o more
<1>1. /\ m \in Nat /\ n \in Nat
      /\ DOMAIN list = 1..m /\ DOMAIN more = 1..n /\ DOMAIN both = 1..(m + n)
  OBVIOUS
<1>2. /\ \A i \in 1..m : both[i] = list[i]
      /\ \A i \in (m + 1)..(m + n) : both[i] = more[i - m] /\ i - m \in 1..n
      /\ \A i \in 1..n : both[i + m] = more[i] /\ i + m \in 1..(m + n)
  OBVIOUS
<1> HIDE DEF both, m, n
<1>3. Pids(both) = Pids(list) \cup Pids(more)
  <2>1. \A i \in 1..(m + n) : both[i].pid \in Pids(list) \cup Pids(more)
    <3>1. ASSUME NEW i \in 1..m PROVE both[i].pid \in Pids(list)
      BY <1>1, <1>2 DEF Pids
    <3>2. ASSUME NEW i \in (m + 1)..(m + n) PROVE both[i].pid \in Pids(more)
      BY <1>1, <1>2 DEF Pids
    <3> QED
      BY <3>1, <3>2, <1>1
  <2>2. \A i \in 1..m : list[i].pid \in Pids(both)
    <3>1. \A i \in 1..m : i \in DOMAIN both
      BY <1>1
    <3> QED
      BY <3>1, <1>2 DEF Pids
  <2>3. \A i \in 1..n : more[i].pid \in Pids(both)
    <3> SUFFICES ASSUME NEW i \in 1..n PROVE more[i].pid \in Pids(both)
      OBVIOUS
    <3>1. i + m \in DOMAIN both /\ both[i + m] = more[i]
      BY <1>1, <1>2
    <3> QED
      BY <3>1 DEF Pids
  <2> QED
    BY <2>1, <2>2, <2>3, <1>1 DEF Pids
<1>4. ASSUME PidsDiffer(list), PidsDiffer(more), Pids(list) \cap Pids(more) = {},
             NEW i \in 1..(m + n), NEW j \in 1..(m + n), both[i].pid = both[j].pid
      PROVE  i = j
  <2>1. \A k \in 1..m : both[k].pid \in Pids(list)
    BY <1>1, <1>2 DEF Pids
  <2>2. \A k \in (m + 1)..(m + n) : both[k].pid \in Pids(more)
    BY <1>1, <1>2 DEF Pids
  <2>3. CASE i \in 1..m /\ j \in 1..m
    BY <2>3, <1>1, <1>2, <1>4 DEF PidsDiffer
  <2>4. CASE i \in (m + 1)..(m + n) /\ j \in (m + 1)..(m + n)
    <3>1. more[i - m].pid = more[j - m].pid /\ i - m \in 1..n /\ j - m \in 1..n
      BY <2>4, <1>2, <1>4
    <3>2. i - m = j - m
      BY <3>1, <1>1, <1>4 DEF PidsDiffer
    <3> QED
      BY <3>2, <1>1
  <2>5. (i \in 1..m) <=> (j \in 1..m)
    BY <2>1, <2>2, <1>1, <1>4
  <2> QED
    BY <2>3, <2>4, <2>5, <1>1
<1> QED
  BY <1>1, <1>3, <1>4 DEF PidsDiffer, both

\* The process taken from the front is not in the rest.
THEOREM HeadTailPids ==
  ASSUME NEW S, NEW list \in Seq(S), list # << >>
  PROVE  /\ Pids(list) = Pids(Tail(list)) \cup {Head(list).pid}
         /\ PidsDiffer(list) =>
              PidsDiffer(Tail(list)) /\ Head(list).pid \notin Pids(Tail(list))
<1> DEFINE n == Len(list)
           rest == Tail(list)
<1>1. /\ n \in Nat \ {0}
      /\ DOMAIN list = 1..n /\ DOMAIN rest = 1..(n - 1)
  OBVIOUS
<1>2. /\ Head(list) = list[1]
      /\ \A i \in 1..(n - 1) : rest[i] = list[i + 1] /\ i + 1 \in 1..n
  OBVIOUS
<1> HIDE DEF rest, n
<1>3. \A i \in 2..n : i - 1 \in 1..(n - 1) /\ rest[i - 1] = list[i]
  BY <1>1, <1>2
<1>4. Pids(list) = Pids(rest) \cup {list[1].pid}
  <2>1. \A i \in 2..n : list[i].pid \in Pids(rest)
    <3> SUFFICES ASSUME NEW i \in 2..n PROVE list[i].pid \in Pids(rest)
      OBVIOUS
    <3>1. i - 1 \in DOMAIN rest /\ rest[i - 1] = list[i]
      BY <1>1, <1>3
    <3> QED
      BY <3>1 DEF Pids
  <2>2. \A i \in DOMAIN rest : rest[i].pid \in Pids(list)
    BY <1>1, <1>2 DEF Pids
  <2>3. 1 \in DOMAIN list /\ \A i \in DOMAIN list : i = 1 \/ i \in 2..n
    BY <1>1
  <2> QED
    BY <2>1, <2>2, <2>3 DEF Pids
<1>5. ASSUME PidsDiffer(list)
      PROVE  PidsDiffer(rest) /\ list[1].pid \notin Pids(rest)
  <2>1. ASSUME NEW i \in DOMAIN rest, NEW j \in DOMAIN rest, rest[i].pid = rest[j].pid
        PROVE  i = j
    <3>1. i + 1 = j + 1
      BY <2>1, <1>1, <1>2, <1>5 DEF PidsDiffer
    <3> QED
      BY <3>1, <2>1, <1>1
  <2>2. ASSUME NEW i \in DOMAIN rest PROVE rest[i].pid # list[1].pid
    <3>1. i + 1 # 1 /\ i + 1 \in DOMAIN list /\ 1 \in DOMAIN list
      BY <1>1, <1>2
    <3> QED
      BY <3>1, <1>1, <1>2, <1>5 DEF PidsDiffer
  <2> QED
    BY <2>1, <2>2 DEF PidsDiffer, Pids
<1> QED
  BY <1>2, <1>4, <1>5 DEF rest

-----------------------------------------------------------------------------
(* The PCBs of a list, as a set. *)

\* The PIDs of a list are those of its elements.
LEMMA ElementsPids ==
  ASSUME NEW list
  PROVE  Pids(list) = {p.pid : p \in Elements(list)}
BY DEF Pids, Elements

LEMMA ElementsType ==
  ASSUME NEW S, NEW list \in Seq(S)
  PROVE  Elements(list) \subseteq S
BY DEF Elements

\* The elements of a list when one is put at its end,
LEMMA ElementsAppend ==
  ASSUME NEW S, NEW list \in Seq(S), NEW p \in S
  PROVE  Elements(Append(list, p)) = Elements(list) \cup {p}
<1> DEFINE n == Len(list)
           longer == Append(list, p)
<1>1. n \in Nat /\ DOMAIN list = 1..n /\ DOMAIN longer = 1..(n + 1)
  OBVIOUS
<1>2. longer[n+1] = p /\ \A i \in 1..n : longer[i] = list[i]
  OBVIOUS
<1> HIDE DEF n, longer
<1> QED
  BY <1>1, <1>2 DEF Elements, longer

\* when another list is put at its end,
LEMMA ElementsConcat ==
  ASSUME NEW S, NEW list \in Seq(S), NEW more \in Seq(S)
  PROVE  Elements(list \o more) = Elements(list) \cup Elements(more)
<1> DEFINE m == Len(list)
           n == Len(more)
           both == list \o more
<1>1. /\ m \in Nat /\ n \in Nat
      /\ DOMAIN list = 1..m /\ DOMAIN more = 1..n /\ DOMAIN both = 1..(m + n)
  OBVIOUS
<1>2. /\ \A i \in 1..m : both[i] = list[i]
      /\ \A i \in 1..n : both[m + i] = more[i]
  OBVIOUS
<1> HIDE DEF m, n, both
<1>3. ASSUME NEW i \in 1..(m + n) PROVE both[i] \in Elements(list) \cup Elements(more)
  <2>1. CASE i \in 1..m
    BY <1>1, <1>2, <2>1 DEF Elements
  <2>2. CASE i \notin 1..m
    <3>1. i - m \in 1..n /\ m + (i - m) = i
      BY <1>1, <2>2
    <3> QED
      BY <1>1, <1>2, <3>1 DEF Elements
  <2> QED
    BY <2>1, <2>2
<1>4. ASSUME NEW i \in 1..m PROVE list[i] \in Elements(both)
  BY <1>1, <1>2 DEF Elements
<1>5. ASSUME NEW i \in 1..n PROVE more[i] \in Elements(both)
  <2>1. m + i \in 1..(m + n)
    BY <1>1
  <2> QED
    BY <1>1, <1>2, <2>1 DEF Elements
<1> QED
  BY <1>1, <1>3, <1>4, <1>5 DEF Elements, both

\* and of its first and the rest.
LEMMA ElementsHeadTail ==
  ASSUME NEW S, NEW list \in Seq(S), list # << >>
  PROVE  Elements(list) = {Head(list)} \cup Elements(Tail(list))
<1> DEFINE n == Len(list)
           rest == Tail(list)
<1>1. n \in Nat \ {0} /\ DOMAIN list = 1..n /\ DOMAIN rest = 1..(n - 1) /\ list[1] = Head(list)
  OBVIOUS
<1>2. \A i \in 1..(n - 1) : rest[i] = list[i + 1] /\ i + 1 \in 1..n
  OBVIOUS
<1> HIDE DEF n, rest
<1>3. ASSUME NEW i \in 1..n PROVE list[i] \in {Head(list)} \cup Elements(rest)
  <2>1. CASE i = 1
    BY <1>1, <2>1
  <2>2. CASE i # 1
    <3>1. i - 1 \in 1..(n - 1) /\ (i - 1) + 1 = i
      BY <1>1, <2>2
    <3> QED
      BY <1>1, <1>2, <3>1 DEF Elements
  <2> QED
    BY <2>1, <2>2
<1>4. ASSUME NEW i \in 1..(n - 1) PROVE rest[i] \in Elements(list)
  BY <1>1, <1>2 DEF Elements
<1>5. Head(list) \in Elements(list)
  BY <1>1 DEF Elements
<1> QED
  BY <1>1, <1>3, <1>4, <1>5 DEF Elements, rest

(***************************************************************************)
(* Filtering a list keeps the PCBs that are in `kept' and no others, for   *)
(* lists of any length: wakeup_processes loses nobody.                     *)
(***************************************************************************)
THEOREM FilterElements ==
  ASSUME NEW S, NEW list \in Seq(S), NEW kept
  PROVE  Elements(Filter(list, kept)) = Elements(list) \cap kept
<1> DEFINE out == Filter(list, kept)
<1>1. PICK at : Picks(at, out, list, kept, Len(list))
  BY FilterPicks
<1>2. out \in Seq(S)
  BY FilterPicks
<1> HIDE DEF out
<1>3. DOMAIN list = 1..Len(list) /\ DOMAIN out = 1..Len(out)
  BY <1>2
<1>4. \A k \in DOMAIN out : at[k] \in DOMAIN list /\ out[k] = list[at[k]] /\ list[at[k]] \in kept
  BY <1>1, <1>3 DEF Picks
<1>5. \A i \in DOMAIN list : list[i] \in kept => \E k \in DOMAIN out : out[k] = list[i]
  <2>1. \A i \in DOMAIN list : list[i] \in kept => \E k \in DOMAIN out : at[k] = i
    BY <1>1, <1>3 DEF Picks
  <2> QED
    BY <2>1, <1>4
<1> QED
  BY <1>4, <1>5 DEF Elements, out

(***************************************************************************)
(* wakeup_processes takes out of the waiting list those that are Ready, all*)
(* of them, and leaves all the others.                                     *)
(***************************************************************************)
THEOREM WakeupElements ==
  ASSUME NEW S, NEW list \in Seq(S)
  PROVE  /\ Elements(Woken(list)) = {p \in Elements(list) : p.state = Ready}
         /\ Elements(StillWaiting(list)) = {p \in Elements(list) : p.state # Ready}
<1>1. \A kept : Elements(Filter(list, kept)) = Elements(list) \cap kept
  BY FilterElements
<1> QED
  BY <1>1 DEF Woken, StillWaiting

\* Time passes, and a signal is sent, for each element.
LEMMA ElapsedElements ==
  ASSUME NEW list, NEW time
  PROVE  Elements(Elapsed(list, time)) = {Elapse(p, time) : p \in Elements(list)}
BY DEF Elements, Elapsed

LEMMA NotifiedElements ==
  ASSUME NEW list, NEW event
  PROVE  Elements(Notified(list, event)) = {Notify(p, event) : p \in Elements(list)}
BY DEF Elements, Notified

-----------------------------------------------------------------------------
(***************************************************************************)
(* The wakeup conditions of a set of processes, by PID: what the schedulers*)
(* keep of their processes as far as the contract of Scheduler goes.       *)
(***************************************************************************)
Distinct(processes) == \A p, q \in processes : p.pid = q.pid => p = q

Wakeups(processes) ==
  [pid \in {p.pid : p \in processes} |-> (CHOOSE p \in processes : p.pid = pid).wakeup]

\* If no two of the processes share a PID, each has its own condition.
LEMMA WakeupsApply ==
  ASSUME NEW E, Distinct(E)
  PROVE  \A p \in E : p.pid \in DOMAIN Wakeups(E) /\ Wakeups(E)[p.pid] = p.wakeup
<1> SUFFICES ASSUME NEW p \in E
             PROVE  p.pid \in DOMAIN Wakeups(E) /\ Wakeups(E)[p.pid] = p.wakeup
  OBVIOUS
<1>1. (CHOOSE q \in E : q.pid = p.pid) = p
  <2>1. /\ (CHOOSE q \in E : q.pid = p.pid) \in E
        /\ (CHOOSE q \in E : q.pid = p.pid).pid = p.pid
    OBVIOUS
  <2> QED
    BY <2>1 DEF Distinct
<1> QED
  BY <1>1 DEF Wakeups

\* A function that says of each process what it waits for is the one.
LEMMA WakeupsAre ==
  ASSUME NEW E, Distinct(E), NEW D, NEW f, f = [pid \in D |-> f[pid]],
         D = {p.pid : p \in E},
         \A p \in E : f[p.pid] = p.wakeup
  PROVE  Wakeups(E) = f
<1>1. Wakeups(E) = [pid \in D |-> Wakeups(E)[pid]]
  BY DEF Wakeups
<1>2. ASSUME NEW pid \in D PROVE Wakeups(E)[pid] = f[pid]
  BY WakeupsApply
<1> QED
  BY <1>1, <1>2

-----------------------------------------------------------------------------
(* Lists that grow at their end. *)

\* A list is a prefix of what it is extended to.
LEMMA ConcatPrefix ==
  ASSUME NEW S, NEW list \in Seq(S), NEW more \in Seq(S)
  PROVE  /\ Len(list) <= Len(list \o more)
         /\ SubSeq(list \o more, 1, Len(list)) = list
<1> DEFINE n == Len(list)
           both == list \o more
           part == SubSeq(both, 1, n)
<1>1. /\ n \in Nat /\ Len(more) \in Nat /\ Len(both) = n + Len(more)
      /\ \A i \in 1..n : both[i] = list[i]
      /\ both \in Seq(S)
  OBVIOUS
<1>2. n <= Len(both)
  BY <1>1
<1> HIDE DEF both, n
<1>3. part \in Seq(S) /\ Len(part) = n /\ \A i \in 1..n : part[i] = both[i]
  BY <1>1, <1>2
<1>4. Len(part) = Len(list) /\ \A i \in 1..Len(list) : part[i] = list[i]
  BY <1>1, <1>3 DEF n
<1>5. part = list
  BY <1>3, <1>4, SeqEqual
<1> QED
  BY <1>2, <1>5 DEF n, both

\* The first of a list that is extended, and the rest of it.
LEMMA ConcatHeadTail ==
  ASSUME NEW S, NEW list \in Seq(S), NEW more \in Seq(S), list # << >>
  PROVE  /\ Head(list \o more) = Head(list)
         /\ Tail(list \o more) = Tail(list) \o more
<1>1. Head(list \o more) = Head(list)
  OBVIOUS
<1> DEFINE left == Tail(list \o more)
           right == Tail(list) \o more
<1>2. /\ left \in Seq(S) /\ right \in Seq(S)
      /\ Len(left) = Len(right)
      /\ \A i \in 1..Len(left) : left[i] = right[i]
  OBVIOUS
<1>3. left = right
  BY <1>2, SeqEqual
<1> QED
  BY <1>1, <1>3

-----------------------------------------------------------------------------
(***************************************************************************)
(* Every process in one place, once: R are the PIDs that run, q is the     *)
(* ready list, w the waiting list and h the highest PID.  What becomes of  *)
(* it when a list changes in one of the ways the schedulers change it.     *)
(***************************************************************************)
Apart(R, q, w, h) ==
  /\ PidsDiffer(q)
  /\ PidsDiffer(w)
  /\ R \cap Pids(q) = {}
  /\ R \cap Pids(w) = {}
  /\ Pids(q) \cap Pids(w) = {}
  /\ R \cup Pids(q) \cup Pids(w) \subseteq 1..h

\* Processes are woken.
LEMMA WokenSeq ==
  ASSUME NEW S, NEW q \in Seq(S), NEW w \in Seq(S)
  PROVE  Woken(w) \in Seq(S) /\ q \o Woken(w) \in Seq(S)
<1>1. {p \in S : p.state = Ready} \subseteq S
  OBVIOUS
<1>2. Woken(w) \in Seq(S)
  BY <1>1, WakeupType, SeqMonotonic
<1> QED
  BY <1>2, ConcatProperties

\* Those that are woken move from the one list to the other.
LEMMA ApartWakeup ==
  ASSUME NEW S, NEW R, NEW q \in Seq(S), NEW w \in Seq(S), NEW h, Apart(R, q, w, h)
  PROVE  Apart(R, q \o Woken(w), StillWaiting(w), h)
<1>1. /\ Woken(w) \in Seq(S)
      /\ Pids(Woken(w)) \cup Pids(StillWaiting(w)) = Pids(w)
      /\ PidsDiffer(Woken(w)) /\ PidsDiffer(StillWaiting(w))
      /\ Pids(Woken(w)) \cap Pids(StillWaiting(w)) = {}
  BY WokenSeq, WakeupPids DEF Apart
<1>2. Pids(q) \cap Pids(Woken(w)) = {}
  BY <1>1 DEF Apart
<1>3. /\ Pids(q \o Woken(w)) = Pids(q) \cup Pids(Woken(w))
      /\ PidsDiffer(q \o Woken(w))
  BY <1>1, <1>2, ConcatPids DEF Apart
<1> QED
  BY <1>1, <1>3 DEF Apart

\* The running process joins one of the lists.
LEMMA ApartReady ==
  ASSUME NEW S, NEW p \in S, NEW q \in Seq(S), NEW w, NEW h, Apart({p.pid}, q, w, h)
  PROVE  Apart({}, Append(q, p), w, h)
BY AppendPids DEF Apart

\* The process that called joins those that wait.
LEMMA ApartBlocked ==
  ASSUME NEW S, NEW p \in S, NEW q, NEW w \in Seq(S), NEW h, Apart({p.pid}, q, w, h)
  PROVE  Apart({}, q, Append(w, p), h)
BY AppendPids DEF Apart

\* A process is created.
LEMMA ApartForked ==
  ASSUME NEW S, NEW R, NEW p \in S, NEW q \in Seq(S), NEW w, NEW h \in Nat,
         p.pid = h + 1, Apart(R, q, w, h)
  PROVE  Apart(R, Append(q, p), w, h + 1)
<1>1. h + 1 \notin 1..h /\ 1..h \subseteq 1..(h + 1) /\ h + 1 \in 1..(h + 1)
  OBVIOUS
<1>2. p.pid \notin R \cup Pids(q) \cup Pids(w)
  BY <1>1 DEF Apart
<1> QED
  BY <1>1, <1>2, AppendPids DEF Apart

\* The first of the ready processes is dispatched.
LEMMA ApartDispatched ==
  ASSUME NEW S, NEW q \in Seq(S), q # << >>, NEW w, NEW h, Apart({}, q, w, h)
  PROVE  Apart({Head(q).pid}, Tail(q), w, h)
BY HeadTailPids DEF Apart

=============================================================================
