--------------------------- MODULE SchedulingProofs ---------------------------
(***************************************************************************)
(* Proofs about DispatchOrder, for any plan, lanes, slots and attempts:    *)
(* first contacts follow the plan's order and a lane stays one ordered     *)
(* experiment, whatever ends, fails, expires or is cancelled in between.   *)
(*                                                                         *)
(* The invariant has three parts.  Lanes: a job that was taken up has      *)
(* nothing unfinished or pending before it in its lane.  Turns: the order  *)
(* waits for no job that is past its turn.  Order: a contact that is out   *)
(* of order is one of a job whose lease had expired.                       *)
(*                                                                         *)
(* Then proofs about CollectionPlan, which makes that plan.  The order of  *)
(* its jobs is counterbalanced: the proof counts the replicates that come  *)
(* before one.  Every contact is made under authority: leases end with the *)
(* execution and it with the plan.  The work of all executions together    *)
(* stays within the budget, since every contact has a lease of its own and *)
(* every attempt one outcome.  And the wall-clock budget suffices: while   *)
(* no time is idle, the time since the start is at most that of the leases *)
(* taken.                                                                  *)
(***************************************************************************)
EXTENDS DispatchOrder, CollectionPlan, FiniteSums

ContactsOf(c) == {c[k] : k \in DOMAIN c}

SchedulerTyped ==
    /\ lane \in [Jobs -> Jobs]
    /\ status \in [Jobs -> JobStatuses]
    /\ result \in [Jobs -> Results]
    /\ turn \in [Jobs -> {"none", "begin", "skip"}]
    /\ next \in 1..(N + 1)
    /\ cancelled \in BOOLEAN
    /\ contacts \in Seq(Jobs)

\* The lanes, given states, results and contacts of the jobs.
LanesSound(st, res, con) ==
    /\ Cardinality(Active(st)) <= MaxConcurrency
    /\ \A i, k \in Active(st) : lane[i] = lane[k] => i = k
    /\ \A i, k \in Jobs : i < k /\ lane[i] = lane[k] =>
          /\ (k \in con \/ st[k] \notin {"queued", "over"})
                => st[i] = "over" /\ res[i] # "pending"
          /\ res[i] = "pending" /\ st[i] \in {"handled", "over"} => st[k] = "over"

\* The turns t, given the next one, the states, the contacts and who is late.
Turns(t, first, st, con, late, stopped) ==
    \A i \in Jobs :
        /\ t[i] = "begin" <=> st[i] = "waiting"
        /\ t[i] = "skip" => st[i] = "over"
        /\ i < first => st[i] \in {"released", "ended", "handled", "over"}
        /\ st[i] = "released" => i < first /\ (i \in con \/ i \in late \/ stopped)
        /\ i \in con => i < first /\ st[i] \in {"released", "ended", "handled", "over"}

\* The contacts c, given who was late.
Ordered(c, late) ==
    \A a, b \in DOMAIN c : a < b =>
        /\ c[a] # c[b]
        /\ c[a] > c[b] => c[b] \in late

SchedulerInv ==
    /\ SchedulerTyped
    /\ LanesSound(status, result, ContactsOf(contacts))
    /\ Turns(turn, next, status, ContactsOf(contacts), expired, cancelled)
    /\ Ordered(contacts, expired)

-----------------------------------------------------------------------------
(* Counting.                                                               *)

LEMMA FiniteJobs ==
  /\ Jobs \subseteq Nat /\ IsFiniteSet(Jobs) /\ N \in Nat
  /\ \A S \in SUBSET Jobs : IsFiniteSet(S) /\ Cardinality(S) \in Nat
<1>1. Jobs \subseteq Nat /\ IsFiniteSet(Jobs) /\ N \in Nat
  BY SchedulerAssumption, FS_Interval DEF Jobs
<1>2. ASSUME NEW S \in SUBSET Jobs PROVE IsFiniteSet(S) /\ Cardinality(S) \in Nat
  BY <1>1, FS_Subset, FS_CardinalityType
<1>. QED BY <1>1, <1>2

\* Of a set of numbers, those with fewer than r below them are at most r.
LEMMA FirstFew ==
  ASSUME NEW H \in SUBSET Jobs, NEW r \in Nat
  PROVE  Cardinality({i \in H : Cardinality({k \in H : k < i}) < r}) <= r
<1> DEFINE Below(i) == {k \in H : k < i}
           First == {i \in H : Cardinality(Below(i)) < r}
           rank == [i \in First |-> Cardinality(Below(i))]
<1>1. \A i \in H : IsFiniteSet(Below(i)) /\ Cardinality(Below(i)) \in Nat /\ i \in Nat
  BY FiniteJobs
<1>2. ASSUME NEW i \in H, NEW k \in H, i < k
      PROVE  Cardinality(Below(i)) < Cardinality(Below(k))
  <2>1. i \in Nat /\ k \in Nat BY <1>1
  <2>2. Below(i) \in SUBSET Below(k)
    <3>1. \A j \in H : j < i => j < k BY <1>1, <1>2, <2>1
    <3>. QED BY <3>1
  <2>3. i \in Below(k) /\ i \notin Below(i) BY <1>2, <2>1
  <2>4. Below(i) # Below(k) BY <2>3
  <2> HIDE DEF Below
  <2>. QED BY <1>1, <2>2, <2>4, FS_Subset
<1>3. rank \in [First -> 0..(r - 1)] BY <1>1
<1>4. \A i, k \in First : rank[i] = rank[k] => i = k
  <2> SUFFICES ASSUME NEW i \in First, NEW k \in First, i # k PROVE rank[i] # rank[k]
    OBVIOUS
  <2>1. i \in H /\ k \in H /\ i \in Nat /\ k \in Nat BY <1>1
  <2>2. rank[i] = Cardinality(Below(i)) /\ rank[k] = Cardinality(Below(k)) OBVIOUS
  <2>3. Cardinality(Below(i)) \in Nat /\ Cardinality(Below(k)) \in Nat BY <1>1, <2>1
  <2>4. i < k \/ k < i BY <2>1
  <2> HIDE DEF Below, First, rank
  <2>. QED BY <1>2, <2>1, <2>2, <2>3, <2>4
<1> HIDE DEF rank
<1>5. rank \in Injection(First, 0..(r - 1)) BY <1>3, <1>4 DEF Injection, IsInjective
<1>6. IsFiniteSet(0..(r - 1)) /\ Cardinality(0..(r - 1)) = r BY FS_Interval
<1>7. Cardinality(First) <= r BY <1>5, <1>6, FS_Injection
<1>. QED BY <1>7

-----------------------------------------------------------------------------
(* Turns are given in order.                                               *)

\* The enumeration of a set names all of it.
LEMMA OrderNamesAll ==
  ASSUME NEW S \in SUBSET Jobs, NEW order \in InOrder(S)
  PROVE  /\ order \in Seq(Jobs) /\ DOMAIN order = 1..Len(order) /\ Len(order) \in Nat
         /\ \A k \in DOMAIN order : order[k] \in S
         /\ \A i \in S : \E k \in DOMAIN order : order[k] = i
         /\ \A a, b \in DOMAIN order : a < b => order[a] < order[b]
<1> DEFINE n == Cardinality(S)
<1>1. IsFiniteSet(S) /\ n \in Nat /\ S \subseteq Nat BY FiniteJobs
<1> HIDE DEF n
<1>2. /\ order \in [1..n -> S]
      /\ \A a, b \in 1..n : a < b => order[a] < order[b]
  BY DEF InOrder, n
<1>3. order \in Seq(Jobs) /\ DOMAIN order = 1..n /\ Len(order) = n
  <2>1. order \in [1..n -> Jobs] BY <1>2
  <2>. QED BY <1>1, <2>1
<1>4. \A a, b \in 1..n : order[a] = order[b] => a = b
  <2> SUFFICES ASSUME NEW a \in 1..n, NEW b \in 1..n, a # b PROVE order[a] # order[b]
    OBVIOUS
  <2>1. a < b \/ b < a OBVIOUS
  <2>2. order[a] \in Nat /\ order[b] \in Nat BY <1>1, <1>2
  <2>. QED BY <1>2, <2>1, <2>2
<1>5. order \in Injection(1..n, S) BY <1>2, <1>4 DEF Injection, IsInjective
<1>6. Cardinality(1..n) = n BY <1>1, FS_Interval
<1>7. order \in Surjection(1..n, S) BY <1>1, <1>5, <1>6, FS_Injection DEF n
<1>8. \A i \in S : \E k \in 1..n : order[k] = i BY <1>7 DEF Surjection
<1>. QED BY <1>1, <1>2, <1>3, <1>8

\* Pumping takes the turns that are there, in order, up to the first missing one.
LEMMA PumpStep ==
  ASSUME SchedulerTyped, Ordered(contacts, expired),
         NEW t \in [Jobs -> {"none", "begin", "skip"}], NEW st \in [Jobs -> JobStatuses],
         Turns(t, next, st, ContactsOf(contacts), expired, cancelled),
         cancelled => cancelled', Pump(t, st)
  PROVE  /\ status' \in [Jobs -> JobStatuses]
         /\ turn' \in [Jobs -> {"none", "begin", "skip"}]
         /\ next' \in 1..(N + 1) /\ contacts' \in Seq(Jobs)
         /\ Turns(turn', next', status', ContactsOf(contacts'), expired', cancelled')
         /\ Ordered(contacts', expired')
         /\ \A i \in Jobs : \/ status'[i] = st[i]
                            \/ st[i] = "waiting" /\ status'[i] = "released"
         /\ \A i \in Jobs : i \in ContactsOf(contacts') =>
                i \in ContactsOf(contacts) \/ st[i] = "waiting"
<1>0. N \in Nat /\ Jobs = 1..N /\ next \in 1..(N + 1) /\ contacts \in Seq(Jobs)
  BY FiniteJobs DEF Jobs, SchedulerTyped
<1>1. PICK last \in next..(N + 1) :
          LET freed == {i \in next..(last - 1) : t[i] = "begin"}
          IN  /\ \A i \in next..(last - 1) : t[i] # "none"
              /\ next' = last
              /\ turn' = [i \in Jobs |-> IF i < last THEN "none" ELSE t[i]]
              /\ status' = [i \in Jobs |-> IF i \in freed THEN "released" ELSE st[i]]
              /\ \E late \in SUBSET freed :
                    /\ cancelled' => late = freed
                    /\ \E order \in InOrder(freed \ late) : contacts' = contacts \o order
                    /\ expired' = IF cancelled' THEN expired ELSE expired \cup late
  BY DEF Pump
<1> DEFINE freed == {i \in next..(last - 1) : t[i] = "begin"}
<1>a. PICK late \in SUBSET freed :
          /\ cancelled' => late = freed
          /\ \E order \in InOrder(freed \ late) : contacts' = contacts \o order
          /\ expired' = IF cancelled' THEN expired ELSE expired \cup late
  BY <1>1
<1>2. PICK order \in InOrder(freed \ late) : contacts' = contacts \o order BY <1>a
<1>3. \A i \in freed : i \in Jobs /\ i \in Nat /\ next <= i /\ i < last /\ t[i] = "begin"
  BY <1>0
<1>4. freed \ late \in SUBSET Jobs BY <1>3
<1>5. PICK F \in SUBSET Jobs : F = freed \ late BY <1>4
<1>6. /\ order \in Seq(Jobs) /\ DOMAIN order = 1..Len(order) /\ Len(order) \in Nat
      /\ \A k \in DOMAIN order : order[k] \in F
      /\ \A i \in F : \E k \in DOMAIN order : order[k] = i
      /\ \A a, b \in DOMAIN order : a < b => order[a] < order[b]
  BY <1>5, OrderNamesAll
<1>7. PICK m \in Nat : m = Len(contacts) /\ DOMAIN contacts = 1..m BY <1>0
<1>8. /\ contacts' \in Seq(Jobs) /\ DOMAIN contacts' = 1..(m + Len(order))
      /\ \A k \in 1..m : contacts'[k] = contacts[k]
      /\ \A k \in DOMAIN order : contacts'[m + k] = order[k]
  BY <1>0, <1>2, <1>6, <1>7
<1>9. ASSUME NEW k \in DOMAIN contacts'
      PROVE  \/ k \in 1..m /\ contacts'[k] = contacts[k]
             \/ k > m /\ k - m \in DOMAIN order /\ contacts'[k] = order[k - m]
  <2>1. k \in Nat /\ k <= m + Len(order) /\ k >= 1 BY <1>6, <1>7, <1>8
  <2>2. CASE k <= m BY <1>7, <1>8, <2>1, <2>2
  <2>3. CASE k > m
    <3>1. k - m \in 1..Len(order) /\ m + (k - m) = k BY <1>6, <1>7, <2>1, <2>3
    <3>. QED BY <1>6, <1>8, <2>3, <3>1
  <2>. QED BY <1>7, <2>1, <2>2, <2>3
<1>10. \A i \in Jobs : i \in ContactsOf(contacts') <=> i \in ContactsOf(contacts) \/ i \in F
  <2>1. ASSUME NEW i \in Jobs, i \in ContactsOf(contacts')
        PROVE  i \in ContactsOf(contacts) \/ i \in F
    BY <1>6, <1>7, <1>9, <2>1 DEF ContactsOf
  <2>2. ASSUME NEW i \in Jobs, i \in ContactsOf(contacts) PROVE i \in ContactsOf(contacts')
    <3>1. PICK k \in 1..m : contacts[k] = i BY <1>7, <2>2 DEF ContactsOf
    <3>2. k \in DOMAIN contacts' BY <1>6, <1>7, <1>8
    <3>. QED BY <1>8, <3>1, <3>2 DEF ContactsOf
  <2>3. ASSUME NEW i \in Jobs, i \in F PROVE i \in ContactsOf(contacts')
    <3>1. PICK k \in DOMAIN order : order[k] = i BY <1>6, <2>3
    <3>2. m + k \in DOMAIN contacts' BY <1>6, <1>7, <1>8
    <3>. QED BY <1>8, <3>1, <3>2 DEF ContactsOf
  <2>. QED BY <2>1, <2>2, <2>3
<1>11. Ordered(contacts', expired')
  <2> SUFFICES ASSUME NEW a \in DOMAIN contacts', NEW b \in DOMAIN contacts', a < b
               PROVE  /\ contacts'[a] # contacts'[b]
                      /\ contacts'[a] > contacts'[b] => contacts'[b] \in expired'
    BY DEF Ordered
  <2>1. expired \subseteq expired' BY <1>a
  <2>2. a \in Nat /\ b \in Nat BY <1>6, <1>7, <1>8
  <2>3. CASE b \in 1..m
    <3>1. a \in 1..m BY <1>7, <2>2, <2>3, <1>6, <1>8
    <3>. QED BY <1>7, <1>8, <2>1, <2>3, <3>1 DEF Ordered
  <2>4. CASE a \in 1..m /\ b \notin 1..m
    <3>1. contacts'[b] \in F /\ contacts'[a] = contacts[a] BY <1>6, <1>8, <1>9, <2>4
    <3>2. contacts[a] \in Jobs /\ contacts[a] \in ContactsOf(contacts)
      BY <1>0, <1>7, <2>4 DEF ContactsOf
    <3>3. contacts[a] < next BY <3>2 DEF Turns
    <3>4. contacts'[b] >= next /\ contacts'[b] \in Nat BY <1>3, <1>5, <3>1
    <3>5. contacts[a] \in Nat /\ next \in Nat BY <1>0, <3>2
    <3>. QED BY <3>1, <3>3, <3>4, <3>5
  <2>5. CASE a \notin 1..m /\ b \notin 1..m
    <3>1. /\ a - m \in DOMAIN order /\ contacts'[a] = order[a - m]
          /\ b - m \in DOMAIN order /\ contacts'[b] = order[b - m]
      BY <1>9, <2>5
    <3>2. a - m < b - m BY <1>7, <2>2
    <3>3. order[a - m] < order[b - m] BY <1>6, <3>1, <3>2
    <3>4. order[a - m] \in Nat /\ order[b - m] \in Nat BY <1>0, <1>6, <3>1
    <3>. QED BY <3>1, <3>3, <3>4
  <2>. QED BY <2>3, <2>4, <2>5
<1>12. \A i \in Jobs : IF i \in freed THEN status'[i] = "released" /\ st[i] = "waiting"
                                      ELSE status'[i] = st[i]
  BY <1>1, <1>3 DEF Turns
<1>13. Turns(turn', next', status', ContactsOf(contacts'), expired', cancelled')
  <2> SUFFICES ASSUME NEW i \in Jobs
               PROVE  /\ turn'[i] = "begin" <=> status'[i] = "waiting"
                      /\ turn'[i] = "skip" => status'[i] = "over"
                      /\ i < next' =>
                            status'[i] \in {"released", "ended", "handled", "over"}
                      /\ status'[i] = "released" =>
                            /\ i < next'
                            /\ i \in ContactsOf(contacts') \/ i \in expired' \/ cancelled'
                      /\ i \in ContactsOf(contacts') =>
                            /\ i < next'
                            /\ status'[i] \in {"released", "ended", "handled", "over"}
    BY DEF Turns
  <2>1. /\ t[i] = "begin" <=> st[i] = "waiting"
        /\ t[i] = "skip" => st[i] = "over"
        /\ i < next => st[i] \in {"released", "ended", "handled", "over"}
        /\ st[i] = "released" =>
              i < next /\ (i \in ContactsOf(contacts) \/ i \in expired \/ cancelled)
        /\ i \in ContactsOf(contacts) =>
              i < next /\ st[i] \in {"released", "ended", "handled", "over"}
    BY DEF Turns
  <2>2. i \in Nat /\ next \in Nat /\ last \in Nat /\ next <= last /\ next' = last
    BY <1>0, <1>1
  <2>3. CASE i \in freed
    <3>1. i < last /\ turn'[i] = "none" /\ status'[i] = "released" BY <1>1, <1>3, <1>12, <2>3
    <3>2. i \in late => cancelled' \/ i \in expired' BY <1>a
    <3>3. i \notin late => i \in ContactsOf(contacts') BY <1>5, <1>10, <2>3
    <3>. QED BY <1>1, <3>1, <3>2, <3>3
  <2>4. CASE i \notin freed
    <3>1. status'[i] = st[i] /\ turn'[i] = IF i < last THEN "none" ELSE t[i]
      BY <1>1, <1>12, <2>4
    <3>2. i \in ContactsOf(contacts') <=> i \in ContactsOf(contacts) BY <1>5, <1>10, <2>4
    <3>3. next <= i /\ i < last => t[i] = "skip"
      <4>1. next <= i /\ i < last => i \in next..(last - 1) BY <2>2
      <4>. QED BY <1>1, <2>4, <4>1
    <3>4. expired \subseteq expired' BY <1>a
    <3>. QED BY <2>1, <2>2, <3>1, <3>2, <3>3, <3>4
  <2>. QED BY <2>3, <2>4
<1>14. /\ status' \in [Jobs -> JobStatuses]
       /\ turn' \in [Jobs -> {"none", "begin", "skip"}]
       /\ next' \in 1..(N + 1)
  BY <1>0, <1>1 DEF JobStatuses
<1>15. \A i \in Jobs : i \in ContactsOf(contacts') =>
                           i \in ContactsOf(contacts) \/ st[i] = "waiting"
  BY <1>5, <1>10, <1>12
<1> HIDE DEF freed
<1>. QED BY <1>8, <1>11, <1>12, <1>13, <1>14, <1>15

-----------------------------------------------------------------------------
(* Lanes.                                                                  *)

\* A step that pumps keeps the invariant if its turns and states are in order.
LEMMA PumpKeeps ==
  ASSUME SchedulerInv, NEW t \in [Jobs -> {"none", "begin", "skip"}],
         NEW st \in [Jobs -> JobStatuses], NEW res \in [Jobs -> Results],
         Turns(t, next, st, ContactsOf(contacts), expired, cancelled),
         LanesSound(st, res, ContactsOf(contacts)), Pump(t, st),
         UNCHANGED lane, result' = res, cancelled' \in BOOLEAN, cancelled => cancelled'
  PROVE  SchedulerInv'
<1>1. SchedulerTyped /\ Ordered(contacts, expired) BY DEF SchedulerInv
<1>2. /\ status' \in [Jobs -> JobStatuses]
      /\ turn' \in [Jobs -> {"none", "begin", "skip"}]
      /\ next' \in 1..(N + 1) /\ contacts' \in Seq(Jobs)
      /\ Turns(turn', next', status', ContactsOf(contacts'), expired', cancelled')
      /\ Ordered(contacts', expired')
      /\ \A i \in Jobs : status'[i] = st[i] \/ (st[i] = "waiting" /\ status'[i] = "released")
      /\ \A i \in Jobs : i \in ContactsOf(contacts') =>
             i \in ContactsOf(contacts) \/ st[i] = "waiting"
  BY <1>1, PumpStep
<1>3. Active(status') = Active(st) BY <1>2 DEF Active
<1>4. LanesSound(status, result, ContactsOf(contacts))'
  <2>1. \A i \in Jobs : (status'[i] = "over") = (st[i] = "over")
                        /\ (status'[i] \in {"handled", "over"}) = (st[i] \in {"handled", "over"})
                        /\ (status'[i] \in {"queued", "over"}) = (st[i] \in {"queued", "over"})
    BY <1>2
  <2>2. ASSUME NEW i \in Jobs, NEW k \in Jobs, i < k, lane'[i] = lane'[k]
        PROVE  /\ (k \in ContactsOf(contacts') \/ status'[k] \notin {"queued", "over"})
                     => status'[i] = "over" /\ result'[i] # "pending"
               /\ result'[i] = "pending" /\ status'[i] \in {"handled", "over"}
                     => status'[k] = "over"
    BY <1>2, <2>1, <2>2 DEF LanesSound
  <2>. QED BY <1>3, <2>2 DEF LanesSound
<1>5. SchedulerTyped' BY <1>1, <1>2 DEF SchedulerTyped
<1>. QED BY <1>2, <1>4, <1>5 DEF SchedulerInv

\* What may happen to a job between two pumps, apart from being taken up.
Moved(a, b) ==
    \/ a = b
    \/ a = "ended" /\ b = "handled"
    \/ a = "handled" /\ b = "over"

\* Jobs that are over give up their turns.
LEMMA SkipTurns ==
  ASSUME SchedulerInv, NEW S \in SUBSET Jobs, NEW st \in [Jobs -> JobStatuses],
         \A i \in Jobs : \/ Moved(status[i], st[i])
                         \/ status[i] = "queued" /\ st[i] \in {"running", "over"},
         \A i \in S : st[i] = "over"
  PROVE  /\ Skip(S) \in [Jobs -> {"none", "begin", "skip"}]
         /\ Turns(Skip(S), next, st, ContactsOf(contacts), expired, cancelled)
<1>1. /\ turn \in [Jobs -> {"none", "begin", "skip"}]
      /\ Turns(turn, next, status, ContactsOf(contacts), expired, cancelled)
  BY DEF SchedulerInv, SchedulerTyped
<1>2. Skip(S) \in [Jobs -> {"none", "begin", "skip"}] BY <1>1 DEF Skip
<1>3. ASSUME NEW i \in Jobs
      PROVE  /\ Skip(S)[i] = "begin" <=> turn[i] = "begin"
             /\ Skip(S)[i] = "skip" => turn[i] = "skip" \/ st[i] = "over"
  BY <1>1 DEF Skip
<1>4. ASSUME NEW i \in Jobs
      PROVE  /\ Skip(S)[i] = "begin" <=> st[i] = "waiting"
             /\ Skip(S)[i] = "skip" => st[i] = "over"
             /\ i < next => st[i] \in {"released", "ended", "handled", "over"}
             /\ st[i] = "released" =>
                   i < next /\ (i \in ContactsOf(contacts) \/ i \in expired \/ cancelled)
             /\ i \in ContactsOf(contacts) =>
                   i < next /\ st[i] \in {"released", "ended", "handled", "over"}
  BY <1>1, <1>3 DEF Turns, Moved
<1>. QED BY <1>2, <1>4 DEF Turns

\* Dropping queued jobs leaves the lanes in order, if with a job that is dropped,
\* or left pending, all queued jobs behind it in its lane are dropped.
LEMMA DropLanes ==
  ASSUME SchedulerInv, NEW D \in SUBSET Queued, NEW st \in [Jobs -> JobStatuses],
         NEW res \in [Jobs -> Results],
         \A i \in D : st[i] = "over",
         \A i \in Jobs \ D : Moved(status[i], st[i]) /\ res[i] = result[i],
         \A i, k \in Jobs : i < k /\ lane[i] = lane[k] /\ status[k] = "queued" /\ i \in D
             => k \in D,
         \A i, k \in Jobs :
             (/\ i < k /\ lane[i] = lane[k] /\ status[k] = "queued"
              /\ status[i] = "ended" /\ st[i] = "handled" /\ result[i] = "pending") => k \in D
  PROVE  LanesSound(st, res, ContactsOf(contacts))
<1>1. LanesSound(status, result, ContactsOf(contacts)) BY DEF SchedulerInv
<1>2. \A i \in D : i \in Jobs /\ status[i] = "queued" BY DEF Queued
<1>3. Active(st) \subseteq Active(status) BY <1>2 DEF Active, Moved
<1>4. Cardinality(Active(st)) <= MaxConcurrency
  <2>1. Active(status) \in SUBSET Jobs BY DEF Active
  <2>2. /\ IsFiniteSet(Active(status)) /\ Cardinality(Active(status)) \in Nat
        /\ Cardinality(Active(st)) \in Nat
    BY <1>3, <2>1, FiniteJobs
  <2>3. Cardinality(Active(st)) <= Cardinality(Active(status)) BY <1>3, <2>2, FS_Subset
  <2>. QED BY <1>1, <2>2, <2>3, SchedulerAssumption DEF LanesSound
<1>5. \A i, k \in Active(st) : lane[i] = lane[k] => i = k BY <1>1, <1>3 DEF LanesSound
<1>6. ASSUME NEW i \in Jobs, NEW k \in Jobs, i < k, lane[i] = lane[k]
      PROVE  /\ (k \in ContactsOf(contacts) \/ st[k] \notin {"queued", "over"})
                   => st[i] = "over" /\ res[i] # "pending"
             /\ res[i] = "pending" /\ st[i] \in {"handled", "over"} => st[k] = "over"
  <2>1. /\ (k \in ContactsOf(contacts) \/ status[k] \notin {"queued", "over"})
              => status[i] = "over" /\ result[i] # "pending"
        /\ result[i] = "pending" /\ status[i] \in {"handled", "over"} => status[k] = "over"
    BY <1>1, <1>6 DEF LanesSound
  <2>2. st[k] \notin {"queued", "over"} => status[k] \notin {"queued", "over"}
    BY <1>2 DEF Moved
  <2>3. status[i] = "over" => st[i] = "over" /\ res[i] = result[i] BY <1>2 DEF Moved
  <2>4. status[k] = "over" => st[k] = "over" BY <1>2 DEF Moved
  <2>5. ASSUME res[i] = "pending", st[i] \in {"handled", "over"} PROVE st[k] = "over"
    <3>1. CASE i \in D
      <4>1. status[i] = "queued" BY <1>2, <3>1
      <4>2. status[k] \in {"queued", "over"} BY <2>1, <4>1
      <4>. QED BY <1>6, <2>4, <3>1, <4>2
    <3>2. CASE i \notin D
      <4>1. result[i] = "pending" /\ Moved(status[i], st[i]) BY <2>5, <3>2
      <4>2. CASE status[i] \in {"handled", "over"} BY <2>1, <2>4, <4>1, <4>2
      <4>3. CASE status[i] = "ended" /\ st[i] = "handled"
        <5>1. status[k] \in {"queued", "over"} BY <2>1, <4>3
        <5>. QED BY <1>6, <2>4, <4>1, <4>3, <5>1
      <4>. QED BY <2>5, <4>1, <4>2, <4>3 DEF Moved
    <3>. QED BY <3>1, <3>2
  <2>. QED BY <2>1, <2>2, <2>3, <2>5
<1>. QED BY <1>4, <1>5, <1>6 DEF LanesSound

\* Taking up the heads of free lanes, while there is room, keeps lanes in order.
LEMMA RefillLanes ==
  ASSUME SchedulerTyped, NEW st \in [Jobs -> JobStatuses], NEW res, NEW con,
         LanesSound(st, res, con)
  PROVE  /\ Refill(st) \in [Jobs -> JobStatuses]
         /\ \A i \in Jobs : Refill(st)[i] = st[i]
                            \/ (st[i] = "queued" /\ Refill(st)[i] = "running")
         /\ LanesSound(Refill(st), res, con)
<1> DEFINE queued == {i \in Jobs : st[i] = "queued"}
           busy == {lane[i] : i \in Active(st)}
           heads == {i \in queued : /\ lane[i] \notin busy
                                    /\ \A k \in queued : lane[k] = lane[i] => i <= k}
           room == MaxConcurrency - Cardinality(Active(st))
           taken == {i \in heads : Cardinality({k \in heads : k < i}) < room}
<1>1. /\ Active(st) \in SUBSET Jobs /\ heads \in SUBSET Jobs /\ taken \in SUBSET Jobs
  BY DEF Active
<1>2. room \in Nat /\ Cardinality(Active(st)) \in Nat /\ MaxConcurrency \in Nat
  <2>1. Cardinality(Active(st)) \in Nat BY <1>1, FiniteJobs
  <2>2. Cardinality(Active(st)) <= MaxConcurrency BY DEF LanesSound
  <2>. QED BY <2>1, <2>2, SchedulerAssumption
<1>3. Refill(st) = [i \in Jobs |-> IF i \in taken THEN "running" ELSE st[i]]
  BY DEF Refill
<1>4. \A i \in taken : /\ i \in Jobs /\ st[i] = "queued" /\ lane[i] \notin busy
                       /\ \A k \in Jobs : st[k] = "queued" /\ lane[k] = lane[i] => i <= k
  OBVIOUS
<1>5. Cardinality(taken) <= room BY <1>1, <1>2, FirstFew
<1>6. \A i \in Active(st) : lane[i] \in busy OBVIOUS
<1> HIDE DEF taken, room, heads, busy, queued
<1>7. Refill(st) \in [Jobs -> JobStatuses] BY <1>3 DEF JobStatuses
<1>8. Active(Refill(st)) = Active(st) \cup taken BY <1>3, <1>4 DEF Active
<1>9. Cardinality(Active(Refill(st))) <= MaxConcurrency
  <2>1. /\ IsFiniteSet(Active(st)) /\ IsFiniteSet(taken) /\ Cardinality(taken) \in Nat
        /\ Cardinality(Active(st) \cap taken) \in Nat
    BY <1>1, FiniteJobs
  <2>2. Cardinality(Active(st) \cup taken)
            = Cardinality(Active(st)) + Cardinality(taken) - Cardinality(Active(st) \cap taken)
    BY <2>1, FS_Union
  <2>. QED BY <1>2, <1>5, <1>8, <2>1, <2>2 DEF room
<1>10. \A i, k \in Active(Refill(st)) : lane[i] = lane[k] => i = k
  <2> SUFFICES ASSUME NEW i \in Active(st) \cup taken, NEW k \in Active(st) \cup taken,
                      lane[i] = lane[k]
               PROVE  i = k
    BY <1>8
  <2>1. CASE i \in Active(st) /\ k \in Active(st) BY <2>1 DEF LanesSound
  <2>2. CASE i \in taken /\ k \in taken
    <3>1. i <= k /\ k <= i /\ i \in Nat /\ k \in Nat BY <1>4, <2>2, FiniteJobs
    <3>. QED BY <3>1
  <2>3. i \in taken => k \notin Active(st) BY <1>4, <1>6
  <2>4. k \in taken => i \notin Active(st) BY <1>4, <1>6
  <2>. QED BY <2>1, <2>2, <2>3, <2>4
<1>11. ASSUME NEW i \in Jobs, NEW k \in Jobs, i < k, lane[i] = lane[k]
       PROVE  /\ (k \in con \/ Refill(st)[k] \notin {"queued", "over"})
                    => Refill(st)[i] = "over" /\ res[i] # "pending"
              /\ res[i] = "pending" /\ Refill(st)[i] \in {"handled", "over"}
                    => Refill(st)[k] = "over"
  <2>1. /\ (k \in con \/ st[k] \notin {"queued", "over"})
              => st[i] = "over" /\ res[i] # "pending"
        /\ res[i] = "pending" /\ st[i] \in {"handled", "over"} => st[k] = "over"
    BY <1>11 DEF LanesSound
  <2>2. i \in Nat /\ k \in Nat BY FiniteJobs
  <2>3. CASE k \in taken
    <3>1. st[k] = "queued" /\ st[i] # "queued" BY <1>4, <1>11, <2>2, <2>3
    <3>2. i \notin Active(st) BY <1>4, <1>6, <1>11, <2>3
    <3>3. st[i] = "over" BY <3>1, <3>2 DEF Active
    <3>4. i \notin taken BY <1>4, <3>1
    <3>. QED BY <1>3, <2>1, <3>1, <3>3, <3>4
  <2>4. CASE k \notin taken
    <3>1. Refill(st)[k] = st[k] BY <1>3, <2>4
    <3>2. CASE i \in taken
      <4>1. st[i] = "queued" /\ Refill(st)[i] = "running" BY <1>3, <1>4, <3>2
      <4>. QED BY <2>1, <3>1, <4>1
    <3>3. CASE i \notin taken BY <1>3, <2>1, <3>1, <3>3
    <3>. QED BY <3>2, <3>3
  <2>. QED BY <2>3, <2>4
<1>. QED BY <1>3, <1>4, <1>7, <1>9, <1>10, <1>11 DEF LanesSound

-----------------------------------------------------------------------------
(* The steps.                                                              *)

\* pump(), after the jobs of S, if any, are over.
LEMMA ScheduleKeeps ==
  ASSUME SchedulerInv, NEW S \in SUBSET Jobs, NEW st \in [Jobs -> JobStatuses],
         \A i \in Jobs : st[i] = status[i] \/ (status[i] = "handled" /\ st[i] = "over"),
         \A i \in S : st[i] = "over",
         UNCHANGED <<lane, cancelled>>, Schedule(S, st)
  PROVE  SchedulerInv'
<1>0. /\ SchedulerTyped /\ Queued \in SUBSET Jobs
      /\ result \in [Jobs -> Results] /\ cancelled \in BOOLEAN
      /\ \A i \in Jobs : i \in Queued <=> status[i] = "queued"
  BY DEF SchedulerInv, SchedulerTyped, Queued
<1>1. CASE cancelled /\ ~fatal
  <2>1. PICK s2 : s2 = Drop(Queued, st) OBVIOUS
  <2>2. PICK r2 : r2 = MarkPending OBVIOUS
  <2>3. PICK t2 : t2 = Skip(S \cup Queued) OBVIOUS
  <2>4. Pump(t2, s2) /\ result' = r2 BY <1>1, <2>1, <2>2, <2>3 DEF Schedule
  <2>5. /\ s2 \in [Jobs -> JobStatuses] /\ r2 \in [Jobs -> Results]
        /\ \A i \in Queued : s2[i] = "over"
        /\ \A i \in Jobs \ Queued : s2[i] = st[i] /\ r2[i] = result[i]
    BY <1>0, <2>1, <2>2 DEF Drop, MarkPending, JobStatuses, Results
  <2>6. LanesSound(s2, r2, ContactsOf(contacts))
    <3>1. \A i \in Jobs \ Queued : Moved(status[i], s2[i]) /\ r2[i] = result[i]
      BY <2>5 DEF Moved
    <3>. QED BY <1>0, <2>5, <3>1, DropLanes
  <2>7. /\ t2 \in [Jobs -> {"none", "begin", "skip"}]
        /\ Turns(t2, next, s2, ContactsOf(contacts), expired, cancelled)
    <3>1. \A i \in Jobs : \/ Moved(status[i], s2[i])
                          \/ status[i] = "queued" /\ s2[i] \in {"running", "over"}
      BY <1>0, <2>5 DEF Moved
    <3>2. \A i \in S \cup Queued : s2[i] = "over" BY <1>0, <2>1, <2>5 DEF Drop
    <3>3. S \cup Queued \in SUBSET Jobs BY <1>0
    <3>. QED BY <2>3, <2>5, <3>1, <3>2, <3>3, SkipTurns
  <2>. QED BY <1>0, <2>4, <2>5, <2>6, <2>7, PumpKeeps
<1>2. CASE ~(cancelled /\ ~fatal)
  <2>1. PICK s2 : s2 = IF fatal THEN st ELSE Refill(st) OBVIOUS
  <2>2. PICK t2 : t2 = Skip(S) OBVIOUS
  <2>3. Pump(t2, s2) /\ UNCHANGED result BY <1>2, <2>1, <2>2 DEF Schedule
  <2>4. LanesSound(st, result, ContactsOf(contacts))
    <3>1. PICK D \in SUBSET Queued : D = {} OBVIOUS
    <3>2. \A i \in Jobs \ D : Moved(status[i], st[i]) /\ result[i] = result[i]
      BY DEF Moved
    <3>3. /\ \A i \in D : st[i] = "over"
          /\ \A i, k \in Jobs : i < k /\ lane[i] = lane[k] /\ status[k] = "queued" /\ i \in D
                 => k \in D
      BY <3>1
    <3>4. \A i \in Jobs : ~(status[i] = "ended" /\ st[i] = "handled") OBVIOUS
    <3>. QED BY <1>0, <3>2, <3>3, <3>4, DropLanes
  <2>5. /\ s2 \in [Jobs -> JobStatuses]
        /\ \A i \in Jobs : s2[i] = st[i] \/ (st[i] = "queued" /\ s2[i] = "running")
        /\ LanesSound(s2, result, ContactsOf(contacts))
    <3>1. CASE fatal BY <2>1, <2>4, <3>1
    <3>2. CASE ~fatal BY <1>0, <2>1, <2>4, <3>2, RefillLanes
    <3>. QED BY <3>1, <3>2
  <2>6. /\ t2 \in [Jobs -> {"none", "begin", "skip"}]
        /\ Turns(t2, next, s2, ContactsOf(contacts), expired, cancelled)
    <3>1. \A i \in Jobs : \/ Moved(status[i], s2[i])
                          \/ status[i] = "queued" /\ s2[i] \in {"running", "over"}
      BY <2>5 DEF Moved
    <3>2. \A i \in S : s2[i] = "over" BY <2>5
    <3>. QED BY <2>2, <2>5, <3>1, <3>2, SkipTurns
  <2>7. PICK r2 \in [Jobs -> Results] : r2 = result BY <1>0
  <2>. QED BY <1>0, <2>3, <2>5, <2>6, <2>7, PumpKeeps
<1>. QED BY <1>1, <1>2

\* A job reaches its first dispatch.
LEMMA EnterKeeps ==
  ASSUME SchedulerInv, NEW i \in Jobs, Enter(i)
  PROVE  SchedulerInv'
<1>1. /\ SchedulerTyped /\ LanesSound(status, result, ContactsOf(contacts))
      /\ Turns(turn, next, status, ContactsOf(contacts), expired, cancelled)
  BY DEF SchedulerInv
<1>2. /\ status[i] = "running" /\ i >= next /\ turn[i] = "none"
      /\ UNCHANGED <<lane, result, cancelled>>
      /\ result \in [Jobs -> Results] /\ cancelled \in BOOLEAN
      /\ i \in Nat /\ next \in Nat
  BY <1>1, FiniteJobs DEF Enter, SchedulerTyped
<1>3. PICK t2 : t2 = [turn EXCEPT ![i] = "begin"] OBVIOUS
<1>4. PICK s2 : s2 = [status EXCEPT ![i] = "waiting"] OBVIOUS
<1>5. Pump(t2, s2) BY <1>3, <1>4 DEF Enter
<1>6. /\ t2 \in [Jobs -> {"none", "begin", "skip"}] /\ s2 \in [Jobs -> JobStatuses]
      /\ t2[i] = "begin" /\ s2[i] = "waiting"
      /\ \A k \in Jobs \ {i} : t2[k] = turn[k] /\ s2[k] = status[k]
  BY <1>1, <1>3, <1>4 DEF SchedulerTyped, JobStatuses
<1>7. Turns(t2, next, s2, ContactsOf(contacts), expired, cancelled)
  <2>1. i \notin ContactsOf(contacts) /\ ~(i < next) BY <1>1, <1>2 DEF Turns
  <2>. QED BY <1>1, <1>6, <2>1 DEF Turns
<1>8. LanesSound(s2, result, ContactsOf(contacts))
  <2>1. Active(s2) = Active(status) BY <1>2, <1>6 DEF Active
  <2>2. \A k \in Jobs : /\ (s2[k] = "over") = (status[k] = "over")
                        /\ (s2[k] \in {"handled", "over"}) = (status[k] \in {"handled", "over"})
                        /\ (s2[k] \in {"queued", "over"}) = (status[k] \in {"queued", "over"})
    BY <1>2, <1>6
  <2>. QED BY <1>1, <2>1, <2>2 DEF LanesSound
<1>9. PICK r2 \in [Jobs -> Results] : r2 = result BY <1>2
<1>. QED BY <1>2, <1>5, <1>6, <1>7, <1>8, <1>9, PumpKeeps

\* A retry may make the first contact of a job whose lease expired before.
LEMMA RetryKeeps ==
  ASSUME SchedulerInv, NEW i \in Jobs, Retry(i)
  PROVE  SchedulerInv'
<1>1. /\ SchedulerTyped /\ LanesSound(status, result, ContactsOf(contacts))
      /\ Turns(turn, next, status, ContactsOf(contacts), expired, cancelled)
      /\ Ordered(contacts, expired)
  BY DEF SchedulerInv
<1>2. /\ status[i] = "released" /\ ~cancelled
      /\ UNCHANGED <<lane, status, result, turn, next, cancelled, expired>>
  BY DEF Retry
<1>3. CASE i \in ContactsOf(contacts)
  <2>1. UNCHANGED contacts BY <1>3 DEF Retry, ContactsOf
  <2>. QED BY <1>1, <1>2, <2>1 DEF SchedulerInv, SchedulerTyped, LanesSound, Turns, Ordered,
                                    Active, ContactsOf
<1>4. CASE i \notin ContactsOf(contacts)
  <2>1. contacts' = Append(contacts, i) /\ contacts \in Seq(Jobs)
    BY <1>1, <1>4 DEF Retry, ContactsOf, SchedulerTyped
  <2>2. PICK m \in Nat : m = Len(contacts) /\ DOMAIN contacts = 1..m BY <2>1
  <2>3. /\ contacts' \in Seq(Jobs) /\ DOMAIN contacts' = 1..(m + 1)
        /\ contacts'[m + 1] = i /\ \A k \in 1..m : contacts'[k] = contacts[k]
    BY <2>1, <2>2
  <2>4. ContactsOf(contacts') = ContactsOf(contacts) \cup {i}
    <3>1. \A k \in 1..(m + 1) : k \in 1..m \/ k = m + 1 BY <2>2
    <3>2. 1..m \subseteq 1..(m + 1) /\ m + 1 \in 1..(m + 1) BY <2>2
    <3>. QED BY <2>2, <2>3, <3>1, <3>2 DEF ContactsOf
  <2>5. i \in expired /\ i < next BY <1>1, <1>2, <1>4 DEF Turns
  <2>6. Ordered(contacts', expired')
    <3> SUFFICES ASSUME NEW a \in 1..(m + 1), NEW b \in 1..(m + 1), a < b
                 PROVE  /\ contacts'[a] # contacts'[b]
                        /\ contacts'[a] > contacts'[b] => contacts'[b] \in expired'
      BY <2>3 DEF Ordered
    <3>1. a \in 1..m BY <2>2
    <3>2. CASE b \in 1..m BY <1>1, <1>2, <2>2, <2>3, <3>1, <3>2 DEF Ordered
    <3>3. CASE b = m + 1
      <4>1. contacts[a] \in ContactsOf(contacts) BY <2>2, <3>1 DEF ContactsOf
      <4>. QED BY <1>2, <1>4, <2>3, <2>5, <3>1, <3>3, <4>1
    <3>. QED BY <2>2, <3>2, <3>3
  <2>7. LanesSound(status', result', ContactsOf(contacts'))
    BY <1>1, <1>2, <2>4 DEF LanesSound, Active
  <2>8. Turns(turn', next', status', ContactsOf(contacts'), expired', cancelled')
    BY <1>1, <1>2, <2>4, <2>5 DEF Turns
  <2>9. SchedulerTyped' BY <1>1, <1>2, <2>3 DEF SchedulerTyped
  <2>10. LanesSound(status, result, ContactsOf(contacts))' BY <1>2, <2>7 DEF LanesSound, Active
  <2>. QED BY <2>6, <2>8, <2>9, <2>10 DEF SchedulerInv
<1>. QED BY <1>3, <1>4

\* The end of a job, with a result.
LEMMA EndKeeps ==
  ASSUME SchedulerInv, NEW i \in Jobs, End(i)
  PROVE  SchedulerInv'
<1>1. /\ SchedulerTyped /\ LanesSound(status, result, ContactsOf(contacts))
      /\ Turns(turn, next, status, ContactsOf(contacts), expired, cancelled)
      /\ Ordered(contacts, expired)
  BY DEF SchedulerInv
<1>2. PICK res \in Results \ {"none"} : result' = [result EXCEPT ![i] = res] BY DEF End
<1>3. /\ status[i] \in {"running", "released"} /\ status' = [status EXCEPT ![i] = "ended"]
      /\ UNCHANGED <<lane, turn, next, cancelled, contacts, expired>>
  BY DEF End
<1>4. /\ status' \in [Jobs -> JobStatuses] /\ result' \in [Jobs -> Results]
      /\ status'[i] = "ended"
      /\ \A k \in Jobs \ {i} : status'[k] = status[k] /\ result'[k] = result[k]
  BY <1>1, <1>2, <1>3 DEF SchedulerTyped, JobStatuses
<1>5. SchedulerTyped' BY <1>1, <1>3, <1>4 DEF SchedulerTyped
<1>6. Active(status') = Active(status) BY <1>3, <1>4 DEF Active
<1>7. i \in Active(status) BY <1>3 DEF Active
<1>8. LanesSound(status', result', ContactsOf(contacts))
  <2>1. \A k \in Jobs : /\ (status'[k] = "over") = (status[k] = "over")
                        /\ (status'[k] \in {"handled", "over"})
                              = (status[k] \in {"handled", "over"})
                        /\ (status'[k] \in {"queued", "over"})
                              = (status[k] \in {"queued", "over"})
                        /\ status'[k] \in {"handled", "over"} => result'[k] = result[k]
    BY <1>3, <1>4
  <2>2. Cardinality(Active(status')) <= MaxConcurrency BY <1>1, <1>6 DEF LanesSound
  <2>3. \A j, k \in Active(status') : lane'[j] = lane'[k] => j = k
    BY <1>1, <1>3, <1>6 DEF LanesSound
  <2>4. ASSUME NEW j \in Jobs, NEW k \in Jobs, j < k, lane'[j] = lane'[k]
        PROVE  /\ (k \in ContactsOf(contacts) \/ status'[k] \notin {"queued", "over"})
                     => status'[j] = "over" /\ result'[j] # "pending"
               /\ result'[j] = "pending" /\ status'[j] \in {"handled", "over"}
                     => status'[k] = "over"
    BY <1>1, <1>3, <2>1, <2>4 DEF LanesSound
  <2>. QED BY <1>3, <2>2, <2>3, <2>4 DEF LanesSound
<1>9. Turns(turn, next, status', ContactsOf(contacts), expired, cancelled)
  <2>1. /\ status[i] = "running" => i \notin ContactsOf(contacts)
        /\ turn[i] # "begin" /\ turn[i] # "skip"
    BY <1>1, <1>3 DEF Turns
  <2>. QED BY <1>1, <1>3, <1>4, <2>1 DEF Turns
<1>10. /\ LanesSound(status, result, ContactsOf(contacts))'
       /\ Turns(turn, next, status, ContactsOf(contacts), expired, cancelled)'
       /\ Ordered(contacts, expired)'
  BY <1>1, <1>3, <1>8, <1>9 DEF LanesSound, Turns, Ordered, Active, ContactsOf
<1>. QED BY <1>5, <1>10 DEF SchedulerInv

\* A job that is done: its lane goes on once it is over.
LEMMA HandleDoneKeeps ==
  ASSUME SchedulerInv, NEW i \in Jobs, HandleDone(i)
  PROVE  SchedulerInv'
<1>1. /\ SchedulerTyped /\ Ordered(contacts, expired)
      /\ Turns(turn, next, status, ContactsOf(contacts), expired, cancelled)
  BY DEF SchedulerInv
<1>2. /\ status[i] = "ended" /\ result[i] = "done"
      /\ status' = [status EXCEPT ![i] = "handled"]
      /\ UNCHANGED <<lane, result, turn, next, cancelled, contacts, expired>>
  BY DEF HandleDone
<1>3. PICK s2 \in [Jobs -> JobStatuses] : s2 = [status EXCEPT ![i] = "handled"]
  BY <1>1 DEF SchedulerTyped, JobStatuses
<1>4. PICK r2 \in [Jobs -> Results] : r2 = result BY <1>1 DEF SchedulerTyped
<1>5. PICK D \in SUBSET Queued : D = {} OBVIOUS
<1>6. s2[i] = "handled" /\ \A k \in Jobs \ {i} : s2[k] = status[k]
  BY <1>1, <1>3 DEF SchedulerTyped
<1>7. LanesSound(s2, r2, ContactsOf(contacts))
  <2>1. \A k \in Jobs \ D : Moved(status[k], s2[k]) /\ r2[k] = result[k]
    BY <1>2, <1>4, <1>6 DEF Moved
  <2>2. \A k \in D : s2[k] = "over" BY <1>5
  <2>3. \A j, k \in Jobs : j < k /\ lane[j] = lane[k] /\ status[k] = "queued" /\ j \in D
            => k \in D
    BY <1>5
  <2>4. \A j, k \in Jobs :
            (/\ j < k /\ lane[j] = lane[k] /\ status[k] = "queued"
             /\ status[j] = "ended" /\ s2[j] = "handled" /\ result[j] = "pending") => k \in D
    BY <1>2, <1>6
  <2>. QED BY <2>1, <2>2, <2>3, <2>4, DropLanes
<1>8. Turns(turn, next, s2, ContactsOf(contacts), expired, cancelled)
  BY <1>1, <1>2, <1>6 DEF Turns
<1>9. /\ LanesSound(status, result, ContactsOf(contacts))'
      /\ Turns(turn, next, status, ContactsOf(contacts), expired, cancelled)'
      /\ Ordered(contacts, expired)'
  BY <1>1, <1>2, <1>3, <1>4, <1>7, <1>8 DEF LanesSound, Turns, Ordered, Active, ContactsOf
<1>10. SchedulerTyped' BY <1>1, <1>2, <1>3 DEF SchedulerTyped
<1>. QED BY <1>9, <1>10 DEF SchedulerInv

\* A job left pending, or failed, takes queued jobs with it.
LEMMA AbandonKeeps ==
  ASSUME SchedulerInv, NEW i \in Jobs, NEW D \in SUBSET Queued, NEW res \in [Jobs -> Results],
         status[i] = "ended",
         \A k \in Jobs \ D : res[k] = result[k],
         \A j, k \in Jobs : j < k /\ lane[j] = lane[k] /\ status[k] = "queued" /\ j \in D
             => k \in D,
         result[i] = "pending" => \A k \in Queued : lane[k] = lane[i] => k \in D,
         UNCHANGED lane, result' = res, cancelled' \in BOOLEAN, cancelled => cancelled',
         Pump(Skip(D), [Drop(D, status) EXCEPT ![i] = "handled"])
  PROVE  SchedulerInv'
<1>1. SchedulerTyped BY DEF SchedulerInv
<1>2. PICK s2 : s2 = [Drop(D, status) EXCEPT ![i] = "handled"] OBVIOUS
<1>3. PICK t2 : t2 = Skip(D) OBVIOUS
<1>4. Pump(t2, s2) BY <1>2, <1>3
<1>5. D \in SUBSET Jobs /\ i \notin D /\ \A k \in D : status[k] = "queued" BY DEF Queued
<1>6. /\ s2 \in [Jobs -> JobStatuses] /\ s2[i] = "handled"
      /\ \A k \in D : s2[k] = "over"
      /\ \A k \in Jobs \ D : k # i => s2[k] = status[k]
  BY <1>1, <1>2, <1>5 DEF Drop, SchedulerTyped, JobStatuses
<1>7. \A k \in Jobs \ D : Moved(status[k], s2[k]) BY <1>6 DEF Moved
<1>8. LanesSound(s2, res, ContactsOf(contacts))
  <2>1. \A j, k \in Jobs :
            (/\ j < k /\ lane[j] = lane[k] /\ status[k] = "queued"
             /\ status[j] = "ended" /\ s2[j] = "handled" /\ result[j] = "pending") => k \in D
    <3> SUFFICES ASSUME NEW j \in Jobs, NEW k \in Jobs, lane[j] = lane[k],
                        status[k] = "queued", status[j] = "ended", s2[j] = "handled",
                        result[j] = "pending"
                 PROVE  k \in D
      OBVIOUS
    <3>1. j = i BY <1>5, <1>6
    <3>. QED BY <3>1 DEF Queued
  <2>. QED BY <1>6, <1>7, <2>1, DropLanes
<1>9. /\ t2 \in [Jobs -> {"none", "begin", "skip"}]
      /\ Turns(t2, next, s2, ContactsOf(contacts), expired, cancelled)
  <2>1. \A k \in Jobs : \/ Moved(status[k], s2[k])
                        \/ status[k] = "queued" /\ s2[k] \in {"running", "over"}
    BY <1>5, <1>6, <1>7
  <2>. QED BY <1>3, <1>5, <1>6, <2>1, SkipTurns
<1>. QED BY <1>4, <1>6, <1>8, <1>9, PumpKeeps

LEMMA HandleKeeps ==
  ASSUME SchedulerInv, NEW i \in Jobs, Handle(i)
  PROVE  SchedulerInv'
<1>1. CASE HandleDone(i) BY <1>1, HandleDoneKeeps
<1>2. CASE HandlePending(i)
  <2>1. PICK D \in SUBSET Queued : D = {k \in Queued : lane[k] = lane[i]} OBVIOUS
  <2>2. /\ status[i] = "ended" /\ UNCHANGED <<lane, cancelled>>
        /\ Pump(Skip(D), [Drop(D, status) EXCEPT ![i] = "handled"])
        /\ result' = [k \in Jobs |-> IF k \in D THEN "pending" ELSE result[k]]
    BY <1>2, <2>1 DEF HandlePending
  <2>3. PICK res : res = [k \in Jobs |-> IF k \in D THEN "pending" ELSE result[k]] OBVIOUS
  <2>4. res \in [Jobs -> Results] /\ \A k \in Jobs \ D : res[k] = result[k]
    BY <2>3 DEF SchedulerInv, SchedulerTyped, Results
  <2>5. \A j, k \in Jobs : j < k /\ lane[j] = lane[k] /\ status[k] = "queued" /\ j \in D
            => k \in D
    BY <2>1 DEF Queued
  <2>6. \A k \in Queued : lane[k] = lane[i] => k \in D BY <2>1
  <2>7. cancelled' \in BOOLEAN BY <2>2 DEF SchedulerInv, SchedulerTyped
  <2>. QED BY <2>2, <2>3, <2>4, <2>5, <2>6, <2>7, AbandonKeeps
<1>3. CASE HandleError(i)
  <2>1. PICK D \in SUBSET Queued : D = IF fatal THEN {} ELSE Queued OBVIOUS
  <2>2. /\ status[i] = "ended" /\ result[i] = "error" /\ UNCHANGED <<lane, result>>
        /\ cancelled' = TRUE
        /\ Pump(Skip(D), [Drop(D, status) EXCEPT ![i] = "handled"])
    BY <1>3, <2>1 DEF HandleError
  <2>3. PICK res \in [Jobs -> Results] : res = result BY DEF SchedulerInv, SchedulerTyped
  <2>4. \A j, k \in Jobs : j < k /\ lane[j] = lane[k] /\ status[k] = "queued" /\ j \in D
            => k \in D
    BY <2>1 DEF Queued
  <2>. QED BY <2>2, <2>3, <2>4, AbandonKeeps
<1>. QED BY <1>1, <1>2, <1>3 DEF Handle

LEMMA SchedulerStarts == OrderInit => SchedulerInv
<1> SUFFICES ASSUME OrderInit PROVE SchedulerInv
  OBVIOUS
<1>1. /\ lane \in [Jobs -> Jobs] /\ cancelled \in BOOLEAN
      /\ status = [i \in Jobs |-> "queued"] /\ result = [i \in Jobs |-> "none"]
      /\ turn = [i \in Jobs |-> "none"] /\ next = 1 /\ contacts = <<>> /\ expired = {}
  BY DEF OrderInit, LaneMaps
<1>2. SchedulerTyped BY <1>1, FiniteJobs DEF SchedulerTyped, JobStatuses, Results
<1>3. ContactsOf(contacts) = {} /\ DOMAIN contacts = {} BY <1>1 DEF ContactsOf
<1>4. Active(status) = {} BY <1>1 DEF Active
<1>5. LanesSound(status, result, ContactsOf(contacts))
  <2>1. Cardinality(Active(status)) <= MaxConcurrency
    <3>1. Cardinality(Active(status)) = 0 BY <1>4, FS_EmptySet
    <3>. QED BY <3>1, SchedulerAssumption
  <2>2. \A i \in Jobs : status[i] = "queued" /\ result[i] = "none" BY <1>1
  <2>. QED BY <1>3, <1>4, <2>1, <2>2 DEF LanesSound
<1>6. Turns(turn, next, status, ContactsOf(contacts), expired, cancelled)
  <2>1. \A i \in Jobs : ~(i < 1) BY DEF Jobs
  <2>. QED BY <1>1, <1>3, <2>1 DEF Turns
<1>7. Ordered(contacts, expired) BY <1>3 DEF Ordered
<1>. QED BY <1>2, <1>5, <1>6, <1>7 DEF SchedulerInv

LEMMA SchedulerStep == SchedulerInv /\ [OrderNext]_orderVars => SchedulerInv'
<1> SUFFICES ASSUME SchedulerInv, [OrderNext]_orderVars PROVE SchedulerInv'
  OBVIOUS
<1>1. CASE Start
  <2>1. PICK st \in [Jobs -> JobStatuses] : st = status BY DEF SchedulerInv, SchedulerTyped
  <2>2. UNCHANGED <<lane, cancelled>> /\ Schedule({}, st) BY <1>1, <2>1 DEF Start
  <2>3. PICK S \in SUBSET Jobs : S = {} OBVIOUS
  <2>. QED BY <2>1, <2>2, <2>3, ScheduleKeeps
<1>2. CASE Abort
  BY <1>2 DEF Abort, SchedulerInv, SchedulerTyped, LanesSound, Turns, Ordered, Active, ContactsOf
<1>3. ASSUME NEW i \in Jobs, Enter(i) PROVE SchedulerInv' BY <1>3, EnterKeeps
<1>4. ASSUME NEW i \in Jobs, Retry(i) PROVE SchedulerInv' BY <1>4, RetryKeeps
<1>5. ASSUME NEW i \in Jobs, End(i) PROVE SchedulerInv' BY <1>5, EndKeeps
<1>6. ASSUME NEW i \in Jobs, Handle(i) PROVE SchedulerInv' BY <1>6, HandleKeeps
<1>7. ASSUME NEW i \in Jobs, Finally(i) PROVE SchedulerInv'
  <2>1. PICK st : st = [status EXCEPT ![i] = "over"] OBVIOUS
  <2>2. status[i] = "handled" /\ UNCHANGED <<lane, cancelled>> /\ Schedule({i}, st)
    BY <1>7, <2>1 DEF Finally
  <2>3. /\ st \in [Jobs -> JobStatuses] /\ st[i] = "over"
        /\ \A k \in Jobs : k # i => st[k] = status[k]
    BY <2>1 DEF SchedulerInv, SchedulerTyped, JobStatuses
  <2>4. PICK S \in SUBSET Jobs : S = {i} OBVIOUS
  <2>5. /\ \A k \in Jobs : st[k] = status[k] \/ (status[k] = "handled" /\ st[k] = "over")
        /\ \A k \in S : st[k] = "over"
    BY <2>2, <2>3, <2>4
  <2>. QED BY <2>2, <2>3, <2>4, <2>5, ScheduleKeeps
<1>8. CASE UNCHANGED orderVars
  BY <1>8 DEF orderVars, SchedulerInv, SchedulerTyped, LanesSound, Turns, Ordered, Active,
              ContactsOf
<1>. QED BY <1>1, <1>2, <1>3, <1>4, <1>5, <1>6, <1>7, <1>8 DEF OrderNext

-----------------------------------------------------------------------------
(* What follows.                                                           *)

\* For any plan, lanes and slots: jobs of a lane run one at a time and within the
\* slots, and once one is left pending no later job of its lane contacts its
\* endpoint, whatever was cancelled or failed (runScheduledJobs).
THEOREM LanesAreKept == OrderSpec => []LaneDiscipline
<1>1. SchedulerInv => LaneDiscipline
  <2> SUFFICES ASSUME SchedulerInv PROVE LaneDiscipline
    OBVIOUS
  <2>1. LanesSound(status, result, ContactsOf(contacts)) /\ Contacted = ContactsOf(contacts)
    BY DEF SchedulerInv, Contacted, ContactsOf
  <2>. QED BY <2>1 DEF LanesSound, LaneDiscipline
<1>. QED BY <1>1, SchedulerStarts, SchedulerStep, PTL DEF OrderSpec

\* For any plan: a job that contacts its endpoint before an earlier one does so
\* only because the earlier one's lease ran out in the queue (StableDispatchOrder).
THEOREM ContactsFollowThePlan == OrderSpec => []OrderUnlessExpired
<1>1. SchedulerInv => OrderUnlessExpired
  <2> SUFFICES ASSUME SchedulerInv, NEW i \in Contacted, NEW k \in Contacted,
                      i < k, Position(k) < Position(i)
               PROVE  i \in expired
    BY DEF OrderUnlessExpired
  <2>1. \A j \in Contacted : Position(j) \in DOMAIN contacts /\ contacts[Position(j)] = j
    BY DEF Contacted, Position
  <2>2. i \in Nat /\ k \in Nat
    <3>1. contacts \in Seq(Jobs) BY DEF SchedulerInv, SchedulerTyped
    <3>2. Contacted \subseteq Jobs BY <3>1 DEF Contacted
    <3>. QED BY <3>2, FiniteJobs
  <2>3. Ordered(contacts, expired) BY DEF SchedulerInv
  <2>. QED BY <2>1, <2>2, <2>3 DEF Ordered
<1>. QED BY <1>1, SchedulerStarts, SchedulerStep, PTL DEF OrderSpec

-----------------------------------------------------------------------------
(* The jobs of a plan.                                                     *)

\* A number below m times n is m quotients with n remainders each.
LEMMA DivisionBelow ==
  ASSUME NEW n \in Nat \ {0}, NEW m \in Nat, NEW x \in Nat, x < m * n
  PROVE  x \div n \in 0 .. m - 1 /\ x % n \in 0 .. n - 1 /\ x = n * (x \div n) + (x % n)
<1> DEFINE q == x \div n
<1>1. q \in Int /\ x % n \in 0 .. n - 1 /\ x = n * q + (x % n)
  OBVIOUS
<1>2. q >= 0
  <2> SUFFICES ASSUME q < 0 PROVE FALSE OBVIOUS
  <2>1. n * q <= n * (-1) BY <1>1
  <2>. QED BY <1>1, <2>1
<1>3. q < m
  <2> SUFFICES ASSUME q >= m PROVE FALSE BY <1>1
  <2>1. n * q >= n * m BY <1>1
  <2>. QED BY <1>1, <2>1
<1>. QED BY <1>1, <1>2, <1>3

\* A number is its quotient and its remainder.
LEMMA DivisionUnique ==
  ASSUME NEW n \in Nat \ {0}, NEW q \in Nat, NEW r \in 0 .. n - 1
  PROVE  (n * q + r) \div n = q /\ (n * q + r) % n = r
<1> DEFINE x == n * q + r
           d == x \div n
<1>1. x \in Nat /\ d \in Int /\ x % n \in 0 .. n - 1 /\ x = n * d + (x % n)
  <2>1. n * q \in Nat OBVIOUS
  <2>. QED BY <2>1
<1>2. d = q
  <2>1. CASE d < q
    <3>1. n * d <= n * (q - 1) BY <1>1, <2>1
    <3>2. n * (q - 1) = n * q - n OBVIOUS
    <3>. QED BY <1>1, <3>1, <3>2
  <2>2. CASE d > q
    <3>1. n * d >= n * (q + 1) BY <1>1, <2>2
    <3>2. n * (q + 1) = n * q + n OBVIOUS
    <3>. QED BY <1>1, <3>1, <3>2
  <2>. QED BY <1>1, <2>1, <2>2
<1>. QED BY <1>1, <1>2

\* The replicates of a block.
LEMMA BlockShape ==
  ASSUME NEW index \in Nat
  PROVE  /\ Len(Base) \in Nat \ {0} /\ DOMAIN Base = 1 .. Len(Base)
         /\ IsFiniteSet(Block(index)) /\ Cardinality(Block(index)) = Len(Base)
         /\ index \in Block(index) /\ Block(index) \subseteq Int
         /\ \A other \in Nat : other \div Len(Base) = index \div Len(Base) =>
               Block(other) = Block(index)
<1>1. Len(Base) \in Nat \ {0} /\ DOMAIN Base = 1 .. Len(Base) BY PlanAssumption
<1>2. PICK n \in Nat \ {0} : n = Len(Base) BY <1>1
<1>3. \A i \in Nat : i % n \in 0 .. n - 1 /\ i = n * (i \div n) + (i % n) OBVIOUS
<1>4. \A i \in Nat : Block(i) = (i - (i % n)) .. (i - (i % n) + n - 1) BY <1>2 DEF Block
<1>5. IsFiniteSet(Block(index)) /\ Cardinality(Block(index)) = n
  <2>0. PICK first : first = index - (index % n) OBVIOUS
  <2>1. first \in Int /\ first = index - (index % n)
    <3>1. index % n \in 0 .. n - 1 BY <1>3
    <3>. QED BY <2>0, <3>1
  <2>2. Block(index) = first .. (first + n - 1) BY <1>4, <2>1
  <2>3. PICK last : last = first + n - 1 OBVIOUS
  <2>4. last \in Int /\ last - first + 1 = n /\ ~(first > last) BY <2>1, <2>3
  <2>5. /\ IsFiniteSet(first .. last)
        /\ Cardinality(first .. last) = IF first > last THEN 0 ELSE last - first + 1
    BY <2>1, <2>4, FS_Interval
  <2>. QED BY <2>2, <2>3, <2>4, <2>5
<1>6. index \in Block(index) /\ Block(index) \subseteq Int
  <2>0. PICK first : first = index - (index % n) OBVIOUS
  <2>1. first \in Int /\ first = index - (index % n)
    <3>1. index % n \in 0 .. n - 1 BY <1>3
    <3>. QED BY <2>0, <3>1
  <2>2. Block(index) = first .. (first + n - 1) BY <1>4, <2>1
  <2>3. index % n \in 0 .. n - 1 BY <1>3
  <2>4. first <= index /\ index <= first + n - 1 BY <2>1, <2>3
  <2>. QED BY <2>2, <2>4
<1>7. ASSUME NEW other \in Nat, other \div n = index \div n PROVE Block(other) = Block(index)
  <2>1. PICK first : first = n * (index \div n) OBVIOUS
  <2>2. first \in Int /\ index = first + (index % n) BY <1>3, <2>1
  <2>3. n * (other \div n) = first BY <1>7, <2>1
  <2>4. other = first + (other % n) BY <1>3, <2>3
  <2>5. PICK r, s : r = index % n /\ s = other % n OBVIOUS
  <2>6. r \in Int /\ s \in Int /\ index = first + r /\ other = first + s
    BY <1>3, <2>2, <2>4, <2>5
  <2>7. other - s = index - r BY <2>2, <2>6
  <2>. QED BY <1>4, <2>5, <2>7
<1>. QED BY <1>1, <1>2, <1>5, <1>6, <1>7

\* Replicates of one block differ in rank.
LEMMA RanksDiffer ==
  ASSUME NEW case, NEW a \in Nat, NEW b \in Nat,
         \A i \in Block(a) : hash.digest[<<case, i>>] \in Int
  PROVE  /\ Rank(case, a) \in 0 .. Len(Base) - 1
         /\ a \div Len(Base) = b \div Len(Base) /\ a # b => Rank(case, a) # Rank(case, b)
<1> DEFINE B == Block(a)
           lower(i) == {k \in B : Before(case, k, i)}
<1>1. /\ IsFiniteSet(B) /\ Cardinality(B) = Len(Base) /\ Len(Base) \in Nat /\ a \in B
      /\ B \subseteq Int
  BY BlockShape
<1>2. ASSUME NEW i \in B
      PROVE  /\ IsFiniteSet(lower(i)) /\ Cardinality(lower(i)) \in 0 .. Len(Base) - 1
  <2>1. i \notin lower(i) BY <1>1 DEF Before
  <2>2. IsFiniteSet(B \ {i}) /\ Cardinality(B \ {i}) = Len(Base) - 1
    BY <1>1, FS_RemoveElement
  <2>3. lower(i) \in SUBSET (B \ {i}) BY <2>1
  <2>4. IsFiniteSet(lower(i)) /\ Cardinality(lower(i)) <= Cardinality(B \ {i})
    BY <2>2, <2>3, FS_Subset
  <2>5. Cardinality(lower(i)) \in Nat BY <2>4, FS_CardinalityType
  <2>. QED BY <1>1, <2>2, <2>4, <2>5
<1>3. ASSUME NEW i \in B, NEW k \in B, Before(case, i, k)
      PROVE  Cardinality(lower(i)) # Cardinality(lower(k))
  <2>1. lower(i) \in SUBSET lower(k) BY <1>1, <1>3 DEF Before
  <2>2. i \in lower(k) /\ i \notin lower(i) BY <1>1, <1>3 DEF Before
  <2>. QED BY <1>2, <2>1, <2>2, FS_Subset
<1>4. \A i, k \in B : i # k => Before(case, i, k) \/ Before(case, k, i)
  BY <1>1 DEF Before
<1>5. Rank(case, a) = Cardinality(lower(a)) BY DEF Rank
<1>6. ASSUME a \div Len(Base) = b \div Len(Base), a # b
      PROVE  Rank(case, a) # Rank(case, b)
  <2>1. Block(b) = B /\ b \in B BY <1>6, BlockShape
  <2>2. Rank(case, b) = Cardinality(lower(b)) BY <2>1 DEF Rank
  <2>. QED BY <1>1, <1>3, <1>4, <1>5, <1>6, <2>1, <2>2
<1>. QED BY <1>1, <1>2, <1>5, <1>6

\* The sample is finite, and made of positions and indices.
LEMMA SampleFinite ==
  ASSUME workload \in Workloads
  PROVE  /\ IsFiniteSet(InSample) /\ Cardinality(InSample) \in Nat
         /\ \A r \in InSample : /\ r[1] \in DOMAIN workload /\ r[1] \in Nat
                                /\ r[2] \in 0 .. workload[r[1]].replicates - 1
                                /\ r = <<r[1], r[2]>>
<1> DEFINE S == {{i} \X (0 .. workload[i].replicates - 1) : i \in DOMAIN workload}
<1>1. /\ DOMAIN workload = 1 .. Len(workload) /\ Len(workload) \in Nat
      /\ \A i \in DOMAIN workload : workload[i].replicates \in Nat
  BY PlanAssumption
<1>2. IsFiniteSet(DOMAIN workload)
  <2>1. PICK n \in Nat : DOMAIN workload = 1 .. n BY <1>1
  <2>2. IsFiniteSet(1 .. n) BY FS_Interval
  <2>. QED BY <2>1, <2>2
<1>3. IsFiniteSet(S)
  <2> DEFINE g == [i \in DOMAIN workload |-> {i} \X (0 .. workload[i].replicates - 1)]
  <2>1. g \in Surjection(DOMAIN workload, S) BY DEF Surjection
  <2>. QED BY <1>2, <2>1, FS_Surjection
<1>4. \A T \in S : IsFiniteSet(T)
  <2> SUFFICES ASSUME NEW i \in DOMAIN workload
               PROVE  IsFiniteSet({i} \X (0 .. workload[i].replicates - 1))
    OBVIOUS
  <2>1. IsFiniteSet({i}) BY FS_Singleton
  <2>2. workload[i].replicates - 1 \in Int BY <1>1
  <2>3. IsFiniteSet(0 .. workload[i].replicates - 1) BY <2>2, FS_Interval
  <2>. QED BY <2>1, <2>3, FS_Product
<1>5. IsFiniteSet(UNION S) BY <1>3, <1>4, FS_UNION
<1>6. InSample \in SUBSET UNION S BY DEF InSample
<1>7. IsFiniteSet(InSample) BY <1>5, <1>6, FS_Subset
<1>8. ASSUME NEW r \in InSample
      PROVE  /\ r[1] \in DOMAIN workload /\ r[1] \in Nat
             /\ r[2] \in 0 .. workload[r[1]].replicates - 1 /\ r = <<r[1], r[2]>>
  <2>1. PICK i \in DOMAIN workload : r \in {i} \X (0 .. workload[i].replicates - 1)
    BY DEF InSample
  <2>. QED BY <1>1, <2>1
<1>. QED BY <1>7, <1>8, FS_CardinalityType

\* Numbering the sample by what comes before leaves no number out.
LEMMA SampleNumbered ==
  ASSUME workload \in Workloads, NEW k \in 1 .. Cardinality(InSample)
  PROVE  Sampled[k] \in InSample
<1>1. PICK S : S = InSample OBVIOUS
<1>2. PICK n : n = Cardinality(S) OBVIOUS
<1> DEFINE lower(r) == {s \in S : Precedes(s, r)}
           place == [r \in S |-> Cardinality(lower(r)) + 1]
<1>3. IsFiniteSet(S) /\ n \in Nat
      /\ \A r \in S : r[1] \in Nat /\ r[2] \in Nat /\ r = <<r[1], r[2]>>
  <2>1. \A r \in S : workload[r[1]].replicates \in Nat
    BY <1>1, SampleFinite, PlanAssumption
  <2>. QED BY <1>1, <1>2, <2>1, SampleFinite
<1>4. ASSUME NEW r \in S
      PROVE  /\ IsFiniteSet(lower(r)) /\ Cardinality(lower(r)) \in 0 .. n - 1
             /\ Cardinality(lower(r)) \in Int
  <2>1. r \notin lower(r) BY <1>3 DEF Precedes
  <2>2. IsFiniteSet(S \ {r}) /\ Cardinality(S \ {r}) = n - 1
    BY <1>2, <1>3, FS_RemoveElement
  <2>3. lower(r) \in SUBSET (S \ {r}) BY <2>1
  <2>4. IsFiniteSet(lower(r)) /\ Cardinality(lower(r)) <= n - 1
    BY <2>2, <2>3, FS_Subset
  <2>5. Cardinality(lower(r)) \in Nat BY <2>4, FS_CardinalityType
  <2>. QED BY <1>3, <2>4, <2>5
<1>5. ASSUME NEW r \in S, NEW s \in S, Precedes(r, s)
      PROVE  Cardinality(lower(r)) # Cardinality(lower(s))
  <2>1. lower(r) \in SUBSET lower(s) BY <1>3, <1>5 DEF Precedes
  <2>2. r \in lower(s) /\ r \notin lower(r) BY <1>3, <1>5 DEF Precedes
  <2>. QED BY <1>4, <2>1, <2>2, FS_Subset
<1>6. \A r, s \in S : r # s => Precedes(r, s) \/ Precedes(s, r)
  BY <1>3 DEF Precedes
<1>7. place \in [S -> 1 .. n]
  <2> SUFFICES ASSUME NEW r \in S PROVE Cardinality(lower(r)) + 1 \in 1 .. n
    OBVIOUS
  <2>1. PICK c : c = Cardinality(lower(r)) OBVIOUS
  <2>2. c \in 0 .. n - 1 BY <1>4, <2>1
  <2>. QED BY <1>3, <2>1, <2>2
<1>8. \A r, s \in S : place[r] = place[s] => r = s
  <2> SUFFICES ASSUME NEW r \in S, NEW s \in S, r # s PROVE place[r] # place[s]
    OBVIOUS
  <2>1. Cardinality(lower(r)) # Cardinality(lower(s)) BY <1>5, <1>6
  <2>2. Cardinality(lower(r)) \in Int /\ Cardinality(lower(s)) \in Int BY <1>4
  <2>3. PICK c, d : c = Cardinality(lower(r)) /\ d = Cardinality(lower(s)) OBVIOUS
  <2>4. place[r] = c + 1 /\ place[s] = d + 1 BY <2>3
  <2>5. c \in Int /\ d \in Int /\ c # d BY <2>1, <2>2, <2>3
  <2> HIDE DEF place
  <2>. QED BY <2>4, <2>5
<1>9. place \in Injection(S, 1 .. n) BY <1>7, <1>8 DEF Injection, IsInjective
<1>10. IsFiniteSet(1 .. n) /\ Cardinality(1 .. n) = n BY <1>3, FS_Interval
<1>11. place \in Surjection(S, 1 .. n)
  BY <1>2, <1>9, <1>10, FS_Injection
<1>12. \E r \in S : place[r] = k BY <1>1, <1>2, <1>11 DEF Surjection
<1>13. \E r \in S : Cardinality(lower(r)) = k - 1
  <2>1. PICK r \in S : place[r] = k BY <1>12
  <2>2. Cardinality(lower(r)) + 1 = k BY <2>1
  <2>3. Cardinality(lower(r)) \in Int BY <1>4
  <2>. QED BY <2>2, <2>3
<1>14. Sampled[k] = CHOOSE r \in S : Cardinality(lower(r)) = k - 1
  BY <1>1, <1>2 DEF Sampled
<1>. QED BY <1>1, <1>13, <1>14

\* Every job is of a replicate in the sample, under the profile whose turn it is;
\* every such job is in the list.
JobOf(r, k) ==
    [case |-> workload[r[1]].case, index |-> r[2],
     profile |-> ProfileOrder(workload[r[1]].case, r[2])[k], place |-> k]

LEMMA JobsShape ==
  ASSUME workload \in Workloads
  PROVE  /\ \A j \in DOMAIN JobList : \E m \in 1 .. Cardinality(InSample), k \in DOMAIN Base :
               JobList[j] = JobOf(Sampled[m], k)
         /\ \A m \in 1 .. Cardinality(InSample), k \in DOMAIN Base :
               \E j \in DOMAIN JobList : JobList[j] = JobOf(Sampled[m], k)
<1>1. PICK n \in Nat \ {0} : n = Len(Base) /\ DOMAIN Base = 1 .. n BY BlockShape
<1>2. PICK size \in Nat : size = Cardinality(InSample) BY SampleFinite
<1>3. /\ DOMAIN JobList = 1 .. size * n /\ size * n \in Nat
      /\ \A j \in 1 .. size * n :
            JobList[j] = JobOf(Sampled[((j - 1) \div n) + 1], ((j - 1) % n) + 1)
  BY <1>1, <1>2 DEF JobList, JobOf
<1>4. ASSUME NEW j \in DOMAIN JobList
      PROVE  \E m \in 1 .. size, k \in 1 .. n : JobList[j] = JobOf(Sampled[m], k)
  <2>0. PICK total \in Nat : total = size * n BY <1>3
  <2>1. j - 1 \in Nat /\ j - 1 < total BY <1>3, <2>0
  <2>2. (j - 1) \div n \in 0 .. size - 1 /\ (j - 1) % n \in 0 .. n - 1
    BY <2>0, <2>1, DivisionBelow
  <2>3. ((j - 1) \div n) + 1 \in 1 .. size /\ ((j - 1) % n) + 1 \in 1 .. n BY <2>2
  <2>. QED BY <1>3, <2>3
<1>5. ASSUME NEW m \in 1 .. size, NEW k \in 1 .. n
      PROVE  \E j \in DOMAIN JobList : JobList[j] = JobOf(Sampled[m], k)
  <2>1. PICK x \in Nat : x = n * (m - 1) + (k - 1)
    <3>1. n * (m - 1) \in Nat OBVIOUS
    <3>. QED BY <3>1
  <2>2. x \div n = m - 1 /\ x % n = k - 1
    <3>1. PICK q \in Nat, rest \in 0 .. n - 1 : q = m - 1 /\ rest = k - 1 OBVIOUS
    <3>2. x = n * q + rest BY <2>1, <3>1
    <3>. QED BY <3>1, <3>2, DivisionUnique
  <2>3. x + 1 \in 1 .. size * n
    <3>1. n * (m - 1) \in Nat /\ n * (m - 1) <= n * (size - 1) BY <2>1
    <3>2. n * (size - 1) = size * n - n OBVIOUS
    <3>. QED BY <2>1, <3>1, <3>2
  <2>4. (x + 1) - 1 = x OBVIOUS
  <2>5. (m - 1) + 1 = m /\ (k - 1) + 1 = k OBVIOUS
  <2>6. JobList[x + 1] = JobOf(Sampled[m], k) BY <1>3, <2>2, <2>3, <2>4, <2>5
  <2>. QED BY <1>3, <2>3, <2>6
<1>6. \A j \in DOMAIN JobList : \E m \in 1 .. Cardinality(InSample), k \in DOMAIN Base :
          JobList[j] = JobOf(Sampled[m], k)
  BY <1>1, <1>2, <1>4
<1>7. \A m \in 1 .. Cardinality(InSample), k \in DOMAIN Base :
          \E j \in DOMAIN JobList : JobList[j] = JobOf(Sampled[m], k)
  BY <1>1, <1>2, <1>5
<1>. QED BY <1>6, <1>7

\* A rotation of the profiles has each of them once, and two rotations that agree
\* somewhere are by the same rank.
LEMMA Rotation ==
  ASSUME NEW n \in Nat \ {0}, NEW a \in 0 .. n - 1, NEW b \in 0 .. n - 1, NEW k \in 1 .. n
  PROVE  /\ ((a + k - 1) % n) + 1 \in 1 .. n
         /\ (a + k - 1) % n = (b + k - 1) % n => a = b
         /\ \A i \in 1 .. n : \E l \in 1 .. n : ((a + l - 1) % n) + 1 = i
<1>1. ASSUME NEW x \in Nat, x < 2 * n
      PROVE  x % n = IF x < n THEN x ELSE x - n
  <2>1. CASE x < n
    <3>1. (n * 0 + x) % n = x BY <2>1, DivisionUnique
    <3>. QED BY <2>1, <3>1
  <2>2. CASE ~(x < n)
    <3>1. x - n \in 0 .. n - 1 BY <1>1, <2>2
    <3>2. (n * 1 + (x - n)) % n = x - n BY <3>1, DivisionUnique
    <3>3. n * 1 + (x - n) = x OBVIOUS
    <3>. QED BY <2>2, <3>2, <3>3
  <2>. QED BY <2>1, <2>2
<1>2. ASSUME NEW c \in 0 .. n - 1, NEW l \in 1 .. n
      PROVE  (c + l - 1) % n = IF c + l - 1 < n THEN c + l - 1 ELSE c + l - 1 - n
  <2>1. c + l - 1 \in Nat /\ c + l - 1 < 2 * n OBVIOUS
  <2>. QED BY <1>1, <2>1
<1>3. ASSUME NEW i \in 1 .. n PROVE \E l \in 1 .. n : ((a + l - 1) % n) + 1 = i
  <2>1. CASE i > a
    <3>1. PICK l : l = i - a OBVIOUS
    <3>2. l \in 1 .. n /\ a + l - 1 = i - 1 BY <2>1, <3>1
    <3>3. (a + l - 1) % n = i - 1 BY <1>2, <3>2
    <3>4. ((a + l - 1) % n) + 1 = i BY <3>3
    <3>. QED BY <3>2, <3>4
  <2>2. CASE i <= a
    <3>1. PICK l : l = (i - a) + n OBVIOUS
    <3>2. l \in 1 .. n /\ a + l - 1 = (i - 1) + n BY <2>2, <3>1
    <3>3. (a + l - 1) % n = i - 1 BY <1>2, <3>2
    <3>4. ((a + l - 1) % n) + 1 = i BY <3>3
    <3>. QED BY <3>2, <3>4
  <2>. QED BY <2>1, <2>2
<1>4. ((a + k - 1) % n) + 1 \in 1 .. n BY <1>2
<1>5. (a + k - 1) % n = (b + k - 1) % n => a = b BY <1>2
<1>. QED BY <1>3, <1>4, <1>5

\* The profiles of a replicate are those of the protocol, and two replicates of a
\* block share none at the same place.
LEMMA OrdersRotate ==
  ASSUME NEW case, NEW a \in Nat, \A i \in Block(a) : hash.digest[<<case, i>>] \in Int
  PROVE  /\ \A k \in DOMAIN Base : ProfileOrder(case, a)[k] \in Profiles
         /\ \A profile \in Profiles : \E k \in DOMAIN Base : ProfileOrder(case, a)[k] = profile
         /\ \A b \in Nat, k \in DOMAIN Base :
               a # b /\ a \div Len(Base) = b \div Len(Base)
                   => ProfileOrder(case, a)[k] # ProfileOrder(case, b)[k]
<1>1. PICK n \in Nat \ {0} : n = Len(Base) /\ DOMAIN Base = 1 .. n BY BlockShape
<1>2. Rank(case, a) \in 0 .. n - 1 BY <1>1, RanksDiffer
<1>3. \A k \in 1 .. n : /\ ProfileOrder(case, a)[k] = Base[((Rank(case, a) + k - 1) % n) + 1]
                        /\ ((Rank(case, a) + k - 1) % n) + 1 \in 1 .. n
  BY <1>1, <1>2, Rotation DEF ProfileOrder
<1>4. Profiles = {Base[i] : i \in 1 .. n} BY <1>1 DEF Profiles, Range
<1>5. ASSUME NEW i \in 1 .. n PROVE \E k \in 1 .. n : ProfileOrder(case, a)[k] = Base[i]
  <2>1. PICK k \in 1 .. n : ((Rank(case, a) + k - 1) % n) + 1 = i BY <1>2, Rotation
  <2>. QED BY <1>3, <2>1
<1>6. ASSUME NEW b \in Nat, NEW k \in 1 .. n, a # b, a \div n = b \div n,
             ProfileOrder(case, a)[k] = ProfileOrder(case, b)[k]
      PROVE  FALSE
  <2>1. \A i \in Block(b) : hash.digest[<<case, i>>] \in Int BY <1>1, <1>6, BlockShape
  <2>2. Rank(case, b) \in 0 .. n - 1 BY <1>1, <2>1, RanksDiffer
  <2>3. /\ ProfileOrder(case, b)[k] = Base[((Rank(case, b) + k - 1) % n) + 1]
        /\ ((Rank(case, b) + k - 1) % n) + 1 \in 1 .. n
    BY <1>1, <2>2, Rotation DEF ProfileOrder
  <2>4. ((Rank(case, a) + k - 1) % n) + 1 = ((Rank(case, b) + k - 1) % n) + 1
    BY <1>1, <1>3, <1>6, <2>3, PlanAssumption
  <2>5. (Rank(case, a) + k - 1) % n = (Rank(case, b) + k - 1) % n
    <3>1. Rank(case, a) + k - 1 \in Nat /\ Rank(case, b) + k - 1 \in Nat BY <1>2, <2>2
    <3>2. \A x \in Nat : x % n \in Int OBVIOUS
    <3>. QED BY <2>4, <3>1, <3>2
  <2>6. Rank(case, a) = Rank(case, b) BY <1>2, <2>2, <2>5, Rotation
  <2>. QED BY <1>1, <1>6, <2>6, RanksDiffer
<1>7. \A k \in DOMAIN Base : ProfileOrder(case, a)[k] \in Profiles BY <1>1, <1>3, <1>4
<1>8. \A profile \in Profiles : \E k \in DOMAIN Base : ProfileOrder(case, a)[k] = profile
  <2> SUFFICES ASSUME NEW profile \in Profiles
               PROVE  \E k \in DOMAIN Base : ProfileOrder(case, a)[k] = profile
    OBVIOUS
  <2>1. PICK i \in 1 .. n : Base[i] = profile BY <1>4
  <2>. QED BY <1>1, <1>5, <2>1
<1>9. \A b \in Nat, k \in DOMAIN Base :
         a # b /\ a \div Len(Base) = b \div Len(Base)
             => ProfileOrder(case, a)[k] # ProfileOrder(case, b)[k]
  BY <1>1, <1>6
<1>. QED BY <1>7, <1>8, <1>9

\* What a job of the list is.
LEMMA JobsSampled ==
  ASSUME workload \in Workloads, hash \in Hashes, NEW m \in 1 .. Cardinality(InSample)
  PROVE  /\ Sampled[m][1] \in DOMAIN workload /\ Sampled[m][2] \in Nat
         /\ \A i \in Block(Sampled[m][2]) :
               hash.digest[<<workload[Sampled[m][1]].case, i>>] \in Int
<1>1. PICK r : r = Sampled[m] OBVIOUS
<1>2. r[1] \in DOMAIN workload /\ r[2] \in 0 .. workload[r[1]].replicates - 1
  BY <1>1, SampleNumbered, SampleFinite
<1>3. workload[r[1]].replicates \in Nat BY <1>2, PlanAssumption
<1>4. \A i \in Block(r[2]) : hash.digest[<<workload[r[1]].case, i>>] \in Int
  BY <1>2, PlanAssumption
<1>. QED BY <1>1, <1>2, <1>3, <1>4

LEMMA JobListBalanced ==
  ASSUME workload \in Workloads, hash \in Hashes, jobs = JobList
  PROVE  OrderIsCounterbalanced
<1> SUFFICES ASSUME NEW a \in Range(jobs), NEW b \in Range(jobs)
             PROVE  /\ (/\ a.case = b.case /\ a.index # b.index /\ a.profile = b.profile
                        /\ a.index \div Len(Base) = b.index \div Len(Base))
                          => a.place # b.place
                    /\ \E c \in Range(jobs) :
                          c.case = a.case /\ c.index = a.index /\ c.profile = b.profile
  BY DEF OrderIsCounterbalanced
<1>0. PICK j \in DOMAIN JobList, l \in DOMAIN JobList : a = JobList[j] /\ b = JobList[l]
  BY DEF Range
<1>1. PICK m \in 1 .. Cardinality(InSample), k \in DOMAIN Base : JobList[j] = JobOf(Sampled[m], k)
  BY JobsShape
<1>2. PICK o \in 1 .. Cardinality(InSample), i \in DOMAIN Base : JobList[l] = JobOf(Sampled[o], i)
  BY JobsShape
<1>3. PICK case, index : case = workload[Sampled[m][1]].case /\ index = Sampled[m][2] OBVIOUS
<1>4. PICK other, at : other = workload[Sampled[o][1]].case /\ at = Sampled[o][2] OBVIOUS
<1>5. /\ JobList[j] = [case |-> case, index |-> index,
                       profile |-> ProfileOrder(case, index)[k], place |-> k]
      /\ JobList[l] = [case |-> other, index |-> at,
                       profile |-> ProfileOrder(other, at)[i], place |-> i]
  BY <1>1, <1>2, <1>3, <1>4 DEF JobOf
<1>6. /\ index \in Nat /\ \A x \in Block(index) : hash.digest[<<case, x>>] \in Int
      /\ at \in Nat /\ \A x \in Block(at) : hash.digest[<<other, x>>] \in Int
  BY <1>3, <1>4, JobsSampled
<1>7. ASSUME case = other, index # at, index \div Len(Base) = at \div Len(Base), k = i
      PROVE  ProfileOrder(case, index)[k] # ProfileOrder(other, at)[i]
  BY <1>6, <1>7, OrdersRotate
<1>8. \E h \in DOMAIN JobList :
          /\ JobList[h].case = case /\ JobList[h].index = index
          /\ JobList[h].profile = ProfileOrder(other, at)[i]
  <2>1. PICK profile \in Profiles : profile = ProfileOrder(other, at)[i]
    BY <1>6, OrdersRotate
  <2>2. PICK x \in DOMAIN Base : ProfileOrder(case, index)[x] = profile
    BY <1>6, OrdersRotate
  <2>3. PICK h \in DOMAIN JobList : JobList[h] = JobOf(Sampled[m], x) BY JobsShape
  <2>. QED BY <1>3, <2>1, <2>2, <2>3 DEF JobOf
<1>9. \A h \in DOMAIN JobList : JobList[h] \in Range(jobs) BY DEF Range
<1>. QED BY <1>0, <1>5, <1>7, <1>8, <1>9

-----------------------------------------------------------------------------
(* The authority of an execution.                                          *)

Works == [at : WorkStages, n : 1 .. Protocol.maximumAttempts]
ExecutionsOf(J) ==
    [at : {"admission", "jobs"}, deadline : Int, live : LiveTargets, calls : Int,
     cancelled : BOOLEAN, work : [J -> Works]]
JobRecords ==
    [intent : BOOLEAN, leases : [1 .. Protocol.maximumAttempts -> Int \cup {Nil, "spent"}],
     outcomes : Seq({"unsent", "final"}), accepted : BOOLEAN]

PlanSound ==
    /\ time \in Nat /\ workload \in Workloads /\ hash \in Hashes
    /\ plan = Nil => jobs = <<>> /\ execution = Nil
    /\ plan # Nil => /\ plan \in Drafts /\ PlanHolds(plan) /\ jobs = JobList
                     /\ record \in [PlanJobs -> JobRecords] /\ sent \in [PlanJobs -> Nat]
    /\ granted # Nil => plan # Nil /\ granted \in Int /\ granted <= AuthorityEndsAt

\* An execution began under its authority and ends with it, and so do its leases.
ExecutionSound ==
    execution # Nil =>
        /\ execution \in ExecutionsOf(PlanJobs) /\ LiveTargetsHold(execution.live)
        /\ Protocol.created <= time /\ plan.issued <= time /\ plan.window.start <= time
        /\ execution.deadline <= AuthorityEndsAt
        /\ \A j \in PlanJobs : execution.work[j].at = "leased" =>
               LeaseOf(j) \in Int /\ LeaseOf(j) <= AuthorityEndsAt

PlanInv == PlanSound /\ ExecutionSound

LEMMA PlanStarts == PlanInit => PlanInv
  BY DEF PlanInit, PlanInv, PlanSound, ExecutionSound

\* The end of the authority of a plan.
LEMMA AuthorityEnds ==
  ASSUME plan \in Drafts
  PROVE  /\ AuthorityEndsAt \in Nat
         /\ AuthorityEndsAt <= Protocol.expires /\ AuthorityEndsAt <= plan.expires
         /\ AuthorityEndsAt <= plan.window.end
<1>1. Protocol.expires \in Nat /\ plan.expires \in Nat /\ plan.window.end \in Nat
  BY PlanAssumption
<1>. QED BY <1>1 DEF AuthorityEndsAt, Least

\* What a step of job j may do: it leaves the execution's authority and the other
\* jobs' records alone, and a lease that it takes ends with the execution.
JobStep(j) ==
    /\ execution' \in ExecutionsOf(PlanJobs)
    /\ execution'.live = execution.live /\ execution'.deadline = execution.deadline
    /\ record' \in [PlanJobs -> JobRecords]
    /\ \A k \in PlanJobs \ {j} :
          /\ record'[k] = record[k]
          /\ execution'.work[k].at = "leased" => execution'.work[k] = execution.work[k]
    /\ execution'.work[j].at = "leased" =>
          LET lease == record'[j].leases[execution'.work[j].n]
          IN  lease \in Int /\ lease <= execution.deadline

LEMMA JobStepKeeps ==
  ASSUME PlanInv, plan # Nil, execution # Nil, NEW j \in PlanJobs, JobStep(j),
         UNCHANGED <<inputVars, time, granted>>, sent' \in [PlanJobs -> Nat]
  PROVE  PlanInv'
<1>1. PlanSound /\ ExecutionSound BY DEF PlanInv
<1>2. PlanJobs' = PlanJobs /\ AuthorityEndsAt' = AuthorityEndsAt /\ JobList' = JobList
  BY DEF inputVars, PlanJobs, AuthorityEndsAt, JobList, Sampled, InSample, Precedes, IsSelected,
         ProfileOrder, Rank, Before
<1>3. PlanSound'
  BY <1>1, <1>2 DEF PlanSound, inputVars, JobStep, PlanHolds, WithinPolicy, TargetsHold, BudgetHolds
<1>4. AuthorityEndsAt \in Int /\ execution.deadline \in Int
  BY <1>1, AuthorityEnds DEF PlanSound, ExecutionSound, ExecutionsOf
<1>5. ASSUME NEW k \in PlanJobs, execution'.work[k].at = "leased"
      PROVE  /\ record'[k].leases[execution'.work[k].n] \in Int
             /\ record'[k].leases[execution'.work[k].n] <= AuthorityEndsAt
  <2>1. CASE k = j
    <3>1. PICK lease : lease = record'[j].leases[execution'.work[j].n] OBVIOUS
    <3>2. lease \in Int /\ lease <= execution.deadline BY <1>5, <2>1, <3>1 DEF JobStep
    <3>3. execution.deadline <= AuthorityEndsAt BY <1>1 DEF ExecutionSound
    <3>. QED BY <1>4, <2>1, <3>1, <3>2, <3>3
  <2>2. CASE k # j
    <3>1. record'[k] = record[k] /\ execution'.work[k] = execution.work[k]
      BY <1>5, <2>2 DEF JobStep
    <3>. QED BY <1>1, <1>5, <3>1 DEF ExecutionSound, LeaseOf
  <2>. QED BY <2>1, <2>2
<1>6. ExecutionSound'
  <2>1. execution' \in ExecutionsOf(PlanJobs') BY <1>2 DEF JobStep
  <2>2. LiveTargetsHold(execution.live)' BY <1>1 DEF ExecutionSound, LiveTargetsHold, JobStep, inputVars
  <2>3. /\ Protocol.created <= time' /\ plan'.issued <= time' /\ plan'.window.start <= time'
        /\ execution'.deadline <= AuthorityEndsAt'
    BY <1>1, <1>2 DEF ExecutionSound, JobStep, inputVars
  <2>. QED BY <1>2, <1>5, <2>1, <2>2, <2>3 DEF ExecutionSound, LeaseOf, ExecutionsOf
<1>. QED BY <1>3, <1>6 DEF PlanInv

\* The ways a job moves on.
LEMMA MovesStep ==
  ASSUME PlanInv, plan # Nil, execution # Nil, NEW j \in PlanJobs,
         NEW stage \in WorkStages \ {"leased"}, Moves(j, stage)
  PROVE  JobStep(j)
<1>1. PICK e : e = execution OBVIOUS
<1>2. e \in ExecutionsOf(PlanJobs) /\ record \in [PlanJobs -> JobRecords]
  BY <1>1 DEF PlanInv, PlanSound, ExecutionSound
<1>3. execution' = [e EXCEPT !.work[j].at = stage] /\ record' = record BY <1>1 DEF Moves
<1>. QED BY <1>1, <1>2, <1>3 DEF JobStep, ExecutionsOf, Works, WorkStages

LEMMA RecordsStep ==
  ASSUME PlanInv, plan # Nil, execution # Nil, NEW j \in PlanJobs,
         NEW stage \in WorkStages, NEW changed \in JobRecords, Records(j, changed, stage),
         stage = "leased" =>
             LET lease == changed.leases[execution.work[j].n]
             IN  lease \in Int /\ lease <= execution.deadline
  PROVE  JobStep(j)
<1>1. PICK e : e = execution OBVIOUS
<1>2. e \in ExecutionsOf(PlanJobs) /\ record \in [PlanJobs -> JobRecords]
  BY <1>1 DEF PlanInv, PlanSound, ExecutionSound
<1>3. /\ execution' = [e EXCEPT !.work[j].at = stage]
      /\ record' = [record EXCEPT ![j] = changed]
  BY <1>1 DEF Records
<1>4. execution' \in ExecutionsOf(PlanJobs) BY <1>2, <1>3 DEF ExecutionsOf, Works
<1>5. /\ record' \in [PlanJobs -> JobRecords] /\ record'[j] = changed
      /\ \A k \in PlanJobs \ {j} : record'[k] = record[k]
  BY <1>2, <1>3
<1>6. /\ execution'.live = e.live /\ execution'.deadline = e.deadline
      /\ execution'.work[j].at = stage /\ execution'.work[j].n = e.work[j].n
      /\ \A k \in PlanJobs \ {j} : execution'.work[k] = e.work[k]
  BY <1>2, <1>3 DEF ExecutionsOf, Works
<1>. QED BY <1>1, <1>4, <1>5, <1>6 DEF JobStep

LEMMA LeavesStep ==
  ASSUME PlanInv, plan # Nil, execution # Nil, NEW j \in PlanJobs, LeavesPending(j)
  PROVE  JobStep(j)
<1>1. PICK e : e = execution OBVIOUS
<1>2. e \in ExecutionsOf(PlanJobs) /\ record \in [PlanJobs -> JobRecords]
  BY <1>1 DEF PlanInv, PlanSound, ExecutionSound
<1>3. PICK w : w = [k \in PlanJobs |->
                     IF \/ k = j
                        \/ e.work[k].at = "queued" /\ jobs[k].profile = jobs[j].profile
                     THEN [e.work[k] EXCEPT !.at = "pending"] ELSE e.work[k]]
  OBVIOUS
<1>4. execution' = [e EXCEPT !.work = w] /\ record' = record BY <1>1, <1>3 DEF LeavesPending
<1>5. w \in [PlanJobs -> Works] BY <1>2, <1>3 DEF ExecutionsOf, Works, WorkStages
<1>6. \A k \in PlanJobs : /\ w[k].at = "leased" => w[k] = e.work[k]
                          /\ w[j].at = "pending"
  BY <1>2, <1>3 DEF ExecutionsOf, Works
<1>. QED BY <1>1, <1>2, <1>4, <1>5, <1>6 DEF JobStep, ExecutionsOf

LEMMA GoOnStep ==
  ASSUME PlanInv, plan # Nil, execution # Nil, NEW j \in PlanJobs, NEW outcome,
         GoOn(j, outcome), record' \in [PlanJobs -> JobRecords],
         \A k \in PlanJobs \ {j} : record'[k] = record[k]
  PROVE  JobStep(j)
<1>1. PICK e : e = execution OBVIOUS
<1>2. e \in ExecutionsOf(PlanJobs) BY <1>1 DEF PlanInv, PlanSound, ExecutionSound
<1>3. Protocol.maximumAttempts \in Nat \ {0} BY PlanAssumption
<1>4. PICK w : w = IF TriedAgain(j, outcome) THEN [at |-> "attempt", n |-> e.work[j].n + 1]
                                             ELSE [e.work[j] EXCEPT !.at = "trace"]
  OBVIOUS
<1>5. execution' = [e EXCEPT !.work[j] = w] BY <1>1, <1>4 DEF GoOn
<1>6. w \in Works /\ w.at # "leased"
  BY <1>1, <1>2, <1>3, <1>4 DEF ExecutionsOf, Works, WorkStages, TriedAgain
<1>. QED BY <1>1, <1>2, <1>5, <1>6 DEF JobStep, ExecutionsOf

LEMMA OutcomeStep ==
  ASSUME PlanInv, plan # Nil, execution # Nil, NEW j \in PlanJobs,
         NEW outcome \in {"unsent", "final"}, Outcome(j, outcome)
  PROVE  JobStep(j)
<1>1. record \in [PlanJobs -> JobRecords] /\ execution.work[j].n \in 1 .. Protocol.maximumAttempts
  BY DEF PlanInv, PlanSound, ExecutionSound, ExecutionsOf, Works
<1>2. PICK old, n : old = record[j] /\ n = execution.work[j].n OBVIOUS
<1>3. PICK new : new = [old EXCEPT !.outcomes = Append(@, outcome),
                                   !.leases[n] = IF @ = Nil THEN Nil ELSE "spent"]
  OBVIOUS
<1>4. record' = [record EXCEPT ![j] = new] BY <1>2, <1>3 DEF Outcome
<1>5. new \in JobRecords
  <2>1. old \in JobRecords /\ n \in 1 .. Protocol.maximumAttempts BY <1>1, <1>2
  <2>2. Append(old.outcomes, outcome) \in Seq({"unsent", "final"}) BY <2>1 DEF JobRecords
  <2>. QED BY <1>3, <2>1, <2>2 DEF JobRecords
<1>6. GoOn(j, outcome) BY DEF Outcome
<1>7. record' \in [PlanJobs -> JobRecords] /\ \A k \in PlanJobs \ {j} : record'[k] = record[k]
  BY <1>1, <1>4, <1>5
<1>. QED BY <1>6, <1>7, GoOnStep

LEMMA JobMoves ==
  ASSUME PlanInv, plan # Nil, NEW j \in PlanJobs,
         TakeJob(j) \/ BeginAttempt(j) \/ Contact(j) \/ Settle(j) \/ AcceptTrace(j)
  PROVE  JobStep(j)
<1>1. execution # Nil /\ UNCHANGED <<inputVars, time, granted>>
  BY DEF TakeJob, BeginAttempt, Contact, Settle, AcceptTrace, Stage
<1>2. /\ record \in [PlanJobs -> JobRecords]
      /\ execution \in ExecutionsOf(PlanJobs) /\ time \in Nat
      /\ Protocol.attemptTimeout \in Nat
  BY <1>1, PlanAssumption DEF PlanInv, PlanSound, ExecutionSound
<1>3. PICK old : old = record[j] OBVIOUS
<1>4. old \in JobRecords BY <1>2, <1>3
<1>6. CASE TakeJob(j)
  <2>1. [old EXCEPT !.intent = TRUE] \in JobRecords BY <1>4 DEF JobRecords
  <2>2. \/ \E stage \in WorkStages \ {"leased"} : Moves(j, stage)
        \/ LeavesPending(j)
        \/ Records(j, [old EXCEPT !.intent = TRUE], "attempt")
    BY <1>3, <1>6 DEF TakeJob, WorkStages
  <2>3. JobStep(j)
    <3>1. CASE \E stage \in WorkStages \ {"leased"} : Moves(j, stage)
      BY <1>1, <3>1, MovesStep
    <3>2. CASE LeavesPending(j) BY <1>1, <3>2, LeavesStep
    <3>3. CASE Records(j, [old EXCEPT !.intent = TRUE], "attempt")
      BY <1>1, <2>1, <3>3, RecordsStep DEF WorkStages
    <3>. QED BY <2>2, <3>1, <3>2, <3>3
  <2>. QED BY <2>3
<1>7. CASE BeginAttempt(j)
  <2>1. PICK n \in 1 .. Protocol.maximumAttempts : n = execution.work[j].n
    BY <1>2 DEF ExecutionsOf, Works
  <2>2. PICK lease : lease = Least(execution.deadline, time + Protocol.attemptTimeout) OBVIOUS
  <2>3. lease \in Int /\ lease <= execution.deadline
    BY <1>2, <2>2 DEF Least, ExecutionsOf
  <2>4. PICK new : new = [old EXCEPT !.leases[n] = lease] OBVIOUS
  <2>5. new \in JobRecords /\ new.leases[n] = lease BY <1>4, <2>3, <2>4 DEF JobRecords
  <2>6. \/ GoOn(j, record[j].outcomes[n]) /\ record' = record
        \/ LeavesPending(j)
        \/ \E outcome \in {"unsent", "final"} : Outcome(j, outcome)
        \/ Records(j, new, "leased")
    BY <1>3, <1>7, <2>1, <2>2, <2>4 DEF BeginAttempt
  <2>7. JobStep(j)
    <3>1. CASE GoOn(j, record[j].outcomes[n]) /\ record' = record
      BY <1>1, <1>2, <3>1, GoOnStep
    <3>2. CASE LeavesPending(j) BY <1>1, <3>2, LeavesStep
    <3>3. CASE \E outcome \in {"unsent", "final"} : Outcome(j, outcome)
      BY <1>1, <3>3, OutcomeStep
    <3>4. CASE Records(j, new, "leased")
      BY <1>1, <2>1, <2>3, <2>5, <3>4, RecordsStep DEF WorkStages
    <3>. QED BY <2>6, <3>1, <3>2, <3>3, <3>4
  <2>. QED BY <2>7
<1>8. CASE Contact(j)
  <2>1. \/ \E outcome \in {"unsent", "final"} : Outcome(j, outcome)
        \/ /\ record' = record
           /\ execution' = [execution EXCEPT !.work[j].at = "pending", !.cancelled = TRUE]
        \/ /\ record' = record
           /\ execution' = [execution EXCEPT !.work[j].at = "sending", !.calls = @ + 1]
    BY <1>8 DEF Contact
  <2>2. JobStep(j)
    <3>1. CASE \E outcome \in {"unsent", "final"} : Outcome(j, outcome)
      BY <1>1, <3>1, OutcomeStep
    <3>2. CASE /\ record' = record
               /\ execution' = [execution EXCEPT !.work[j].at = "pending", !.cancelled = TRUE]
      BY <1>2, <3>2 DEF JobStep, ExecutionsOf, Works, WorkStages
    <3>3. CASE /\ record' = record
               /\ execution' = [execution EXCEPT !.work[j].at = "sending", !.calls = @ + 1]
      <4>1. PICK e : e = execution OBVIOUS
      <4>2. PICK calls : calls = e.calls + 1 OBVIOUS
      <4>3. e \in ExecutionsOf(PlanJobs) /\ calls \in Int
        BY <1>2, <4>1, <4>2 DEF ExecutionsOf
      <4>4. execution' = [e EXCEPT !.work[j].at = "sending", !.calls = calls]
        BY <3>3, <4>1, <4>2
      <4>5. execution' \in ExecutionsOf(PlanJobs)
        <5>1. PICK work : work = [e.work EXCEPT ![j].at = "sending"] OBVIOUS
        <5>2. work \in [PlanJobs -> Works]
          BY <4>3, <5>1 DEF ExecutionsOf, Works, WorkStages
        <5>3. execution' = [e EXCEPT !.work = work, !.calls = calls]
          BY <4>3, <4>4, <5>1 DEF ExecutionsOf
        <5>. QED BY <4>3, <5>2, <5>3 DEF ExecutionsOf
      <4>. QED BY <1>2, <3>3, <4>1, <4>3, <4>4, <4>5 DEF JobStep, ExecutionsOf, Works
    <3>. QED BY <2>1, <3>1, <3>2, <3>3
  <2>. QED BY <2>2
<1>9. CASE Settle(j)
  <2>1. \E outcome \in {"unsent", "final"} : Outcome(j, outcome) BY <1>9 DEF Settle
  <2>2. JobStep(j) BY <1>1, <2>1, OutcomeStep
  <2>. QED BY <2>2
<1>10. CASE AcceptTrace(j)
  <2>1. [old EXCEPT !.accepted = TRUE] \in JobRecords BY <1>4 DEF JobRecords
  <2>2. \/ /\ record' = record
           /\ execution' = [execution EXCEPT !.work[j].at = "pending", !.cancelled = TRUE]
        \/ Records(j, [old EXCEPT !.accepted = TRUE], "settled")
    BY <1>3, <1>10 DEF AcceptTrace
  <2>3. JobStep(j)
    <3>1. CASE /\ record' = record
               /\ execution' = [execution EXCEPT !.work[j].at = "pending", !.cancelled = TRUE]
      BY <1>2, <3>1 DEF JobStep, ExecutionsOf, Works, WorkStages
    <3>2. CASE Records(j, [old EXCEPT !.accepted = TRUE], "settled")
      BY <1>1, <2>1, <3>2, RecordsStep DEF WorkStages
    <3>. QED BY <2>2, <3>1, <3>2
  <2>. QED BY <2>3
<1>. QED BY <1>6, <1>7, <1>8, <1>9, <1>10

LEMMA JobKeeps ==
  ASSUME PlanInv, plan # Nil, NEW j \in PlanJobs,
         TakeJob(j) \/ BeginAttempt(j) \/ Contact(j) \/ Settle(j) \/ AcceptTrace(j)
  PROVE  PlanInv'
<1>1. execution # Nil /\ UNCHANGED <<inputVars, time, granted>>
  BY DEF TakeJob, BeginAttempt, Contact, Settle, AcceptTrace, Stage
<1>2. sent \in [PlanJobs -> Nat] BY DEF PlanInv, PlanSound
<1>3. sent' \in [PlanJobs -> Nat]
  BY <1>2 DEF TakeJob, BeginAttempt, Contact, Settle, AcceptTrace
<1>. QED BY <1>1, <1>3, JobMoves, JobStepKeeps

\* The plan is built once, for a draft that holds.
LEMMA BuildKeeps ==
  ASSUME PlanInv, NEW draft \in Drafts, BuildPlan(draft)
  PROVE  PlanInv'
<1>1. /\ plan = Nil /\ PlanHolds(draft) /\ plan' = draft /\ jobs' = JobList
      /\ record' = [j \in DOMAIN JobList |-> NoRecords] /\ sent' = [j \in DOMAIN JobList |-> 0]
      /\ UNCHANGED <<hash, workload, time, granted, execution, started, idled>>
  BY DEF BuildPlan
<1>2. JobList' = JobList
  <2>1. hash' = hash /\ workload' = workload BY <1>1
  <2>. QED
    BY <2>1 DEF JobList, Sampled, InSample, Precedes, IsSelected, ProfileOrder, Rank, Before
<1>3. NoRecords \in JobRecords
  <2>1. <<>> \in Seq({"unsent", "final"}) OBVIOUS
  <2>. QED BY <2>1 DEF NoRecords, JobRecords
<1>4. PlanHolds(plan)' BY <1>1 DEF PlanHolds, WithinPolicy, TargetsHold, BudgetHolds
<1>5. plan' # Nil BY <1>1, PlanAssumption
<1>6. /\ granted' = Nil /\ execution' = Nil
  BY <1>1 DEF PlanInv, PlanSound
<1>7. record' \in [PlanJobs' -> JobRecords] /\ sent' \in [PlanJobs' -> Nat]
  BY <1>1, <1>3 DEF PlanJobs
<1>8. time \in Nat /\ workload \in Workloads /\ hash \in Hashes BY DEF PlanInv, PlanSound
<1>9. PlanSound' BY <1>1, <1>2, <1>4, <1>5, <1>6, <1>7, <1>8 DEF PlanSound
<1>. QED BY <1>6, <1>9 DEF PlanInv, ExecutionSound

\* What the plan's variables say is left alone by an execution.
LEMMA PlanKept ==
  ASSUME PlanInv, UNCHANGED <<inputVars, record, sent>>,
         time' \in Nat, granted' # Nil => plan # Nil /\ granted' \in Int /\ granted' <= AuthorityEndsAt,
         plan = Nil => execution' = Nil
  PROVE  PlanSound' /\ AuthorityEndsAt' = AuthorityEndsAt /\ PlanJobs' = PlanJobs
<1>1. PlanJobs' = PlanJobs /\ AuthorityEndsAt' = AuthorityEndsAt /\ JobList' = JobList
  BY DEF inputVars, PlanJobs, AuthorityEndsAt, JobList, Sampled, InSample, Precedes, IsSelected,
         ProfileOrder, Rank, Before
<1>2. PlanHolds(plan) => PlanHolds(plan)'
  BY DEF inputVars, PlanHolds, WithinPolicy, TargetsHold, BudgetHolds
<1>. QED BY <1>1, <1>2 DEF PlanInv, PlanSound, inputVars

LEMMA StartKeeps ==
  ASSUME PlanInv, NEW live \in LiveTargets, StartExecution(live)
  PROVE  PlanInv'
<1>1. /\ plan # Nil /\ LiveTargetsHold(live) /\ InTimeToStart
      /\ UNCHANGED <<inputVars, time, granted, record, sent>>
  BY DEF StartExecution
<1>2. PICK w : w = [j \in PlanJobs |-> [at |-> "queued", n |-> 1]] OBVIOUS
<1>3. execution' = [at |-> "admission", deadline |-> time + plan.budget.wallClock, live |-> live,
                    calls |-> 0, cancelled |-> FALSE, work |-> w]
  BY <1>2 DEF StartExecution
<1>4. /\ PlanSound /\ time \in Nat /\ plan \in Drafts BY <1>1 DEF PlanInv, PlanSound
<1>5. AuthorityEndsAt \in Nat /\ plan.budget.wallClock \in Nat
  BY <1>4, AuthorityEnds, PlanAssumption
<1>6. /\ time + plan.budget.wallClock \in Int
      /\ time + plan.budget.wallClock <= AuthorityEndsAt
      /\ Protocol.created <= time /\ plan.issued <= time /\ plan.window.start <= time
  BY <1>1, <1>4, <1>5 DEF InTimeToStart
<1>7. PlanSound' /\ AuthorityEndsAt' = AuthorityEndsAt /\ PlanJobs' = PlanJobs
  <2>1. granted' # Nil => plan # Nil /\ granted' \in Int /\ granted' <= AuthorityEndsAt
    BY <1>1, <1>4 DEF PlanSound
  <2>. QED BY <1>1, <1>4, <2>1, PlanKept
<1>8. w \in [PlanJobs -> Works]
  BY <1>2, PlanAssumption DEF Works, WorkStages
<1>9. execution' \in ExecutionsOf(PlanJobs') BY <1>3, <1>6, <1>7, <1>8 DEF ExecutionsOf
<1>10. LiveTargetsHold(execution.live)' BY <1>1, <1>3 DEF LiveTargetsHold, inputVars
<1>11. \A j \in PlanJobs : execution'.work[j].at = "queued" BY <1>2, <1>3
<1>12. ExecutionSound'
  BY <1>1, <1>3, <1>6, <1>7, <1>9, <1>10, <1>11 DEF ExecutionSound, inputVars
<1>. QED BY <1>7, <1>12 DEF PlanInv

\* The admission, the caller and the crash change no job.
LEMMA LifeKeeps ==
  ASSUME PlanInv,
         Admission \/ CancelExecution \/ CrashExecution \/ ReturnResult \/ TimePasses
  PROVE  PlanInv'
<1>1. UNCHANGED <<inputVars, record, sent>>
  BY DEF Admission, CancelExecution, CrashExecution, ReturnResult, TimePasses
<1>2. PlanSound /\ ExecutionSound BY DEF PlanInv
<1>3. time' \in Nat /\ time <= time' /\ time \in Nat
  BY <1>2 DEF PlanSound, Admission, CancelExecution, CrashExecution, ReturnResult, TimePasses
<1>4. granted' # Nil => plan # Nil /\ granted' \in Int /\ granted' <= AuthorityEndsAt
  <2>1. CASE granted' = granted BY <1>2, <2>1 DEF PlanSound
  <2>2. CASE granted' # granted
    <3>1. granted' = execution.deadline /\ execution # Nil
      BY <2>2 DEF Admission, CancelExecution, CrashExecution, ReturnResult, TimePasses
    <3>. QED BY <1>2, <3>1 DEF PlanSound, ExecutionSound, ExecutionsOf
  <2>. QED BY <2>1, <2>2
<1>5. execution = Nil => execution' = Nil
  BY DEF Admission, CancelExecution, CrashExecution, ReturnResult, TimePasses
<1>6. PlanSound' /\ AuthorityEndsAt' = AuthorityEndsAt /\ PlanJobs' = PlanJobs
  BY <1>1, <1>2, <1>3, <1>4, <1>5, PlanKept DEF PlanSound
<1>7. ExecutionSound'
  <2> SUFFICES ASSUME execution' # Nil PROVE ExecutionSound'
    BY DEF ExecutionSound
  <2>1. execution # Nil /\ plan # Nil BY <1>2, <1>5 DEF PlanSound
  <2>2. PICK e : e = execution OBVIOUS
  <2>3. /\ e \in ExecutionsOf(PlanJobs) /\ e.deadline <= AuthorityEndsAt
        /\ Protocol.created <= time /\ plan.issued <= time /\ plan.window.start <= time
        /\ LiveTargetsHold(e.live)
    BY <1>2, <2>1, <2>2 DEF ExecutionSound
  <2>4. /\ execution' \in ExecutionsOf(PlanJobs) /\ execution'.deadline <= AuthorityEndsAt
        /\ execution'.live = e.live /\ execution'.work = e.work
    <3>1. CASE Admission
      <4>1. \/ execution' = [e EXCEPT !.at = "jobs"]
            \/ /\ granted' # Nil
               /\ execution' = [e EXCEPT !.at = "jobs", !.deadline = granted']
            \/ execution' = [e EXCEPT !.at = "jobs", !.deadline = e.deadline]
        BY <2>2, <3>1 DEF Admission
      <4>. QED BY <1>4, <2>3, <4>1 DEF ExecutionsOf
    <3>2. CASE CancelExecution
      <4>1. execution' = [e EXCEPT !.cancelled = TRUE] BY <2>2, <3>2 DEF CancelExecution
      <4>. QED BY <2>3, <4>1 DEF ExecutionsOf
    <3>3. CASE TimePasses BY <2>2, <2>3, <3>3 DEF TimePasses
    <3>4. CASE CrashExecution \/ ReturnResult BY <3>4 DEF CrashExecution, ReturnResult
    <3>. QED BY <3>1, <3>2, <3>3, <3>4
  <2>5. \A j \in PlanJobs : execution'.work[j].at = "leased" =>
            LeaseOf(j)' \in Int /\ LeaseOf(j)' <= AuthorityEndsAt
    BY <1>1, <1>2, <2>1, <2>2, <2>4 DEF ExecutionSound, LeaseOf
  <2>6. LiveTargetsHold(execution.live)'
    BY <1>1, <2>3, <2>4 DEF LiveTargetsHold, inputVars
  <2>7. Protocol.created <= time' /\ plan'.issued <= time' /\ plan'.window.start <= time'
    <3>1. plan' = plan BY <1>1 DEF inputVars
    <3>2. Protocol.created \in Nat /\ plan.issued \in Nat /\ plan.window.start \in Nat
      BY <1>2, <2>1, PlanAssumption DEF PlanSound
    <3>. QED BY <1>3, <2>3, <3>1, <3>2
  <2>. QED BY <1>6, <2>4, <2>5, <2>6, <2>7 DEF ExecutionSound
<1>. QED BY <1>6, <1>7 DEF PlanInv

LEMMA PlanStep == PlanInv /\ [PlanNext]_planVars => PlanInv'
<1> SUFFICES ASSUME PlanInv, [PlanNext]_planVars PROVE PlanInv'
  OBVIOUS
<1>1. ASSUME NEW d \in Drafts, BuildPlan(d) PROVE PlanInv' BY <1>1, BuildKeeps
<1>2. ASSUME NEW live \in LiveTargets, StartExecution(live) PROVE PlanInv'
  BY <1>2, StartKeeps
<1>3. CASE Admission \/ CancelExecution \/ CrashExecution \/ ReturnResult \/ TimePasses
  BY <1>3, LifeKeeps
<1>4. ASSUME plan # Nil, NEW j \in PlanJobs,
             TakeJob(j) \/ BeginAttempt(j) \/ Contact(j) \/ Settle(j) \/ AcceptTrace(j)
      PROVE  PlanInv'
  BY <1>4, JobKeeps
<1>5. CASE UNCHANGED planVars
  <2>1. UNCHANGED <<inputVars, record, sent, time, granted, execution>>
    BY <1>5 DEF planVars, inputVars
  <2>2. PlanSound' /\ AuthorityEndsAt' = AuthorityEndsAt /\ PlanJobs' = PlanJobs
    BY <2>1, PlanKept DEF PlanInv, PlanSound
  <2>3. LiveTargetsHold(execution.live) => LiveTargetsHold(execution.live)'
    BY <2>1 DEF LiveTargetsHold, inputVars
  <2>. QED BY <2>1, <2>2, <2>3 DEF PlanInv, ExecutionSound, LeaseOf, inputVars
<1>. QED BY <1>1, <1>2, <1>3, <1>4, <1>5 DEF PlanNext

LEMMA PlanInvariant == PlanSpec => []PlanInv
<1>. QED BY PlanStarts, PlanStep, PTL DEF PlanSpec

\* The target of a job's profile is the live one that the plan names for it.
LEMMA TargetNamed ==
  ASSUME PlanInv, plan # Nil, execution # Nil, NEW j \in PlanJobs
  PROVE  \E t \in Range(execution.live) : t = PlanTarget(jobs[j].profile)
<1>1. /\ plan \in Drafts /\ TargetsHold(plan.targets) /\ jobs = JobList
      /\ workload \in Workloads /\ hash \in Hashes
      /\ execution.live \in LiveTargets /\ LiveTargetsHold(execution.live)
  BY DEF PlanInv, PlanSound, ExecutionSound, PlanHolds, ExecutionsOf
<1>2. PICK profile : profile = jobs[j].profile OBVIOUS
<1>3. profile \in Profiles
  <2>1. PICK m \in 1 .. Cardinality(InSample), k \in DOMAIN Base :
            JobList[j] = JobOf(Sampled[m], k)
    BY <1>1, JobsShape DEF PlanJobs
  <2>2. profile = ProfileOrder(workload[Sampled[m][1]].case, Sampled[m][2])[k]
    BY <1>1, <1>2, <2>1 DEF JobOf
  <2>. QED BY <1>1, <2>2, JobsSampled, OrdersRotate
<1>4. PICK i \in DOMAIN execution.live : execution.live[i].profile = profile
  BY <1>1, <1>3 DEF LiveTargetsHold
<1>5. PICK u : u = execution.live[i] OBVIOUS
<1>6. PICK t \in Range(plan.targets) :
          t.profile = u.profile /\ t.alias = u.alias /\ t.binding = u.binding
  BY <1>1, <1>4, <1>5 DEF LiveTargetsHold
<1>7. u \in Range(execution.live) BY <1>4, <1>5 DEF Range
<1>8. t = u BY <1>1, <1>6, <1>7, PlanAssumption
<1>9. \A v \in Range(plan.targets) : v.profile = profile => v = t
  BY <1>1, <1>4, <1>5, <1>6 DEF TargetsHold, Range
<1>10. PlanTarget(profile) = t
  BY <1>4, <1>5, <1>6, <1>9 DEF PlanTarget
<1>. QED BY <1>2, <1>7, <1>8, <1>10

\* Every contact, of any execution of any run, is made while plan, window, protocol
\* and policy are in force, under the selected policy and with the endpoint that
\* the plan names (normalizeRunInput, beginDispatch).
THEOREM ContactsAreAuthorized == PlanSpec => ContactsUnderAuthority
<1>1. ASSUME PlanInv, [PlanNext]_planVars, NEW j \in PlanJobs, sent'[j] > sent[j]
      PROVE  /\ InForce(plan) /\ InForce(plan.policy)
             /\ plan.window.start <= time /\ time < plan.window.end
             /\ Protocol.created <= time /\ time < Protocol.expires
             /\ plan.snapshot.selected = plan.policy /\ plan.snapshot.lastEventAt <= time
             /\ \E t \in Range(execution.live) : t = PlanTarget(jobs[j].profile)
  <2>1. plan # Nil
    <3>1. plan = Nil => PlanJobs = {} BY <1>1 DEF PlanInv, PlanSound, PlanJobs
    <3>. QED BY <3>1
  <2>2. sent \in [PlanJobs -> Nat] /\ PlanHolds(plan) /\ plan \in Drafts /\ time \in Nat
    BY <1>1, <2>1 DEF PlanInv, PlanSound
  <2>3. sent' # sent BY <1>1, <2>2
  <2>4. PICK k \in PlanJobs : Contact(k)
    <3>1. ASSUME NEW d \in Drafts, BuildPlan(d) PROVE FALSE BY <2>1, <3>1 DEF BuildPlan
    <3>. QED BY <1>1, <2>1, <2>3, <3>1
             DEF PlanNext, planVars, StartExecution, Admission, CancelExecution, CrashExecution,
                 ReturnResult, TimePasses, TakeJob, BeginAttempt, Settle, AcceptTrace
  <2>5. /\ execution # Nil /\ execution.work[k].at = "leased" /\ ~(time >= LeaseOf(k))
    BY <2>3, <2>4 DEF Contact, Stage
  <2>6. /\ LeaseOf(k) \in Int /\ LeaseOf(k) <= AuthorityEndsAt
        /\ Protocol.created <= time /\ plan.issued <= time /\ plan.window.start <= time
    BY <1>1, <2>5 DEF PlanInv, ExecutionSound
  <2>7. time < Protocol.expires /\ time < plan.expires /\ time < plan.window.end
    <3>1. AuthorityEndsAt \in Nat BY <2>2, AuthorityEnds
    <3>2. time < AuthorityEndsAt BY <2>2, <2>5, <2>6, <3>1
    <3>3. {Protocol.expires, plan.expires, plan.window.end} \subseteq Nat
      BY <2>2, PlanAssumption
    <3>. QED BY <2>2, <3>1, <3>2, <3>3, AuthorityEnds
  <2>8. /\ plan.policy.issued <= plan.issued /\ plan.expires <= plan.policy.expires
        /\ plan.snapshot.lastEventAt <= plan.issued /\ plan.snapshot.selected = plan.policy
    BY <2>2 DEF PlanHolds, WithinPolicy
  <2>9. {plan.issued, plan.expires, plan.policy.issued, plan.policy.expires,
         plan.snapshot.lastEventAt} \subseteq Nat
    BY <2>2, PlanAssumption
  <2>10. InForce(plan) /\ InForce(plan.policy) /\ plan.snapshot.lastEventAt <= time
    BY <2>2, <2>6, <2>7, <2>8, <2>9 DEF InForce
  <2>11. \E t \in Range(execution.live) : t = PlanTarget(jobs[j].profile)
    BY <1>1, <2>1, <2>5, TargetNamed
  <2>. QED BY <2>6, <2>7, <2>8, <2>10, <2>11
<1>2. PlanInv /\ [PlanNext]_planVars =>
        [\A j \in PlanJobs : sent'[j] > sent[j] =>
           /\ InForce(plan) /\ InForce(plan.policy)
           /\ plan.window.start <= time /\ time < plan.window.end
           /\ Protocol.created <= time /\ time < Protocol.expires
           /\ plan.snapshot.selected = plan.policy /\ plan.snapshot.lastEventAt <= time
           /\ \E t \in Range(execution.live) : t = PlanTarget(jobs[j].profile)]_planVars
  BY <1>1
<1>. QED BY <1>2, PlanInvariant, PTL DEF PlanSpec, ContactsUnderAuthority

\* The order of a run is counterbalanced, for any number of profiles, cases and
\* replicates and whatever the digests rank first (profileOrder, buildJobSeeds).
THEOREM OrdersAreCounterbalanced == PlanSpec => []OrderIsCounterbalanced
<1>1. ASSUME PlanInv PROVE OrderIsCounterbalanced
  <2>1. CASE plan = Nil
    <3>1. jobs = <<>> BY <1>1, <2>1 DEF PlanInv, PlanSound
    <3>. QED BY <3>1 DEF OrderIsCounterbalanced, Range
  <2>2. CASE plan # Nil
    BY <1>1, <2>2, JobListBalanced DEF PlanInv, PlanSound
  <2>. QED BY <2>1, <2>2
<1>. QED BY <1>1, PlanInvariant, PTL

-----------------------------------------------------------------------------
(* What the executions of a run do together.                               *)

\* Every contact has a lease of its own, and every attempt one outcome.
Leased(r) == {n \in DOMAIN r.leases : r.leases[n] # Nil}
Counted(r, contacted) ==
    /\ contacted <= Cardinality(Leased(r))
    /\ Len(r.outcomes) <= Protocol.maximumAttempts

\* An attempt is the next one after those with an outcome, and a job that has just
\* taken its lease has not used it.
Staged(w, r, contacted) ==
    /\ w.at = "queued" => w.n = 1
    /\ w.at = "attempt" => w.n <= Len(r.outcomes) + 1
    /\ w.at \in {"leased", "sending"} => w.n = Len(r.outcomes) + 1
    /\ w.at = "leased" => contacted < Cardinality(Leased(r))

\* Nothing is done without a budget that admits all of it.
WorkInv ==
    plan # Nil =>
        /\ \A j \in PlanJobs : Counted(record[j], sent[j])
        /\ execution # Nil =>
               \A j \in PlanJobs : Staged(execution.work[j], record[j], sent[j])
        /\ \/ BudgetAdmits(plan.budget)
           \/ /\ execution = Nil /\ granted = Nil
              /\ \A j \in PlanJobs : record[j] = NoRecords /\ sent[j] = 0

LEMMA LeasesCounted ==
  ASSUME NEW r \in JobRecords
  PROVE  /\ IsFiniteSet(Leased(r)) /\ Cardinality(Leased(r)) \in Nat
         /\ Cardinality(Leased(r)) <= Protocol.maximumAttempts
         /\ r.outcomes \in Seq({"unsent", "final"}) /\ Len(r.outcomes) \in Nat
<1>1. PICK m \in Nat : m = Protocol.maximumAttempts BY PlanAssumption
<1>2. r.leases \in [1 .. m -> Int \cup {Nil, "spent"}] BY <1>1 DEF JobRecords
<1>3. Leased(r) \subseteq 1 .. m BY <1>2 DEF Leased
<1>4. IsFiniteSet(1 .. m) /\ Cardinality(1 .. m) = m BY FS_Interval
<1>5. IsFiniteSet(Leased(r)) /\ Cardinality(Leased(r)) <= m BY <1>3, <1>4, FS_Subset
<1>6. r.outcomes \in Seq({"unsent", "final"}) BY DEF JobRecords
<1>. QED BY <1>1, <1>5, <1>6, FS_CardinalityType

LEMMA WorkStarts == PlanInit => WorkInv
  BY DEF PlanInit, WorkInv

\* What the budget admits depends on the plan, the workload and the jobs.
LEMMA AdmittedKept ==
  ASSUME UNCHANGED inputVars
  PROVE  /\ BudgetAdmits(plan.budget)' = BudgetAdmits(plan.budget)
         /\ plan' = plan /\ PlanJobs' = PlanJobs
BY DEF inputVars, BudgetAdmits, Declared, MaximumAttempts, MaximumRecords, AttemptWork,
       MaximumResponseBytes, MaximumRequestBytes, PlanJobs

\* A step of job j counts if it does for j and takes nobody else on.
JobCounts(j) ==
    /\ \A k \in PlanJobs \ {j} :
          /\ record'[k] = record[k]
          /\ execution'.work[k] = execution.work[k] \/ execution'.work[k].at = "pending"
    /\ Counted(record'[j], sent'[j])
    /\ Staged(execution'.work[j], record'[j], sent'[j])

LEMMA JobCountsKeep ==
  ASSUME WorkInv, plan # Nil, execution # Nil, NEW j \in PlanJobs, JobCounts(j),
         UNCHANGED <<inputVars, granted>>, \A k \in PlanJobs \ {j} : sent'[k] = sent[k]
  PROVE  WorkInv'
<1>1. /\ BudgetAdmits(plan.budget)' /\ PlanJobs' = PlanJobs
  BY AdmittedKept DEF WorkInv
<1>2. ASSUME NEW k \in PlanJobs
      PROVE  /\ Counted(record'[k], sent'[k])
             /\ Staged(execution'.work[k], record'[k], sent'[k])
  <2>1. CASE k = j BY <2>1 DEF JobCounts
  <2>2. CASE k # j
    <3>1. /\ record'[k] = record[k] /\ sent'[k] = sent[k]
          /\ execution'.work[k] = execution.work[k] \/ execution'.work[k].at = "pending"
      BY <2>2 DEF JobCounts
    <3>2. Counted(record[k], sent[k]) /\ Staged(execution.work[k], record[k], sent[k])
      BY DEF WorkInv
    <3>3. CASE execution'.work[k] = execution.work[k] BY <3>1, <3>2, <3>3
    <3>4. CASE execution'.work[k].at = "pending" BY <3>1, <3>2, <3>4 DEF Staged
    <3>. QED BY <3>1, <3>3, <3>4
  <2>. QED BY <2>1, <2>2
<1>3. /\ \A k \in PlanJobs : Counted(record[k], sent[k])'
      /\ \A k \in PlanJobs : Staged(execution.work[k], record[k], sent[k])'
  BY <1>2 DEF Counted, Staged, Leased
<1>. QED BY <1>1, <1>3 DEF WorkInv

\* What the invariants say of one job.
LEMMA JobTyped ==
  ASSUME PlanInv, WorkInv, plan # Nil, execution # Nil, NEW j \in PlanJobs
  PROVE  /\ execution \in ExecutionsOf(PlanJobs) /\ record \in [PlanJobs -> JobRecords]
         /\ sent \in [PlanJobs -> Nat]
         /\ record[j] \in JobRecords /\ sent[j] \in Nat /\ execution.work[j] \in Works
         /\ Counted(record[j], sent[j]) /\ Staged(execution.work[j], record[j], sent[j])
BY DEF PlanInv, PlanSound, ExecutionSound, ExecutionsOf, WorkInv

LEMMA RecordsCounts ==
  ASSUME PlanInv, WorkInv, plan # Nil, execution # Nil, NEW j \in PlanJobs,
         NEW stage \in WorkStages, NEW changed, Records(j, changed, stage), sent' = sent,
         Counted(changed, sent[j]),
         Staged([execution.work[j] EXCEPT !.at = stage], changed, sent[j])
  PROVE  JobCounts(j)
<1>1. PICK e : e = execution OBVIOUS
<1>2. e \in ExecutionsOf(PlanJobs) /\ record \in [PlanJobs -> JobRecords] BY <1>1, JobTyped
<1>3. /\ execution' = [e EXCEPT !.work[j].at = stage]
      /\ record' = [record EXCEPT ![j] = changed]
  BY <1>1 DEF Records
<1>4. /\ execution'.work[j] = [e.work[j] EXCEPT !.at = stage]
      /\ \A k \in PlanJobs \ {j} : execution'.work[k] = e.work[k]
  BY <1>2, <1>3 DEF ExecutionsOf
<1>5. record'[j] = changed /\ \A k \in PlanJobs \ {j} : record'[k] = record[k]
  BY <1>2, <1>3
<1>. QED BY <1>1, <1>4, <1>5 DEF JobCounts

LEMMA LeavesCounts ==
  ASSUME PlanInv, WorkInv, plan # Nil, execution # Nil, NEW j \in PlanJobs, LeavesPending(j),
         sent' = sent
  PROVE  JobCounts(j)
<1>1. PICK e : e = execution OBVIOUS
<1>2. e \in ExecutionsOf(PlanJobs) BY <1>1, JobTyped
<1>3. PICK w : w = [k \in PlanJobs |->
                     IF \/ k = j
                        \/ e.work[k].at = "queued" /\ jobs[k].profile = jobs[j].profile
                     THEN [e.work[k] EXCEPT !.at = "pending"] ELSE e.work[k]]
  OBVIOUS
<1>4. execution' = [e EXCEPT !.work = w] /\ record' = record BY <1>1, <1>3 DEF LeavesPending
<1>5. execution'.work = w BY <1>2, <1>4 DEF ExecutionsOf
<1>6. \A k \in PlanJobs : w[k] = e.work[k] \/ w[k].at = "pending"
  BY <1>2, <1>3 DEF ExecutionsOf, Works
<1>7. w[j].at = "pending" BY <1>2, <1>3 DEF ExecutionsOf, Works
<1>8. Counted(record[j], sent[j]) BY JobTyped
<1>. QED BY <1>1, <1>4, <1>5, <1>6, <1>7, <1>8 DEF JobCounts, Staged

LEMMA GoOnCounts ==
  ASSUME PlanInv, WorkInv, plan # Nil, execution # Nil, NEW j \in PlanJobs, NEW outcome,
         GoOn(j, outcome), \A k \in PlanJobs \ {j} : record'[k] = record[k], sent' = sent,
         record'[j] \in JobRecords, Counted(record'[j], sent[j]),
         execution.work[j].n <= Len(record'[j].outcomes)
  PROVE  JobCounts(j)
<1>1. PICK e : e = execution OBVIOUS
<1>2. e \in ExecutionsOf(PlanJobs) BY <1>1, JobTyped
<1>3. PICK w : w = IF TriedAgain(j, outcome) THEN [at |-> "attempt", n |-> e.work[j].n + 1]
                                             ELSE [e.work[j] EXCEPT !.at = "trace"]
  OBVIOUS
<1>4. execution' = [e EXCEPT !.work[j] = w] BY <1>1, <1>3 DEF GoOn
<1>5. execution'.work[j] = w /\ \A k \in PlanJobs \ {j} : execution'.work[k] = e.work[k]
  BY <1>2, <1>4 DEF ExecutionsOf
<1>6. Staged(w, record'[j], sent[j])
  <2>1. PICK length \in Nat : length = Len(record'[j].outcomes) BY LeasesCounted
  <2>2. PICK n \in Nat : n = e.work[j].n
    <3>1. Protocol.maximumAttempts \in Nat BY PlanAssumption
    <3>. QED BY <1>2, <3>1 DEF ExecutionsOf, Works
  <2>3. n <= length BY <1>1, <2>1, <2>2
  <2>4. CASE TriedAgain(j, outcome)
    <3>1. w = [at |-> "attempt", n |-> n + 1] BY <1>3, <2>2, <2>4
    <3>. QED BY <2>1, <2>3, <3>1 DEF Staged
  <2>5. CASE ~TriedAgain(j, outcome)
    <3>1. w.at = "trace" BY <1>2, <1>3, <2>5 DEF ExecutionsOf, Works
    <3>. QED BY <3>1 DEF Staged
  <2>. QED BY <2>4, <2>5
<1>. QED BY <1>1, <1>5, <1>6 DEF JobCounts

LEMMA OutcomeCounts ==
  ASSUME PlanInv, WorkInv, plan # Nil, execution # Nil, NEW j \in PlanJobs,
         NEW outcome \in {"unsent", "final"}, Outcome(j, outcome), sent' = sent,
         execution.work[j].n = Len(record[j].outcomes) + 1
  PROVE  JobCounts(j)
<1>1. /\ record \in [PlanJobs -> JobRecords] /\ execution.work[j] \in Works
      /\ Counted(record[j], sent[j])
  BY JobTyped
<1>2. PICK old, n : old = record[j] /\ n = execution.work[j].n OBVIOUS
<1>3. PICK new : new = [old EXCEPT !.outcomes = Append(@, outcome),
                                   !.leases[n] = IF @ = Nil THEN Nil ELSE "spent"]
  OBVIOUS
<1>4. record' = [record EXCEPT ![j] = new] BY <1>2, <1>3 DEF Outcome
<1>5. old \in JobRecords /\ n \in 1 .. Protocol.maximumAttempts BY <1>1, <1>2 DEF Works
<1>6. record'[j] = new /\ \A k \in PlanJobs \ {j} : record'[k] = record[k]
  BY <1>1, <1>4
<1>7. PICK length \in Nat : length = Len(old.outcomes) BY <1>5, LeasesCounted
<1>8. Append(old.outcomes, outcome) \in Seq({"unsent", "final"})
      /\ Len(Append(old.outcomes, outcome)) = length + 1
  BY <1>5, <1>7 DEF JobRecords
<1>9. /\ new \in JobRecords /\ Len(new.outcomes) = length + 1
      /\ new.leases = [old.leases EXCEPT ![n] = IF @ = Nil THEN Nil ELSE "spent"]
  BY <1>3, <1>5, <1>8 DEF JobRecords
<1>10. Leased(new) = Leased(old)
  <2>1. old.leases \in [1 .. Protocol.maximumAttempts -> Int \cup {Nil, "spent"}]
    BY <1>5 DEF JobRecords
  <2>2. Nil # "spent" BY PlanAssumption
  <2>. QED BY <1>9, <2>1, <2>2 DEF Leased
<1>11. n = length + 1 BY <1>2, <1>7
<1>12. Counted(new, sent[j])
  <2>1. Protocol.maximumAttempts \in Nat BY PlanAssumption
  <2>. QED BY <1>1, <1>2, <1>5, <1>9, <1>10, <1>11, <2>1 DEF Counted
<1>13. GoOn(j, outcome) BY DEF Outcome
<1>. QED BY <1>2, <1>6, <1>9, <1>11, <1>12, <1>13, GoOnCounts

\* A new lease is one more.
LEMMA LeaseAdded ==
  ASSUME NEW old \in JobRecords, NEW n \in 1 .. Protocol.maximumAttempts,
         NEW lease \in Int, old.leases[n] = Nil,
         NEW new, new = [old EXCEPT !.leases[n] = lease]
  PROVE  /\ new.outcomes = old.outcomes
         /\ Cardinality(Leased(new)) = Cardinality(Leased(old)) + 1
<1>1. /\ old.leases \in [1 .. Protocol.maximumAttempts -> Int \cup {Nil, "spent"}]
      /\ new.leases = [old.leases EXCEPT ![n] = lease] /\ new.outcomes = old.outcomes
  BY DEF JobRecords
<1>2. Leased(new) = Leased(old) \cup {n} /\ n \notin Leased(old)
  BY <1>1, PlanAssumption DEF Leased
<1>3. IsFiniteSet(Leased(old)) BY LeasesCounted
<1>. QED BY <1>1, <1>2, <1>3, FS_AddElement

LEMMA TakingCounts ==
  ASSUME PlanInv, WorkInv, plan # Nil, NEW j \in PlanJobs, TakeJob(j)
  PROVE  JobCounts(j)
<1>1. execution # Nil /\ execution.work[j].at = "queued" /\ sent' = sent
  BY DEF TakeJob, Stage
<1>2. PICK old : old = record[j] OBVIOUS
<1>3. PICK w : w = execution.work[j] OBVIOUS
<1>4. /\ old \in JobRecords /\ w \in Works /\ Counted(old, sent[j]) /\ w.at = "queued"
      /\ Staged(w, old, sent[j]) /\ record \in [PlanJobs -> JobRecords]
  BY <1>1, <1>2, <1>3, JobTyped
<1>5. w.n = 1 BY <1>4 DEF Staged
<1>6. PICK length \in Nat : length = Len(old.outcomes) BY <1>4, LeasesCounted
<1>7. ASSUME NEW stage \in {"pending", "settled", "attempt"}, NEW changed,
             Records(j, changed, stage),
             Leased(changed) = Leased(old), changed.outcomes = old.outcomes
      PROVE  JobCounts(j)
  <2>1. Counted(changed, sent[j]) BY <1>4, <1>7 DEF Counted
  <2>2. [w EXCEPT !.at = stage].at = stage /\ [w EXCEPT !.at = stage].n = 1
    BY <1>4, <1>5 DEF Works
  <2>3. Staged([w EXCEPT !.at = stage], changed, sent[j])
    BY <1>6, <1>7, <2>2 DEF Staged
  <2>. QED BY <1>1, <1>3, <1>7, <2>1, <2>3, RecordsCounts DEF WorkStages
<1>8. ASSUME NEW stage \in {"pending", "settled", "attempt"}, Moves(j, stage)
      PROVE  JobCounts(j)
  <2>1. Records(j, old, stage)
    BY <1>2, <1>4, <1>8 DEF Moves, Records
  <2>. QED BY <1>7, <2>1
<1>9. \/ \E stage \in {"pending", "settled", "attempt"} : Moves(j, stage)
      \/ LeavesPending(j)
      \/ Records(j, [old EXCEPT !.intent = TRUE], "attempt")
  BY <1>2 DEF TakeJob
<1>10. /\ Leased([old EXCEPT !.intent = TRUE]) = Leased(old)
       /\ [old EXCEPT !.intent = TRUE].outcomes = old.outcomes
  BY <1>4 DEF Leased, JobRecords
<1>. QED BY <1>1, <1>7, <1>8, <1>9, <1>10, LeavesCounts

LEMMA BeginningCounts ==
  ASSUME PlanInv, WorkInv, plan # Nil, NEW j \in PlanJobs, BeginAttempt(j)
  PROVE  JobCounts(j)
<1>1. execution # Nil /\ execution.work[j].at = "attempt" /\ sent' = sent
  BY DEF BeginAttempt, Stage
<1>2. PICK old : old = record[j] OBVIOUS
<1>3. PICK w : w = execution.work[j] OBVIOUS
<1>4. /\ old \in JobRecords /\ w \in Works /\ Counted(old, sent[j]) /\ w.at = "attempt"
      /\ Staged(w, old, sent[j]) /\ record \in [PlanJobs -> JobRecords] /\ sent[j] \in Nat
  BY <1>1, <1>2, <1>3, JobTyped
<1>5. PICK n \in 1 .. Protocol.maximumAttempts : n = w.n BY <1>4 DEF Works
<1>6. PICK length \in Nat : length = Len(old.outcomes) BY <1>4, LeasesCounted
<1>7. n \in Nat /\ n <= length + 1
  <2>1. Protocol.maximumAttempts \in Nat BY PlanAssumption
  <2>. QED BY <1>4, <1>5, <1>6, <2>1 DEF Staged
<1>8. PICK lease : lease = Least(execution.deadline, time + Protocol.attemptTimeout) OBVIOUS
<1>9. lease \in Int
  <2>1. execution.deadline \in Int /\ time \in Nat /\ Protocol.attemptTimeout \in Nat
    BY <1>1, PlanAssumption, JobTyped DEF PlanInv, PlanSound, ExecutionsOf
  <2>. QED BY <1>8, <2>1 DEF Least
<1>10. PICK new : new = [old EXCEPT !.leases[n] = lease] OBVIOUS
<1>11. \/ n <= length /\ GoOn(j, record[j].outcomes[n]) /\ record' = record
       \/ LeavesPending(j)
       \/ n > length /\ \E outcome \in {"unsent", "final"} : Outcome(j, outcome)
       \/ n > length /\ old.leases[n] = Nil /\ Records(j, new, "leased")
  BY <1>2, <1>3, <1>5, <1>6, <1>7, <1>8, <1>10 DEF BeginAttempt
<1>12. CASE n <= length /\ GoOn(j, record[j].outcomes[n]) /\ record' = record
  BY <1>1, <1>2, <1>3, <1>4, <1>5, <1>6, <1>12, GoOnCounts
<1>13. CASE n > length /\ \E outcome \in {"unsent", "final"} : Outcome(j, outcome)
  <2>1. n = length + 1 BY <1>7, <1>13
  <2>. QED BY <1>1, <1>2, <1>3, <1>5, <1>6, <1>13, <2>1, OutcomeCounts
<1>14. CASE n > length /\ old.leases[n] = Nil /\ Records(j, new, "leased")
  <2>1. n = length + 1 BY <1>7, <1>14
  <2>2. /\ new.outcomes = old.outcomes
        /\ Cardinality(Leased(new)) = Cardinality(Leased(old)) + 1
    BY <1>4, <1>9, <1>10, <1>14, LeaseAdded
  <2>3. Cardinality(Leased(old)) \in Nat BY <1>4, LeasesCounted
  <2>4. Counted(new, sent[j]) BY <1>4, <2>2, <2>3 DEF Counted
  <2>5. sent[j] < Cardinality(Leased(new)) BY <1>4, <2>2, <2>3 DEF Counted
  <2>6. [w EXCEPT !.at = "leased"].n = n /\ [w EXCEPT !.at = "leased"].at = "leased"
    BY <1>4, <1>5 DEF Works
  <2>7. Staged([w EXCEPT !.at = "leased"], new, sent[j])
    BY <1>6, <2>1, <2>2, <2>5, <2>6 DEF Staged
  <2>. QED BY <1>1, <1>3, <1>14, <2>4, <2>7, RecordsCounts DEF WorkStages
<1>. QED BY <1>1, <1>11, <1>12, <1>13, <1>14, LeavesCounts

LEMMA ContactCounts ==
  ASSUME PlanInv, WorkInv, plan # Nil, NEW j \in PlanJobs, Contact(j)
  PROVE  JobCounts(j) /\ \A k \in PlanJobs \ {j} : sent'[k] = sent[k]
<1>1. execution # Nil /\ execution.work[j].at = "leased" BY DEF Contact, Stage
<1>2. PICK old : old = record[j] OBVIOUS
<1>3. PICK w : w = execution.work[j] OBVIOUS
<1>4. /\ old \in JobRecords /\ w \in Works /\ Counted(old, sent[j]) /\ w.at = "leased"
      /\ Staged(w, old, sent[j]) /\ record \in [PlanJobs -> JobRecords]
      /\ sent \in [PlanJobs -> Nat] /\ sent[j] \in Nat
  BY <1>1, <1>2, <1>3, JobTyped
<1>5. PICK e : e = execution /\ e \in ExecutionsOf(PlanJobs) BY <1>1, JobTyped
<1>6. \/ sent' = sent /\ \E outcome \in {"unsent", "final"} : Outcome(j, outcome)
      \/ /\ record' = record /\ sent' = sent
         /\ execution' = [e EXCEPT !.work[j].at = "pending", !.cancelled = TRUE]
      \/ /\ record' = record /\ sent' = [sent EXCEPT ![j] = @ + 1]
         /\ execution' = [e EXCEPT !.work[j].at = "sending", !.calls = @ + 1]
  BY <1>5 DEF Contact
<1>7. CASE sent' = sent /\ \E outcome \in {"unsent", "final"} : Outcome(j, outcome)
  <2>1. w.n = Len(old.outcomes) + 1 BY <1>4 DEF Staged
  <2>. QED BY <1>1, <1>2, <1>3, <1>7, <2>1, OutcomeCounts
<1>8. CASE /\ record' = record /\ sent' = sent
           /\ execution' = [e EXCEPT !.work[j].at = "pending", !.cancelled = TRUE]
  <2>1. /\ execution'.work[j].at = "pending"
        /\ \A k \in PlanJobs \ {j} : execution'.work[k] = e.work[k]
    BY <1>5, <1>8 DEF ExecutionsOf, Works
  <2>. QED BY <1>2, <1>4, <1>5, <1>8, <2>1 DEF JobCounts, Staged
<1>9. CASE /\ record' = record /\ sent' = [sent EXCEPT ![j] = @ + 1]
           /\ execution' = [e EXCEPT !.work[j].at = "sending", !.calls = @ + 1]
  <2>1. PICK calls : calls = e.calls + 1 OBVIOUS
  <2>2. execution' = [e EXCEPT !.work[j].at = "sending", !.calls = calls] BY <1>9, <2>1
  <2>3. /\ execution'.work[j].at = "sending" /\ execution'.work[j].n = w.n
        /\ \A k \in PlanJobs \ {j} : execution'.work[k] = e.work[k]
    BY <1>3, <1>5, <2>2 DEF ExecutionsOf, Works
  <2>4. sent'[j] = sent[j] + 1 /\ \A k \in PlanJobs \ {j} : sent'[k] = sent[k]
    BY <1>4, <1>9
  <2>5. sent[j] < Cardinality(Leased(old)) /\ w.n = Len(old.outcomes) + 1
    BY <1>4 DEF Staged
  <2>6. Cardinality(Leased(old)) \in Nat BY <1>4, LeasesCounted
  <2>7. Counted(old, sent'[j]) BY <1>4, <2>4, <2>5, <2>6 DEF Counted
  <2>8. Staged(execution'.work[j], old, sent'[j]) BY <2>3, <2>5 DEF Staged
  <2>. QED BY <1>2, <1>5, <1>9, <2>3, <2>4, <2>7, <2>8 DEF JobCounts
<1>. QED BY <1>6, <1>7, <1>8, <1>9

LEMMA SettlingCounts ==
  ASSUME PlanInv, WorkInv, plan # Nil, NEW j \in PlanJobs, Settle(j) \/ AcceptTrace(j)
  PROVE  JobCounts(j)
<1>1. execution # Nil /\ sent' = sent BY DEF Settle, AcceptTrace, Stage
<1>2. PICK old : old = record[j] OBVIOUS
<1>3. PICK w : w = execution.work[j] OBVIOUS
<1>4. /\ old \in JobRecords /\ w \in Works /\ Counted(old, sent[j])
      /\ Staged(w, old, sent[j]) /\ record \in [PlanJobs -> JobRecords]
  BY <1>1, <1>2, <1>3, JobTyped
<1>5. CASE Settle(j)
  <2>1. w.at = "sending" /\ \E outcome \in {"unsent", "final"} : Outcome(j, outcome)
    BY <1>3, <1>5 DEF Settle, Stage
  <2>2. w.n = Len(old.outcomes) + 1 BY <1>4, <2>1 DEF Staged
  <2>. QED BY <1>1, <1>2, <1>3, <2>1, <2>2, OutcomeCounts
<1>6. CASE AcceptTrace(j)
  <2>1. PICK e : e = execution /\ e \in ExecutionsOf(PlanJobs) BY <1>1, JobTyped
  <2>2. \/ /\ record' = record
           /\ execution' = [e EXCEPT !.work[j].at = "pending", !.cancelled = TRUE]
        \/ Records(j, [old EXCEPT !.accepted = TRUE], "settled")
    BY <1>2, <1>6, <2>1 DEF AcceptTrace
  <2>3. CASE /\ record' = record
             /\ execution' = [e EXCEPT !.work[j].at = "pending", !.cancelled = TRUE]
    <3>1. /\ execution'.work[j].at = "pending"
          /\ \A k \in PlanJobs \ {j} : execution'.work[k] = e.work[k]
      BY <2>1, <2>3 DEF ExecutionsOf, Works
    <3>. QED BY <1>1, <1>2, <1>4, <2>1, <2>3, <3>1 DEF JobCounts, Staged
  <2>4. CASE Records(j, [old EXCEPT !.accepted = TRUE], "settled")
    <3>1. /\ Leased([old EXCEPT !.accepted = TRUE]) = Leased(old)
          /\ [old EXCEPT !.accepted = TRUE].outcomes = old.outcomes
      BY <1>4 DEF Leased, JobRecords
    <3>2. [w EXCEPT !.at = "settled"].at = "settled" BY <1>4 DEF Works
    <3>3. Counted([old EXCEPT !.accepted = TRUE], sent[j]) BY <1>4, <3>1 DEF Counted
    <3>4. Staged([w EXCEPT !.at = "settled"], [old EXCEPT !.accepted = TRUE], sent[j])
      BY <3>2 DEF Staged
    <3>. QED BY <1>1, <1>3, <2>4, <3>3, <3>4, RecordsCounts DEF WorkStages
  <2>. QED BY <2>2, <2>3, <2>4
<1>. QED BY <1>5, <1>6

LEMMA WorkBuilds ==
  ASSUME PlanInv, WorkInv, NEW draft \in Drafts, BuildPlan(draft)
  PROVE  WorkInv'
<1>1. /\ execution' = Nil /\ granted' = Nil
      /\ jobs' = JobList /\ record' = [j \in DOMAIN JobList |-> NoRecords]
      /\ sent' = [j \in DOMAIN JobList |-> 0]
  BY DEF BuildPlan, PlanInv, PlanSound
<1>2. \A j \in PlanJobs' : record'[j] = NoRecords /\ sent'[j] = 0 BY <1>1 DEF PlanJobs
<1>3. NoRecords' = NoRecords BY DEF NoRecords
<1>4. NoRecords \in JobRecords /\ Len(NoRecords.outcomes) = 0
  <2>1. <<>> \in Seq({"unsent", "final"}) OBVIOUS
  <2>. QED BY <2>1 DEF NoRecords, JobRecords
<1>5. Counted(NoRecords, 0)
  <2>1. Cardinality(Leased(NoRecords)) \in Nat BY <1>4, LeasesCounted
  <2>2. Protocol.maximumAttempts \in Nat BY PlanAssumption
  <2>. QED BY <1>4, <2>1, <2>2 DEF Counted
<1>6. \A j \in PlanJobs' : Counted(record'[j], sent'[j]) BY <1>2, <1>5
<1>7. (\A j \in PlanJobs : Counted(record[j], sent[j]))' BY <1>6 DEF Counted, Leased
<1>. QED BY <1>1, <1>2, <1>3, <1>7 DEF WorkInv

LEMMA WorkStartsAgain ==
  ASSUME PlanInv, WorkInv, NEW live \in LiveTargets, StartExecution(live)
  PROVE  WorkInv'
<1>1. /\ plan # Nil /\ BudgetAdmits(plan.budget)
      /\ UNCHANGED <<inputVars, granted, record, sent>>
  BY DEF StartExecution
<1>2. /\ BudgetAdmits(plan.budget)' /\ PlanJobs' = PlanJobs
  BY <1>1, AdmittedKept
<1>3. \A j \in PlanJobs : /\ execution'.work[j].at = "queued" /\ execution'.work[j].n = 1
  BY DEF StartExecution
<1>4. \A j \in PlanJobs : Staged(execution'.work[j], record[j], sent[j]) BY <1>3 DEF Staged
<1>5. (\A j \in PlanJobs : Staged(execution.work[j], record[j], sent[j]))'
  BY <1>1, <1>2, <1>4 DEF Staged, Leased
<1>6. (\A j \in PlanJobs : Counted(record[j], sent[j]))'
  BY <1>1, <1>2 DEF WorkInv, Counted, Leased
<1>. QED BY <1>2, <1>5, <1>6 DEF WorkInv

LEMMA WorkLives ==
  ASSUME PlanInv, WorkInv,
         Admission \/ CancelExecution \/ CrashExecution \/ ReturnResult \/ TimePasses
  PROVE  WorkInv'
<1>1. UNCHANGED <<inputVars, record, sent>>
  BY DEF Admission, CancelExecution, CrashExecution, ReturnResult, TimePasses
<1>2. /\ BudgetAdmits(plan.budget)' = BudgetAdmits(plan.budget) /\ plan' = plan
      /\ PlanJobs' = PlanJobs
  BY <1>1, AdmittedKept
<1> SUFFICES ASSUME plan # Nil PROVE WorkInv'
  BY <1>2 DEF WorkInv
<1>3. execution' = Nil \/ (execution # Nil /\ execution'.work = execution.work)
  <2>1. CASE execution = Nil
    BY <2>1 DEF Admission, CancelExecution, CrashExecution, ReturnResult, TimePasses
  <2>2. CASE execution # Nil
    <3>1. PICK e : e = execution /\ e \in ExecutionsOf(PlanJobs)
      BY <2>2 DEF PlanInv, ExecutionSound
    <3>2. CASE Admission
      <4>1. \/ execution' = [e EXCEPT !.at = "jobs"]
            \/ execution' = [e EXCEPT !.at = "jobs", !.deadline = granted']
        BY <3>1, <3>2 DEF Admission
      <4>. QED BY <2>2, <3>1, <4>1 DEF ExecutionsOf
    <3>3. CASE CancelExecution
      <4>1. execution' = [e EXCEPT !.cancelled = TRUE] BY <3>1, <3>3 DEF CancelExecution
      <4>. QED BY <2>2, <3>1, <4>1 DEF ExecutionsOf
    <3>4. CASE TimePasses BY <2>2, <3>4 DEF TimePasses
    <3>5. CASE CrashExecution \/ ReturnResult BY <3>5 DEF CrashExecution, ReturnResult
    <3>. QED BY <3>2, <3>3, <3>4, <3>5
  <2>. QED BY <2>1, <2>2
<1>4. \/ BudgetAdmits(plan.budget)
      \/ execution' = Nil /\ granted' = Nil
    BY DEF WorkInv, Admission, CancelExecution, CrashExecution, ReturnResult, TimePasses
<1>5. (\A j \in PlanJobs : Counted(record[j], sent[j]))'
  BY <1>1, <1>2 DEF WorkInv, Counted, Leased
<1>6. execution' # Nil => (\A j \in PlanJobs : Staged(execution.work[j], record[j], sent[j]))'
  <2> SUFFICES ASSUME execution' # Nil
               PROVE  (\A j \in PlanJobs : Staged(execution.work[j], record[j], sent[j]))'
    OBVIOUS
  <2>1. \A j \in PlanJobs : Staged(execution.work[j], record[j], sent[j])
    BY <1>3 DEF WorkInv
  <2>. QED BY <1>1, <1>2, <1>3, <2>1 DEF Staged, Leased
<1>7. BudgetAdmits(plan.budget)' \/
      (execution = Nil /\ granted = Nil /\ \A j \in PlanJobs : record[j] = NoRecords /\ sent[j] = 0)'
  BY <1>1, <1>2, <1>4 DEF WorkInv, NoRecords
<1>. QED BY <1>5, <1>6, <1>7 DEF WorkInv

LEMMA WorkStep == PlanInv /\ WorkInv /\ [PlanNext]_planVars => WorkInv'
<1> SUFFICES ASSUME PlanInv, WorkInv, [PlanNext]_planVars PROVE WorkInv'
  OBVIOUS
<1>1. ASSUME NEW d \in Drafts, BuildPlan(d) PROVE WorkInv' BY <1>1, WorkBuilds
<1>2. ASSUME NEW live \in LiveTargets, StartExecution(live) PROVE WorkInv'
  BY <1>2, WorkStartsAgain
<1>3. CASE Admission \/ CancelExecution \/ CrashExecution \/ ReturnResult \/ TimePasses
  BY <1>3, WorkLives
<1>4. ASSUME plan # Nil, NEW j \in PlanJobs,
             TakeJob(j) \/ BeginAttempt(j) \/ Contact(j) \/ Settle(j) \/ AcceptTrace(j)
      PROVE  WorkInv'
  <2>1. execution # Nil /\ UNCHANGED <<inputVars, granted>>
    BY <1>4 DEF TakeJob, BeginAttempt, Contact, Settle, AcceptTrace, Stage
  <2>2. JobCounts(j)
    BY <1>4, TakingCounts, BeginningCounts, ContactCounts, SettlingCounts
  <2>3. \A k \in PlanJobs \ {j} : sent'[k] = sent[k]
    BY <1>4, ContactCounts DEF TakeJob, BeginAttempt, Settle, AcceptTrace
  <2>. QED BY <1>4, <2>1, <2>2, <2>3, JobCountsKeep
<1>5. CASE UNCHANGED planVars
  <2>1. UNCHANGED <<inputVars, record, sent, granted, execution>>
    BY <1>5 DEF planVars, inputVars
  <2>2. /\ BudgetAdmits(plan.budget)' = BudgetAdmits(plan.budget) /\ plan' = plan
        /\ PlanJobs' = PlanJobs
    BY <2>1, AdmittedKept
  <2>. QED BY <2>1, <2>2 DEF WorkInv, Counted, Staged, Leased, NoRecords
<1>. QED BY <1>1, <1>2, <1>3, <1>4, <1>5 DEF PlanNext

LEMMA WorkInvariant == PlanSpec => []WorkInv
<1>. QED BY WorkStarts, WorkStep, PlanInvariant, PTL DEF PlanSpec

\* The jobs of a run, and the profile of each of them.
LEMMA JobsCounted ==
  ASSUME PlanInv, plan # Nil
  PROVE  /\ IsFiniteSet(PlanJobs) /\ Len(jobs) \in Nat /\ Cardinality(PlanJobs) = Len(jobs)
         /\ \A j \in PlanJobs : jobs[j].profile \in Profiles
<1>1. jobs = JobList /\ workload \in Workloads /\ hash \in Hashes BY DEF PlanInv, PlanSound
<1>2. PICK n \in Nat \ {0} : n = Len(Base) /\ DOMAIN Base = 1 .. n BY BlockShape
<1>3. PICK size \in Nat : size = Cardinality(InSample) BY <1>1, SampleFinite
<1>4. PICK total \in Nat : total = size * n
  <2>1. size * n \in Nat OBVIOUS
  <2>. QED BY <2>1
<1>5. PlanJobs = 1 .. total BY <1>1, <1>2, <1>3, <1>4 DEF PlanJobs, JobList
<1>6. IsFiniteSet(PlanJobs) /\ Cardinality(PlanJobs) = total BY <1>5, FS_Interval
<1>7. Len(jobs) = total
  <2>1. jobs = [k \in 1 .. total |-> jobs[k]] BY <1>1, <1>5 DEF PlanJobs, JobList
  <2>2. jobs \in Seq({jobs[k] : k \in 1 .. total}) BY <2>1
  <2>. QED BY <1>5, <2>2 DEF PlanJobs
<1>8. ASSUME NEW j \in PlanJobs PROVE jobs[j].profile \in Profiles
  <2>1. PICK m \in 1 .. Cardinality(InSample), k \in DOMAIN Base :
            JobList[j] = JobOf(Sampled[m], k)
    BY <1>1, JobsShape DEF PlanJobs
  <2>2. jobs[j].profile = ProfileOrder(workload[Sampled[m][1]].case, Sampled[m][2])[k]
    BY <1>1, <2>1 DEF JobOf
  <2>. QED BY <1>1, <2>2, JobsSampled, OrdersRotate
<1>. QED BY <1>4, <1>6, <1>7, <1>8

\* What one job did.
LEMMA JobSpent ==
  ASSUME PlanInv, WorkInv, plan # Nil, NEW j \in PlanJobs
  PROVE  /\ sent[j] \in Nat /\ sent[j] <= Protocol.maximumAttempts
         /\ AttemptsOf(j) \in Nat /\ AttemptsOf(j) <= Protocol.maximumAttempts
         /\ RecordsOf(j) \in Nat /\ RecordsOf(j) <= 3 + 2 * Protocol.maximumAttempts
<1>1. record[j] \in JobRecords /\ sent[j] \in Nat /\ Counted(record[j], sent[j])
  BY DEF PlanInv, PlanSound, WorkInv
<1>2. PICK max \in Nat : max = Protocol.maximumAttempts BY PlanAssumption
<1>3. PICK leases \in Nat : leases = Cardinality(Leased(record[j])) /\ leases <= max
  BY <1>1, <1>2, LeasesCounted
<1>4. PICK length \in Nat : length = Len(record[j].outcomes) BY <1>1, LeasesCounted
<1>5. sent[j] <= leases /\ length <= max BY <1>1, <1>2, <1>3, <1>4 DEF Counted
<1>6. AttemptsOf(j) = length BY <1>4 DEF AttemptsOf
<1>7. RecordsOf(j) = leases + length + (IF record[j].intent THEN 1 ELSE 0)
                         + (IF record[j].accepted THEN 2 ELSE 0)
  BY <1>3, <1>6 DEF RecordsOf, Leased
<1>. QED BY <1>1, <1>2, <1>3, <1>5, <1>6, <1>7

\* Bytes are spent contact by contact.
LEMMA BytesWithin ==
  ASSUME PlanInv, WorkInv, plan # Nil, NEW bytes, \A p \in Profiles : bytes[p] \in Nat
  PROVE  /\ SumFunction([j \in PlanJobs |-> sent[j] * bytes[jobs[j].profile]])
                <= Protocol.maximumAttempts
                       * SumFunction([j \in PlanJobs |-> bytes[jobs[j].profile]])
         /\ SumFunction([j \in PlanJobs |-> sent[j] * bytes[jobs[j].profile]]) \in Nat
         /\ Protocol.maximumAttempts
                * SumFunction([j \in PlanJobs |-> bytes[jobs[j].profile]]) \in Int
<1>1. PICK max \in Nat : max = Protocol.maximumAttempts BY PlanAssumption
<1>2. PICK f : f = [j \in PlanJobs |-> sent[j] * bytes[jobs[j].profile]] OBVIOUS
<1>3. PICK g : g = [j \in PlanJobs |-> bytes[jobs[j].profile]] OBVIOUS
<1>4. ASSUME NEW j \in PlanJobs
      PROVE  f[j] \in Nat /\ g[j] \in Nat /\ f[j] <= max * g[j]
  <2>1. PICK b \in Nat : b = bytes[jobs[j].profile] BY JobsCounted
  <2>2. PICK s \in Nat : s = sent[j] /\ s <= max BY <1>1, JobSpent
  <2>3. s * b \in Nat /\ s * b <= max * b BY <2>2
  <2>. QED BY <1>2, <1>3, <2>1, <2>2, <2>3
<1>5. f \in [PlanJobs -> Nat] /\ g \in [PlanJobs -> Nat] BY <1>2, <1>3, <1>4
<1>6. IsFiniteSet(PlanJobs) BY JobsCounted
<1>7. /\ SumFunction(f) \in Nat /\ SumFunction(g) \in Nat
      /\ SumFunction(f) <= max * SumFunction(g)
  BY <1>4, <1>5, <1>6, SumWithin
<1>8. max * SumFunction(g) \in Int BY <1>7
<1>. QED BY <1>1, <1>2, <1>3, <1>7, <1>8

\* The work of every execution of a run together, contacts, attempts, records and
\* bytes, is within the budget of the plan, for any number of executions, crashes
\* and retries (assertPlanAndWorkloadPreflight and the counting of processJob).
THEOREM WorkStaysAdmitted == PlanSpec => []WorkIsAdmitted
<1>1. ASSUME PlanInv, WorkInv, plan # Nil
      PROVE  /\ SumFunction([j \in PlanJobs |-> sent[j]]) <= plan.budget.calls
             /\ SumFunction([j \in PlanJobs |-> AttemptsOf(j)]) <= plan.budget.attempts
             /\ SumFunction([j \in PlanJobs |-> RecordsOf(j)])
                    + (IF granted = Nil THEN 0 ELSE 1) <= plan.budget.records
             /\ SumFunction([j \in PlanJobs |-> sent[j] * RequestBytes[jobs[j].profile]])
                    <= plan.budget.requestBytes
             /\ SumFunction([j \in PlanJobs |-> sent[j] * ResponseLimit[jobs[j].profile]])
                    <= plan.budget.responseBytes
  <2>1. PICK budget : budget = plan.budget OBVIOUS
  <2>2. {budget.calls, budget.attempts, budget.records, budget.requestBytes,
         budget.responseBytes} \subseteq Nat
    BY <1>1, <2>1, PlanAssumption DEF PlanInv, PlanSound
  <2>3. PICK max \in Nat : max = Protocol.maximumAttempts BY PlanAssumption
  <2>4. PICK size \in Nat : size = Len(jobs) /\ size = Cardinality(PlanJobs)
    BY <1>1, JobsCounted
  <2>5. IsFiniteSet(PlanJobs) BY <1>1, JobsCounted
  <2>6. PICK called, tried, written :
            /\ called = [j \in PlanJobs |-> sent[j]]
            /\ tried = [j \in PlanJobs |-> AttemptsOf(j)]
            /\ written = [j \in PlanJobs |-> RecordsOf(j)]
    OBVIOUS
  <2>7. PICK asked, answered :
            /\ asked = [j \in PlanJobs |-> sent[j] * RequestBytes[jobs[j].profile]]
            /\ answered = [j \in PlanJobs |-> sent[j] * ResponseLimit[jobs[j].profile]]
    OBVIOUS
  <2>8. /\ called \in [PlanJobs -> Nat] /\ tried \in [PlanJobs -> Nat]
        /\ written \in [PlanJobs -> Nat]
        /\ \A j \in PlanJobs : called[j] <= max /\ tried[j] <= max
                               /\ written[j] <= 3 + 2 * max
    BY <1>1, <2>3, <2>6, JobSpent
  <2>9. /\ SumFunction(called) \in Nat /\ SumFunction(called) <= max * size
        /\ SumFunction(tried) \in Nat /\ SumFunction(tried) <= max * size
        /\ SumFunction(written) \in Nat /\ SumFunction(written) <= (3 + 2 * max) * size
    <3>1. 3 + 2 * max \in Nat OBVIOUS
    <3>2. SumFunction(called) \in Nat /\ SumFunction(called) <= max * size
      BY <2>4, <2>5, <2>8, SumAtMost
    <3>3. SumFunction(tried) \in Nat /\ SumFunction(tried) <= max * size
      BY <2>4, <2>5, <2>8, SumAtMost
    <3>4. SumFunction(written) \in Nat /\ SumFunction(written) <= (3 + 2 * max) * size
      BY <2>4, <2>5, <2>8, <3>1, SumAtMost
    <3>. QED BY <3>2, <3>3, <3>4
  <2>10. Profiles = Range(Base)
    BY DEF Profiles
  <2>11. /\ SumFunction(asked) \in Nat /\ MaximumRequestBytes \in Int
         /\ SumFunction(asked) <= MaximumRequestBytes
         /\ SumFunction(answered) \in Nat /\ MaximumResponseBytes \in Int
         /\ SumFunction(answered) <= MaximumResponseBytes
    <3>1. \A p \in Profiles : RequestBytes[p] \in Nat /\ ResponseLimit[p] \in Nat
      BY <2>10, PlanAssumption
    <3>2. /\ SumFunction(asked) \in Nat /\ MaximumRequestBytes \in Int
          /\ SumFunction(asked) <= MaximumRequestBytes
      BY <1>1, <2>7, <3>1, BytesWithin DEF MaximumRequestBytes
    <3>3. /\ SumFunction(answered) \in Nat /\ MaximumResponseBytes \in Int
          /\ SumFunction(answered) <= MaximumResponseBytes
      BY <1>1, <2>7, <3>1, BytesWithin DEF MaximumResponseBytes
    <3>. QED BY <3>2, <3>3
  <2>12. CASE BudgetAdmits(plan.budget)
    <3>1. MaximumAttempts = size * max BY <2>3, <2>4 DEF MaximumAttempts
    <3>2. MaximumRecords = 1 + 3 * size + 2 * (size * max)
      BY <2>4, <3>1 DEF MaximumRecords
    <3>3. size * max \in Nat /\ max * size = size * max
          /\ (3 + 2 * max) * size = 3 * size + 2 * (size * max)
      OBVIOUS
    <3>4. size * max <= budget.attempts /\ size * max <= budget.calls
      BY <2>1, <2>2, <2>12, <3>1, <3>3 DEF BudgetAdmits, Least
    <3>5. 1 + 3 * size + 2 * (size * max) <= budget.records
      BY <2>1, <2>12, <3>2 DEF BudgetAdmits
    <3>6. MaximumRequestBytes <= budget.requestBytes
          /\ MaximumResponseBytes <= budget.responseBytes
      BY <2>1, <2>12 DEF BudgetAdmits
    <3>7. SumFunction(asked) <= budget.requestBytes
          /\ SumFunction(answered) <= budget.responseBytes
      BY <2>2, <2>11, <3>6
    <3>8. SumFunction(called) <= budget.calls /\ SumFunction(tried) <= budget.attempts
      BY <2>2, <2>9, <3>3, <3>4
    <3>9. SumFunction(written) + (IF granted = Nil THEN 0 ELSE 1) <= budget.records
      BY <2>2, <2>9, <3>3, <3>5
    <3>. QED BY <2>1, <2>6, <2>7, <3>7, <3>8, <3>9
  <2>13. CASE /\ execution = Nil /\ granted = Nil
              /\ \A j \in PlanJobs : record[j] = NoRecords /\ sent[j] = 0
    <3>1. ASSUME NEW j \in PlanJobs
          PROVE  /\ called[j] <= 0 /\ tried[j] <= 0 /\ written[j] <= 0
                 /\ asked[j] \in Nat /\ asked[j] <= 0 /\ answered[j] \in Nat /\ answered[j] <= 0
      <4>1. record[j] = NoRecords /\ sent[j] = 0 BY <2>13
      <4>2. AttemptsOf(j) = 0 BY <4>1 DEF AttemptsOf, NoRecords
      <4>3. {n \in DOMAIN record[j].leases : record[j].leases[n] # Nil} = {}
        BY <4>1 DEF NoRecords
      <4>4. RecordsOf(j) = 0
        <5>1. ~record[j].intent /\ ~record[j].accepted BY <4>1 DEF NoRecords
        <5>2. Cardinality({n \in DOMAIN record[j].leases : record[j].leases[n] # Nil}) = 0
          BY <4>3, FS_EmptySet
        <5>. QED BY <4>2, <5>1, <5>2 DEF RecordsOf
      <4>5. RequestBytes[jobs[j].profile] \in Nat /\ ResponseLimit[jobs[j].profile] \in Nat
        BY <1>1, <2>10, JobsCounted, PlanAssumption
      <4>. QED BY <2>6, <2>7, <4>1, <4>2, <4>4, <4>5
    <3>2. /\ SumFunction(called) \in Nat /\ SumFunction(called) <= 0 * size
          /\ SumFunction(tried) \in Nat /\ SumFunction(tried) <= 0 * size
      BY <2>4, <2>5, <2>8, <3>1, SumAtMost
    <3>3. SumFunction(written) \in Nat /\ SumFunction(written) <= 0 * size
      BY <2>4, <2>5, <2>8, <3>1, SumAtMost
    <3>4. asked \in [PlanJobs -> Nat] /\ answered \in [PlanJobs -> Nat] BY <2>7, <3>1
    <3>5. /\ SumFunction(asked) \in Nat /\ SumFunction(asked) <= 0 * size
          /\ SumFunction(answered) \in Nat /\ SumFunction(answered) <= 0 * size
      BY <2>4, <2>5, <3>1, <3>4, SumAtMost
    <3>6. granted = Nil BY <2>13
    <3>. QED BY <2>1, <2>2, <2>6, <2>7, <3>2, <3>3, <3>5, <3>6
  <2>. QED BY <1>1, <2>12, <2>13 DEF WorkInv
<1>2. PlanInv /\ WorkInv => WorkIsAdmitted BY <1>1 DEF WorkIsAdmitted
<1>. QED BY <1>2, PlanInvariant, WorkInvariant, PTL

-----------------------------------------------------------------------------
(* What the run is given in time.                                          *)

\* The leases taken so far, and when all of them have ended if none overlap.
LeaseCount == SumFunction([j \in PlanJobs |-> Cardinality(Leased(record[j]))])
SpentBy ==
    execution.deadline - plan.budget.wallClock + LeaseCount * Protocol.attemptTimeout

\* A job that is not pending has no lease of the attempts to come, and the lease
\* that it holds has ended by then.
JobInTime(w, r, end) ==
    /\ w.at # "pending"
    /\ w.at \in {"leased", "sending"} => r.leases[w.n] \in Int /\ r.leases[w.n] <= end
    /\ \A n \in 1 .. Protocol.maximumAttempts :
           n > w.n \/ (n = w.n /\ w.at \in {"queued", "attempt"}) => r.leases[n] = Nil

\* While nothing interrupts the run, the time since its start is that of its leases.
TimeInv ==
    /\ started \in Nat
    /\ ~idled =>
           /\ plan # Nil /\ execution = Nil
                  => granted = Nil /\ \A j \in PlanJobs : record[j] = NoRecords
           /\ execution # Nil => started > 0
           /\ execution # Nil /\ ~execution.cancelled =>
                  /\ execution.at = "admission" => granted = Nil
                  /\ time <= SpentBy
                  /\ \A j \in PlanJobs : JobInTime(execution.work[j], record[j], SpentBy)

LEMMA LeasesTotal ==
  ASSUME PlanInv, plan # Nil
  PROVE  /\ LeaseCount \in Nat
         /\ [j \in PlanJobs |-> Cardinality(Leased(record[j]))] \in [PlanJobs -> Nat]
<1>1. PICK f : f = [j \in PlanJobs |-> Cardinality(Leased(record[j]))] OBVIOUS
<1>2. f \in [PlanJobs -> Nat] /\ \A j \in PlanJobs : f[j] <= Protocol.maximumAttempts
  BY <1>1, LeasesCounted DEF PlanInv, PlanSound
<1>3. IsFiniteSet(PlanJobs) /\ Protocol.maximumAttempts \in Nat BY JobsCounted, PlanAssumption
<1>4. SumFunction(f) \in Nat BY <1>2, <1>3, SumAtMost
<1>. QED BY <1>1, <1>2, <1>4 DEF LeaseCount

\* While a job has an attempt without a lease there is time for it.
LEMMA TimeIsLeft ==
  ASSUME PlanInv, WorkInv, TimeInv, plan # Nil, execution # Nil, ~idled, ~execution.cancelled,
         NEW j \in PlanJobs, execution.work[j].at \in {"queued", "attempt"}
  PROVE  /\ time + Protocol.attemptTimeout <= execution.deadline
         /\ time < execution.deadline
<1>1. PICK max \in Nat : max = Protocol.maximumAttempts BY PlanAssumption
<1>2. PICK size \in Nat : size = Len(jobs) /\ size = Cardinality(PlanJobs) BY JobsCounted
<1>3. IsFiniteSet(PlanJobs) BY JobsCounted
<1>4. PICK f : f = [k \in PlanJobs |-> Cardinality(Leased(record[k]))] OBVIOUS
<1>5. f \in [PlanJobs -> Nat] /\ LeaseCount \in Nat BY <1>4, LeasesTotal
<1>6. PICK n \in 1 .. max : n = execution.work[j].n BY <1>1, JobTyped DEF Works
<1>7. n \notin Leased(record[j])
  <2>1. record[j].leases[n] = Nil BY <1>1, <1>6 DEF TimeInv, JobInTime
  <2>. QED BY <2>1 DEF Leased
<1>8. f[j] + 1 <= max
  <2>1. PICK all : all = 1 .. max OBVIOUS
  <2>2. IsFiniteSet(all) /\ Cardinality(all) = max /\ n \in all
    BY <1>6, <2>1, FS_Interval
  <2>3. IsFiniteSet(all \ {n}) /\ Cardinality(all \ {n}) = max - 1
    BY <2>2, FS_RemoveElement
  <2>4. Cardinality(Leased(record[j])) <= max - 1
    <3>1. record[j] \in JobRecords BY JobTyped
    <3>2. Leased(record[j]) \subseteq all \ {n}
      BY <1>1, <1>7, <2>1, <3>1 DEF Leased, JobRecords
    <3>. QED BY <2>3, <3>2, FS_Subset
  <2>. QED BY <1>4, <1>5, <2>4
<1>9. LeaseCount + 1 <= max * size
  <2>1. PICK g : g = [f EXCEPT ![j] = f[j] + 1] OBVIOUS
  <2>2. g \in [PlanJobs -> Nat] /\ g[j] = f[j] + 1 /\ \A k \in PlanJobs \ {j} : g[k] = f[k]
    BY <1>5, <2>1
  <2>3. \A k \in PlanJobs : g[k] <= max
    <3>1. \A k \in PlanJobs : f[k] <= max
      BY <1>1, <1>4, LeasesCounted DEF PlanInv, PlanSound
    <3>. QED BY <1>8, <2>2, <3>1
  <2>4. SumFunction(g) = SumFunction(f) + 1 BY <1>3, <1>5, <2>2, SumAdded
  <2>5. SumFunction(g) <= max * size BY <1>2, <1>3, <2>2, <2>3, SumAtMost
  <2>. QED BY <1>4, <2>4, <2>5 DEF LeaseCount
<1>10. PICK wall \in Nat : wall = plan.budget.wallClock
  BY PlanAssumption DEF PlanInv, PlanSound
<1>11. PICK timeout \in Nat : timeout = Protocol.attemptTimeout /\ timeout > 0
  BY PlanAssumption
<1>12. size * max * timeout <= wall
  BY <1>1, <1>2, <1>10, <1>11 DEF WorkInv, BudgetAdmits, AttemptWork, MaximumAttempts
<1>13. PICK count \in Nat : count = LeaseCount BY <1>5
<1>14. (count + 1) * timeout <= (max * size) * timeout
  <2>1. PICK a \in Nat : a = count + 1 OBVIOUS
  <2>2. PICK b \in Nat : b = max * size
    <3>1. max * size \in Nat OBVIOUS
    <3>. QED BY <3>1
  <2>3. a <= b BY <1>9, <1>13, <2>1, <2>2
  <2>4. a * timeout <= b * timeout BY <2>3
  <2>. QED BY <2>1, <2>2, <2>4
<1>15. /\ (count + 1) * timeout = count * timeout + timeout
       /\ (max * size) * timeout = size * max * timeout
       /\ count * timeout \in Nat /\ size * max * timeout \in Nat
  OBVIOUS
<1>16. execution.deadline \in Int /\ time \in Nat
  BY JobTyped DEF PlanInv, PlanSound, ExecutionsOf
<1>17. time <= execution.deadline - wall + count * timeout
  BY <1>10, <1>11, <1>13 DEF TimeInv, SpentBy
<1>. QED BY <1>11, <1>12, <1>14, <1>15, <1>16, <1>17

\* A run that nothing interrupted.
Undisturbed ==
    /\ PlanInv /\ WorkInv /\ TimeInv
    /\ plan # Nil /\ execution # Nil /\ ~idled /\ ~execution.cancelled

\* A step of job j is in time, or it ends the execution.
JobTimed(j) ==
    \/ execution'.cancelled
    \/ /\ execution'.deadline = execution.deadline /\ execution'.at = execution.at
       /\ \A k \in PlanJobs \ {j} :
             record'[k] = record[k] /\ execution'.work[k] = execution.work[k]
       /\ LeaseCount' \in Nat /\ LeaseCount <= LeaseCount'
       /\ JobInTime(execution'.work[j], record'[j], SpentBy')

\* An execution is not null.
LEMMA ExecutionIsSomething ==
  ASSUME PlanInv, plan # Nil, NEW e \in ExecutionsOf(PlanJobs)
  PROVE  e # Nil
<1>1. PICK total \in Nat : PlanJobs = 1 .. total
  <2>1. PICK n \in Nat \ {0} : n = Len(Base) /\ DOMAIN Base = 1 .. n BY BlockShape
  <2>2. PICK size \in Nat : size = Cardinality(InSample)
    BY SampleFinite DEF PlanInv, PlanSound
  <2>3. size * n \in Nat OBVIOUS
  <2>. QED BY <2>1, <2>2, <2>3 DEF PlanInv, PlanSound, PlanJobs, JobList
<1>2. ASSUME NEW w \in [1 .. total -> Works] PROVE w \in Seq([at : WorkStages, n : Nat])
  <2>1. Protocol.maximumAttempts \in Nat BY PlanAssumption
  <2>2. Works \subseteq [at : WorkStages, n : Nat] BY <2>1 DEF Works
  <2>3. \A i \in 1 .. total : w[i] \in [at : WorkStages, n : Nat] BY <2>2
  <2>4. w = [i \in 1 .. total |-> w[i]] OBVIOUS
  <2>. QED BY <2>3, <2>4
<1>3. e \in [at : {"admission", "jobs"}, deadline : Int, live : LiveTargets, calls : Int,
            cancelled : BOOLEAN, work : Seq([at : WorkStages, n : Nat])]
  BY <1>1, <1>2 DEF ExecutionsOf
<1>. QED BY <1>3, PlanAssumption

\* A lease more is the time of an attempt more.
LEMMA SpentGrows ==
  ASSUME Undisturbed, UNCHANGED inputVars, execution'.deadline = execution.deadline,
         LeaseCount' \in Nat, LeaseCount <= LeaseCount'
  PROVE  /\ SpentBy \in Int /\ SpentBy' \in Int /\ SpentBy <= SpentBy'
         /\ LeaseCount' = LeaseCount + 1 => SpentBy' = SpentBy + Protocol.attemptTimeout
<1>1. PICK timeout \in Nat : timeout = Protocol.attemptTimeout BY PlanAssumption
<1>2. PICK wall \in Nat : wall = plan.budget.wallClock
  BY PlanAssumption DEF Undisturbed, PlanInv, PlanSound
<1>3. plan' = plan BY DEF inputVars
<1>4. execution.deadline \in Int BY DEF Undisturbed, PlanInv, ExecutionSound, ExecutionsOf
<1>5. PICK a \in Nat : a = LeaseCount BY LeasesTotal DEF Undisturbed
<1>6. PICK b \in Nat : b = LeaseCount' OBVIOUS
<1>7. a <= b /\ a * timeout \in Nat /\ b * timeout \in Nat /\ a * timeout <= b * timeout
  <2>1. a <= b BY <1>5, <1>6
  <2>2. a * timeout \in Nat /\ b * timeout \in Nat OBVIOUS
  <2>3. a * timeout <= b * timeout BY <2>1
  <2>. QED BY <2>1, <2>2, <2>3
<1>8. b = a + 1 => b * timeout = a * timeout + timeout OBVIOUS
<1>9. SpentBy = execution.deadline - wall + a * timeout BY <1>1, <1>2, <1>5 DEF SpentBy
<1>10. SpentBy' = execution.deadline - wall + b * timeout
  BY <1>1, <1>2, <1>3, <1>6 DEF SpentBy
<1>. QED BY <1>1, <1>4, <1>5, <1>6, <1>7, <1>8, <1>9, <1>10

LEMMA InTimeLonger ==
  ASSUME NEW w, NEW r, NEW end \in Int, NEW later \in Int, end <= later,
         JobInTime(w, r, end)
  PROVE  JobInTime(w, r, later)
BY DEF JobInTime

LEMMA JobTimedKeeps ==
  ASSUME Undisturbed, NEW j \in PlanJobs, JobStep(j), JobTimed(j),
         UNCHANGED <<inputVars, time, granted, started, idled>>
  PROVE  TimeInv'
<1>1. started \in Nat /\ started > 0 BY DEF Undisturbed, TimeInv
<1>2. PlanJobs' = PlanJobs BY DEF inputVars, PlanJobs
<1>3. ASSUME execution' # Nil, ~execution'.cancelled
      PROVE  /\ execution'.at = "admission" => granted' = Nil
             /\ time' <= SpentBy'
             /\ \A k \in PlanJobs : JobInTime(execution'.work[k], record'[k], SpentBy')
  <2>1. /\ execution'.deadline = execution.deadline /\ execution'.at = execution.at
        /\ LeaseCount' \in Nat /\ LeaseCount <= LeaseCount'
        /\ JobInTime(execution'.work[j], record'[j], SpentBy')
        /\ \A k \in PlanJobs \ {j} :
              record'[k] = record[k] /\ execution'.work[k] = execution.work[k]
    BY <1>3 DEF JobTimed
  <2>2. SpentBy \in Int /\ SpentBy' \in Int /\ SpentBy <= SpentBy' BY <2>1, SpentGrows
  <2>3. time \in Nat BY DEF Undisturbed, PlanInv, PlanSound
  <2>4. /\ execution.at = "admission" => granted = Nil
        /\ time <= SpentBy
        /\ \A k \in PlanJobs : JobInTime(execution.work[k], record[k], SpentBy)
    BY DEF Undisturbed, TimeInv
  <2>5. ASSUME NEW k \in PlanJobs, k # j
        PROVE  JobInTime(execution'.work[k], record'[k], SpentBy')
    <3>1. JobInTime(execution.work[k], record[k], SpentBy') BY <2>2, <2>4, InTimeLonger
    <3>. QED BY <2>1, <2>5, <3>1
  <2>. QED BY <2>1, <2>2, <2>3, <2>4, <2>5
<1>4. execution' # Nil /\ ~execution'.cancelled =>
          (\A k \in PlanJobs : JobInTime(execution.work[k], record[k], SpentBy))'
  BY <1>2, <1>3 DEF JobInTime
<1>5. execution' # Nil
  <2>1. execution' \in ExecutionsOf(PlanJobs) BY DEF JobStep
  <2>. QED BY <2>1, ExecutionIsSomething DEF Undisturbed
<1>. QED BY <1>1, <1>3, <1>4, <1>5 DEF TimeInv

\* The leases are as many as before if no job has one more, and one more if one has.
LEMMA LeasesSame ==
  ASSUME PlanJobs' = PlanJobs,
         \A k \in PlanJobs : Cardinality(Leased(record'[k])) = Cardinality(Leased(record[k]))
  PROVE  LeaseCount' = LeaseCount
<1>1. LeaseCount' = SumFunction([k \in PlanJobs |-> Cardinality(Leased(record'[k]))])
  BY DEF LeaseCount, Leased
<1>2. [k \in PlanJobs |-> Cardinality(Leased(record'[k]))]
          = [k \in PlanJobs |-> Cardinality(Leased(record[k]))]
  OBVIOUS
<1>. QED BY <1>1, <1>2 DEF LeaseCount

\* What is known of a job of an undisturbed run.
LEMMA UndisturbedJob ==
  ASSUME Undisturbed, NEW j \in PlanJobs
  PROVE  /\ execution \in ExecutionsOf(PlanJobs) /\ record \in [PlanJobs -> JobRecords]
         /\ record[j] \in JobRecords /\ execution.work[j] \in Works
         /\ Staged(execution.work[j], record[j], sent[j])
         /\ JobInTime(execution.work[j], record[j], SpentBy)
         /\ time <= SpentBy /\ time \in Nat /\ LeaseCount \in Nat /\ SpentBy \in Int
         /\ Protocol.maximumAttempts \in Nat /\ Protocol.attemptTimeout \in Nat
<1>1. /\ PlanInv /\ WorkInv /\ TimeInv /\ plan # Nil /\ execution # Nil /\ ~idled
      /\ ~execution.cancelled
  BY DEF Undisturbed
<1>2. LeaseCount \in Nat BY <1>1, LeasesTotal
<1>3. Protocol.maximumAttempts \in Nat /\ Protocol.attemptTimeout \in Nat BY PlanAssumption
<1>4. plan.budget.wallClock \in Nat BY <1>1, PlanAssumption DEF PlanInv, PlanSound
<1>5. execution.deadline \in Int BY <1>1, JobTyped DEF ExecutionsOf
<1>6. SpentBy \in Int
  <2>1. PICK a \in Nat, b \in Nat : a = LeaseCount /\ b = Protocol.attemptTimeout
    BY <1>2, <1>3
  <2>2. a * b \in Nat OBVIOUS
  <2>. QED BY <1>4, <1>5, <2>1, <2>2 DEF SpentBy
<1>7. time <= SpentBy /\ JobInTime(execution.work[j], record[j], SpentBy)
  BY <1>1 DEF TimeInv
<1>8. time \in Nat BY <1>1 DEF PlanInv, PlanSound
<1>. QED BY <1>1, <1>2, <1>3, <1>6, <1>7, <1>8, JobTyped

\* A step without a new lease.
LEMMA NoLeaseTimed ==
  ASSUME Undisturbed, NEW j \in PlanJobs, UNCHANGED inputVars,
         execution'.deadline = execution.deadline, execution'.at = execution.at,
         \A k \in PlanJobs \ {j} :
             record'[k] = record[k] /\ execution'.work[k] = execution.work[k],
         Leased(record'[j]) = Leased(record[j]),
         JobInTime(execution'.work[j], record'[j], SpentBy)
  PROVE  JobTimed(j)
<1>1. PlanJobs' = PlanJobs BY DEF inputVars, PlanJobs
<1>2. \A k \in PlanJobs : Cardinality(Leased(record'[k])) = Cardinality(Leased(record[k]))
  OBVIOUS
<1>3. LeaseCount' = LeaseCount BY <1>1, <1>2, LeasesSame
<1>4. LeaseCount \in Nat BY UndisturbedJob
<1>5. SpentBy' = SpentBy BY <1>3 DEF SpentBy, inputVars
<1>. QED BY <1>3, <1>4, <1>5 DEF JobTimed

LEMMA RecordsTimed ==
  ASSUME Undisturbed, NEW j \in PlanJobs, UNCHANGED inputVars,
         NEW stage \in {"settled", "attempt"}, NEW changed, Records(j, changed, stage),
         changed.leases = record[j].leases,
         stage = "attempt" => execution.work[j].at = "queued"
  PROVE  JobTimed(j)
<1>1. PICK e : e = execution OBVIOUS
<1>2. /\ e \in ExecutionsOf(PlanJobs) /\ record \in [PlanJobs -> JobRecords]
      /\ JobInTime(e.work[j], record[j], SpentBy)
  BY <1>1, UndisturbedJob
<1>3. /\ execution' = [e EXCEPT !.work[j].at = stage]
      /\ record' = [record EXCEPT ![j] = changed]
  BY <1>1 DEF Records
<1>4. /\ execution'.deadline = e.deadline /\ execution'.at = e.at
      /\ execution'.work[j].at = stage /\ execution'.work[j].n = e.work[j].n
      /\ \A k \in PlanJobs \ {j} : execution'.work[k] = e.work[k]
  BY <1>2, <1>3 DEF ExecutionsOf, Works
<1>5. record'[j] = changed /\ \A k \in PlanJobs \ {j} : record'[k] = record[k]
  BY <1>2, <1>3
<1>6. JobInTime(execution'.work[j], record'[j], SpentBy)
  BY <1>1, <1>2, <1>4, <1>5 DEF JobInTime
<1>7. Leased(record'[j]) = Leased(record[j]) BY <1>5 DEF Leased
<1>. QED BY <1>1, <1>4, <1>5, <1>6, <1>7, NoLeaseTimed

LEMMA GoOnTimed ==
  ASSUME Undisturbed, NEW j \in PlanJobs, UNCHANGED inputVars, NEW outcome, GoOn(j, outcome),
         \A k \in PlanJobs \ {j} : record'[k] = record[k],
         Leased(record'[j]) = Leased(record[j]), record'[j] \in JobRecords
  PROVE  JobTimed(j)
<1>1. PICK e : e = execution OBVIOUS
<1>2. /\ e \in ExecutionsOf(PlanJobs) /\ record[j] \in JobRecords
      /\ JobInTime(e.work[j], record[j], SpentBy) /\ Protocol.maximumAttempts \in Nat
  BY <1>1, UndisturbedJob
<1>3. PICK w : w = IF TriedAgain(j, outcome) THEN [at |-> "attempt", n |-> e.work[j].n + 1]
                                             ELSE [e.work[j] EXCEPT !.at = "trace"]
  OBVIOUS
<1>4. execution' = [e EXCEPT !.work[j] = w] BY <1>1, <1>3 DEF GoOn
<1>5. /\ execution'.work[j] = w /\ \A k \in PlanJobs \ {j} : execution'.work[k] = e.work[k]
      /\ execution'.deadline = e.deadline /\ execution'.at = e.at
  BY <1>2, <1>4 DEF ExecutionsOf
<1>6. PICK n \in 1 .. Protocol.maximumAttempts : n = e.work[j].n
  BY <1>2 DEF ExecutionsOf, Works
<1>7. \A m \in 1 .. Protocol.maximumAttempts : m > n => record'[j].leases[m] = Nil
  <2>1. \A m \in 1 .. Protocol.maximumAttempts : m > n => record[j].leases[m] = Nil
    BY <1>2, <1>6 DEF JobInTime
  <2>2. \A m \in 1 .. Protocol.maximumAttempts :
            record'[j].leases[m] = Nil <=> record[j].leases[m] = Nil
    BY <1>2 DEF Leased, JobRecords
  <2>. QED BY <2>1, <2>2
<1>8. w.at \in {"attempt", "trace"} /\ w.n \in Nat /\ n <= w.n
      /\ (w.at = "attempt" => w.n = n + 1)
  BY <1>2, <1>3, <1>6 DEF ExecutionsOf, Works
<1>9. JobInTime(w, record'[j], SpentBy) BY <1>2, <1>6, <1>7, <1>8 DEF JobInTime
<1>. QED BY <1>1, <1>5, <1>9, NoLeaseTimed

LEMMA OutcomeTimed ==
  ASSUME Undisturbed, NEW j \in PlanJobs, UNCHANGED inputVars,
         NEW outcome \in {"unsent", "final"}, Outcome(j, outcome)
  PROVE  JobTimed(j)
<1>1. record \in [PlanJobs -> JobRecords] /\ execution.work[j] \in Works
  BY UndisturbedJob
<1>2. PICK old, n : old = record[j] /\ n = execution.work[j].n OBVIOUS
<1>3. PICK new : new = [old EXCEPT !.outcomes = Append(@, outcome),
                                   !.leases[n] = IF @ = Nil THEN Nil ELSE "spent"]
  OBVIOUS
<1>4. record' = [record EXCEPT ![j] = new] BY <1>2, <1>3 DEF Outcome
<1>5. old \in JobRecords /\ n \in 1 .. Protocol.maximumAttempts BY <1>1, <1>2 DEF Works
<1>6. record'[j] = new /\ \A k \in PlanJobs \ {j} : record'[k] = record[k]
  BY <1>1, <1>4
<1>7. Append(old.outcomes, outcome) \in Seq({"unsent", "final"}) BY <1>5 DEF JobRecords
<1>8. /\ new \in JobRecords
      /\ new.leases = [old.leases EXCEPT ![n] = IF @ = Nil THEN Nil ELSE "spent"]
  BY <1>3, <1>5, <1>7 DEF JobRecords
<1>9. Leased(new) = Leased(old)
  <2>1. old.leases \in [1 .. Protocol.maximumAttempts -> Int \cup {Nil, "spent"}]
    BY <1>5 DEF JobRecords
  <2>2. Nil # "spent" BY PlanAssumption
  <2>. QED BY <1>8, <2>1, <2>2 DEF Leased
<1>10. GoOn(j, outcome) BY DEF Outcome
<1>. QED BY <1>2, <1>6, <1>8, <1>9, <1>10, GoOnTimed

LEMMA TakingTimed ==
  ASSUME Undisturbed, NEW j \in PlanJobs, TakeJob(j)
  PROVE  JobTimed(j)
<1>1. execution.work[j].at = "queued" /\ UNCHANGED inputVars BY DEF TakeJob, Stage
<1>2. time < execution.deadline BY <1>1, TimeIsLeft DEF Undisturbed
<1>3. /\ record \in [PlanJobs -> JobRecords] /\ time \in Nat /\ execution.deadline \in Int
      /\ record[j] \in JobRecords
  BY UndisturbedJob DEF ExecutionsOf
<1>4. ~Late BY <1>2, <1>3 DEF Late
<1>5. PICK old : old = record[j] OBVIOUS
<1>6. \/ \E stage \in {"settled", "attempt"} : Moves(j, stage)
      \/ Records(j, [old EXCEPT !.intent = TRUE], "attempt")
  BY <1>4, <1>5 DEF TakeJob, Undisturbed
<1>7. CASE \E stage \in {"settled", "attempt"} : Moves(j, stage)
  <2>1. PICK stage \in {"settled", "attempt"} : Moves(j, stage) BY <1>7
  <2>2. Records(j, old, stage) BY <1>3, <1>5, <2>1 DEF Moves, Records
  <2>. QED BY <1>1, <1>5, <2>2, RecordsTimed
<1>8. CASE Records(j, [old EXCEPT !.intent = TRUE], "attempt")
  <2>1. [old EXCEPT !.intent = TRUE].leases = old.leases BY <1>3, <1>5 DEF JobRecords
  <2>. QED BY <1>1, <1>5, <1>8, <2>1, RecordsTimed
<1>. QED BY <1>6, <1>7, <1>8

LEMMA BeginningTimed ==
  ASSUME Undisturbed, NEW j \in PlanJobs, BeginAttempt(j)
  PROVE  JobTimed(j)
<1>1. execution.work[j].at = "attempt" /\ UNCHANGED inputVars BY DEF BeginAttempt, Stage
<1>2. PICK old : old = record[j] OBVIOUS
<1>3. PICK e : e = execution OBVIOUS
<1>4. /\ old \in JobRecords /\ e \in ExecutionsOf(PlanJobs)
      /\ record \in [PlanJobs -> JobRecords] /\ JobInTime(e.work[j], old, SpentBy)
      /\ time <= SpentBy /\ time \in Nat /\ LeaseCount \in Nat /\ SpentBy \in Int
      /\ Protocol.maximumAttempts \in Nat /\ Protocol.attemptTimeout \in Nat
  BY <1>2, <1>3, UndisturbedJob
<1>5. PICK n \in 1 .. Protocol.maximumAttempts : n = e.work[j].n
  BY <1>4 DEF ExecutionsOf, Works
<1>6. old.leases[n] = Nil BY <1>1, <1>3, <1>4, <1>5 DEF JobInTime
<1>7. PICK lease : lease = Least(e.deadline, time + Protocol.attemptTimeout) OBVIOUS
<1>8. PICK new : new = [old EXCEPT !.leases[n] = lease] OBVIOUS
<1>9. \/ GoOn(j, record[j].outcomes[n]) /\ record' = record
      \/ \E outcome \in {"unsent", "final"} : Outcome(j, outcome)
      \/ Records(j, new, "leased")
  BY <1>2, <1>3, <1>5, <1>6, <1>7, <1>8 DEF BeginAttempt
<1>10. CASE GoOn(j, record[j].outcomes[n]) /\ record' = record
  BY <1>1, <1>2, <1>4, <1>10, GoOnTimed
<1>11. CASE \E outcome \in {"unsent", "final"} : Outcome(j, outcome)
  BY <1>1, <1>11, OutcomeTimed
<1>12. CASE Records(j, new, "leased")
  <2>1. lease \in Int /\ lease <= time + Protocol.attemptTimeout
    BY <1>4, <1>7 DEF Least, ExecutionsOf
  <2>2. /\ execution' = [e EXCEPT !.work[j].at = "leased"]
        /\ record' = [record EXCEPT ![j] = new]
    BY <1>3, <1>12 DEF Records
  <2>3. /\ execution'.deadline = e.deadline /\ execution'.at = e.at
        /\ execution'.work[j].at = "leased" /\ execution'.work[j].n = n
        /\ \A k \in PlanJobs \ {j} : execution'.work[k] = e.work[k]
    BY <1>4, <1>5, <2>2 DEF ExecutionsOf, Works
  <2>4. record'[j] = new /\ \A k \in PlanJobs \ {j} : record'[k] = record[k]
    BY <1>4, <2>2
  <2>5. Cardinality(Leased(new)) = Cardinality(Leased(old)) + 1
    BY <1>4, <1>6, <1>8, <2>1, LeaseAdded
  <2>6. LeaseCount' = LeaseCount + 1
    <3>1. PICK f : f = [k \in PlanJobs |-> Cardinality(Leased(record[k]))] OBVIOUS
    <3>2. PICK g : g = [k \in PlanJobs |-> Cardinality(Leased(record'[k]))] OBVIOUS
    <3>3. f \in [PlanJobs -> Nat] BY <3>1, LeasesTotal DEF Undisturbed
    <3>4. g[j] = f[j] + 1 /\ \A k \in PlanJobs \ {j} : g[k] = f[k]
      BY <1>2, <2>4, <2>5, <3>1, <3>2
    <3>5. g \in [PlanJobs -> Nat] BY <3>2, <3>3, <3>4
    <3>6. IsFiniteSet(PlanJobs) BY JobsCounted DEF Undisturbed
    <3>7. SumFunction(g) = SumFunction(f) + 1 BY <3>3, <3>4, <3>5, <3>6, SumAdded
    <3>8. PlanJobs' = PlanJobs BY <1>1 DEF inputVars, PlanJobs
    <3>9. LeaseCount' = SumFunction([k \in PlanJobs |-> Cardinality(Leased(record'[k]))])
      BY <3>8 DEF LeaseCount, Leased
    <3>. QED BY <3>1, <3>2, <3>7, <3>9 DEF LeaseCount
  <2>7. SpentBy' = SpentBy + Protocol.attemptTimeout
    BY <1>1, <1>3, <1>4, <2>3, <2>6, SpentGrows
  <2>8. new.leases = [old.leases EXCEPT ![n] = lease] BY <1>4, <1>8 DEF JobRecords
  <2>9. /\ new.leases[n] = lease
        /\ \A m \in 1 .. Protocol.maximumAttempts : m > n => new.leases[m] = Nil
    BY <1>4, <1>5, <2>8 DEF JobInTime, JobRecords
  <2>10. JobInTime(execution'.work[j], record'[j], SpentBy')
    BY <1>4, <2>1, <2>3, <2>4, <2>7, <2>9 DEF JobInTime
  <2>. QED BY <1>3, <1>4, <2>3, <2>4, <2>6, <2>10 DEF JobTimed
<1>. QED BY <1>9, <1>10, <1>11, <1>12

LEMMA CallTimed ==
  ASSUME Undisturbed, NEW j \in PlanJobs, Contact(j) \/ Settle(j) \/ AcceptTrace(j)
  PROVE  JobTimed(j)
<1>1. UNCHANGED inputVars BY DEF Contact, Settle, AcceptTrace
<1>2. PICK old : old = record[j] OBVIOUS
<1>3. PICK e : e = execution OBVIOUS
<1>4. /\ old \in JobRecords /\ e \in ExecutionsOf(PlanJobs)
      /\ record \in [PlanJobs -> JobRecords] /\ JobInTime(e.work[j], old, SpentBy)
  BY <1>2, <1>3, UndisturbedJob
<1>5. \/ \E outcome \in {"unsent", "final"} : Outcome(j, outcome)
      \/ execution' = [e EXCEPT !.work[j].at = "pending", !.cancelled = TRUE]
      \/ /\ e.work[j].at = "leased" /\ record' = record
         /\ execution' = [e EXCEPT !.work[j].at = "sending", !.calls = @ + 1]
      \/ Records(j, [old EXCEPT !.accepted = TRUE], "settled")
  BY <1>2, <1>3 DEF Contact, Settle, AcceptTrace, Stage
<1>6. CASE \E outcome \in {"unsent", "final"} : Outcome(j, outcome)
  BY <1>1, <1>6, OutcomeTimed
<1>7. CASE execution' = [e EXCEPT !.work[j].at = "pending", !.cancelled = TRUE]
  BY <1>4, <1>7 DEF JobTimed, ExecutionsOf
<1>8. CASE /\ e.work[j].at = "leased" /\ record' = record
           /\ execution' = [e EXCEPT !.work[j].at = "sending", !.calls = @ + 1]
  <2>1. PICK calls : calls = e.calls + 1 OBVIOUS
  <2>2. execution' = [e EXCEPT !.work[j].at = "sending", !.calls = calls] BY <1>8, <2>1
  <2>3. /\ execution'.work[j].at = "sending" /\ execution'.work[j].n = e.work[j].n
        /\ execution'.deadline = e.deadline /\ execution'.at = e.at
        /\ \A k \in PlanJobs \ {j} : execution'.work[k] = e.work[k]
    BY <1>4, <2>2 DEF ExecutionsOf, Works
  <2>4. JobInTime(execution'.work[j], old, SpentBy) BY <1>4, <1>8, <2>3 DEF JobInTime
  <2>. QED BY <1>1, <1>2, <1>3, <1>8, <2>3, <2>4, NoLeaseTimed
<1>9. CASE Records(j, [old EXCEPT !.accepted = TRUE], "settled")
  <2>1. [old EXCEPT !.accepted = TRUE].leases = old.leases BY <1>4 DEF JobRecords
  <2>. QED BY <1>1, <1>2, <1>9, <2>1, RecordsTimed
<1>. QED BY <1>5, <1>6, <1>7, <1>8, <1>9

\* An execution that was cancelled stays so.
LEMMA CancelledStays ==
  ASSUME PlanInv, plan # Nil, execution # Nil, execution.cancelled, NEW j \in PlanJobs,
         TakeJob(j) \/ BeginAttempt(j) \/ Contact(j) \/ Settle(j) \/ AcceptTrace(j)
  PROVE  execution'.cancelled
<1>1. PICK e : e = execution OBVIOUS
<1>2. e \in ExecutionsOf(PlanJobs) /\ e.cancelled BY <1>1 DEF PlanInv, ExecutionSound
<1>3. ASSUME NEW stage, execution' = [e EXCEPT !.work[j].at = stage]
      PROVE  execution'.cancelled
  BY <1>2, <1>3 DEF ExecutionsOf
<1>4. ASSUME NEW outcome, GoOn(j, outcome) PROVE execution'.cancelled
  <2>1. PICK w : execution' = [e EXCEPT !.work[j] = w] BY <1>1, <1>4 DEF GoOn
  <2>. QED BY <1>2, <2>1 DEF ExecutionsOf
<1>5. ASSUME LeavesPending(j) PROVE execution'.cancelled
  <2>1. PICK w : execution' = [e EXCEPT !.work = w] BY <1>1, <1>5 DEF LeavesPending
  <2>. QED BY <1>2, <2>1 DEF ExecutionsOf
<1>6. CASE TakeJob(j) BY <1>1, <1>3, <1>5, <1>6 DEF TakeJob, Moves, Records
<1>7. CASE BeginAttempt(j)
  <2>1. \/ \E outcome : GoOn(j, outcome)
        \/ LeavesPending(j)
        \/ \E changed : Records(j, changed, "leased")
    BY <1>7 DEF BeginAttempt, Outcome
  <2>. QED BY <1>1, <1>3, <1>4, <1>5, <2>1 DEF Records
<1>8. CASE Contact(j) \/ Settle(j)
  <2>1. \E outcome : GoOn(j, outcome)
    BY <1>1, <1>2, <1>8 DEF Contact, Settle, Outcome
  <2>. QED BY <1>4, <2>1
<1>9. CASE AcceptTrace(j)
  <2>1. CASE execution' = [e EXCEPT !.work[j].at = "pending", !.cancelled = TRUE]
    BY <1>2, <2>1 DEF ExecutionsOf
  <2>2. CASE ~(execution' = [e EXCEPT !.work[j].at = "pending", !.cancelled = TRUE])
    BY <1>1, <1>3, <1>9, <2>2 DEF AcceptTrace, Records
  <2>. QED BY <2>1, <2>2
<1>. QED BY <1>6, <1>7, <1>8, <1>9

LEMMA TimeJobs ==
  ASSUME PlanInv, WorkInv, TimeInv, plan # Nil, NEW j \in PlanJobs,
         TakeJob(j) \/ BeginAttempt(j) \/ Contact(j) \/ Settle(j) \/ AcceptTrace(j)
  PROVE  TimeInv'
<1>1. /\ execution # Nil /\ UNCHANGED <<inputVars, time, granted, started, idled>>
  BY DEF TakeJob, BeginAttempt, Contact, Settle, AcceptTrace, Stage
<1>2. JobStep(j) BY JobMoves
<1>3. CASE ~idled /\ ~execution.cancelled
  <2>1. Undisturbed BY <1>1, <1>3 DEF Undisturbed
  <2>2. JobTimed(j) BY <2>1, TakingTimed, BeginningTimed, CallTimed
  <2>. QED BY <1>1, <1>2, <2>1, <2>2, JobTimedKeeps
<1>4. CASE idled BY <1>1, <1>4 DEF TimeInv
<1>5. CASE ~idled /\ execution.cancelled
  <2>1. execution'.cancelled BY <1>1, <1>5, CancelledStays
  <2>2. execution' # Nil
    <3>1. execution' \in ExecutionsOf(PlanJobs) BY <1>2 DEF JobStep
    <3>. QED BY <3>1, ExecutionIsSomething
  <2>. QED BY <1>1, <1>5, <2>1, <2>2 DEF TimeInv
<1>. QED BY <1>3, <1>4, <1>5

LEMMA TimeBuilds ==
  ASSUME PlanInv, TimeInv, NEW draft \in Drafts, BuildPlan(draft)
  PROVE  TimeInv'
<1>1. /\ execution' = Nil /\ granted' = Nil /\ started' = started
      /\ jobs' = JobList /\ record' = [j \in DOMAIN JobList |-> NoRecords]
  BY DEF BuildPlan, PlanInv, PlanSound
<1>2. \A j \in PlanJobs' : record'[j] = NoRecords BY <1>1 DEF PlanJobs
<1>3. NoRecords' = NoRecords BY DEF NoRecords
<1>. QED BY <1>1, <1>2, <1>3 DEF TimeInv

LEMMA TimeStarts ==
  ASSUME PlanInv, TimeInv, NEW live \in LiveTargets, StartExecution(live)
  PROVE  TimeInv'
<1>1. /\ plan # Nil /\ execution = Nil
      /\ started' = started + 1 /\ UNCHANGED <<inputVars, time, granted, record, idled>>
  BY DEF StartExecution
<1>2. started \in Nat BY DEF TimeInv
<1> SUFFICES ASSUME ~idled PROVE TimeInv'
  BY <1>1, <1>2 DEF TimeInv
<1>3. granted = Nil /\ \A j \in PlanJobs : record[j] = NoRecords BY <1>1 DEF TimeInv
<1>4. PICK w : w = [j \in PlanJobs |-> [at |-> "queued", n |-> 1]] OBVIOUS
<1>5. PICK wall \in Nat : wall = plan.budget.wallClock
  BY <1>1, PlanAssumption DEF PlanInv, PlanSound
<1>6. execution' = [at |-> "admission", deadline |-> time + wall, live |-> live,
                    calls |-> 0, cancelled |-> FALSE, work |-> w]
  BY <1>4, <1>5 DEF StartExecution
<1>7. time \in Nat BY DEF PlanInv, PlanSound
<1>8. w \in [PlanJobs -> Works] BY <1>4, PlanAssumption DEF Works, WorkStages
<1>9. execution' \in ExecutionsOf(PlanJobs) BY <1>6, <1>7, <1>8 DEF ExecutionsOf
<1>10. execution' # Nil BY <1>1, <1>9, ExecutionIsSomething
<1>11. PlanJobs' = PlanJobs BY <1>1 DEF inputVars, PlanJobs
<1>12. time <= SpentBy'
  <2>1. PICK a \in Nat : a = LeaseCount'
    <3>1. LeaseCount' = LeaseCount BY <1>1, <1>11, LeasesSame
    <3>. QED BY <1>1, <3>1, LeasesTotal
  <2>2. PICK timeout \in Nat : timeout = Protocol.attemptTimeout BY PlanAssumption
  <2>3. a * timeout \in Nat OBVIOUS
  <2>4. plan' = plan /\ execution'.deadline = time + wall BY <1>1, <1>6 DEF inputVars
  <2>5. SpentBy' = (time + wall) - wall + a * timeout
    BY <1>5, <2>1, <2>2, <2>4 DEF SpentBy
  <2>. QED BY <1>5, <1>7, <2>3, <2>5
<1>13. ASSUME NEW j \in PlanJobs
       PROVE  JobInTime(execution'.work[j], record'[j], SpentBy')
  <2>1. execution'.work[j].at = "queued" BY <1>4, <1>6
  <2>2. record'[j] = NoRecords BY <1>1, <1>3
  <2>. QED BY <2>1, <2>2 DEF JobInTime, NoRecords
<1>14. (\A j \in PlanJobs : JobInTime(execution.work[j], record[j], SpentBy))'
  BY <1>11, <1>13 DEF JobInTime
<1>. QED BY <1>1, <1>2, <1>3, <1>6, <1>10, <1>12, <1>14 DEF TimeInv

LEMMA TimeLives ==
  ASSUME PlanInv, WorkInv, TimeInv,
         Admission \/ CancelExecution \/ CrashExecution \/ ReturnResult \/ TimePasses
  PROVE  TimeInv'
<1>1. UNCHANGED <<inputVars, record, started>>
  BY DEF Admission, CancelExecution, CrashExecution, ReturnResult, TimePasses
<1>2. started' \in Nat BY <1>1 DEF TimeInv
<1>3. idled => idled'
  BY DEF Admission, CancelExecution, CrashExecution, ReturnResult, TimePasses
<1> SUFFICES ASSUME ~idled, ~idled' PROVE TimeInv'
  BY <1>2, <1>3 DEF TimeInv
<1>4. plan' = plan /\ PlanJobs' = PlanJobs BY <1>1 DEF inputVars, PlanJobs
<1>5. CASE execution = Nil
  <2>1. TimePasses
    BY <1>5 DEF Admission, CancelExecution, CrashExecution, ReturnResult
  <2>2. execution' = Nil /\ granted' = granted BY <1>5, <2>1 DEF TimePasses
  <2>. QED BY <1>1, <1>2, <1>4, <1>5, <2>2 DEF TimeInv, NoRecords
<1>6. CASE execution # Nil
  <2>1. /\ plan # Nil /\ started > 0 BY <1>6 DEF TimeInv, PlanInv, PlanSound
  <2>2. PICK e : e = execution OBVIOUS
  <2>3. e \in ExecutionsOf(PlanJobs) BY <1>6, <2>2 DEF PlanInv, ExecutionSound
  <2>4. \/ CancelExecution \/ Admission
        \/ /\ TimePasses
           /\ \E j \in PlanJobs : Stage(j, "sending") /\ time < LeaseOf(j)
    BY <2>1, <1>6 DEF CrashExecution, ReturnResult, TimePasses, WellSpent
  <2>5. CASE CancelExecution
    <3>1. execution' = [e EXCEPT !.cancelled = TRUE] BY <2>2, <2>5 DEF CancelExecution
    <3>2. execution' \in ExecutionsOf(PlanJobs) /\ execution'.cancelled
      BY <2>3, <3>1 DEF ExecutionsOf
    <3>3. execution' # Nil BY <2>1, <3>2, ExecutionIsSomething
    <3>. QED BY <1>1, <1>2, <2>1, <3>2, <3>3 DEF TimeInv
  <2>6. CASE Admission
    <3>1. CASE e.cancelled
      <4>1. execution' = [e EXCEPT !.at = "jobs"] BY <2>2, <2>6, <3>1 DEF Admission
      <4>2. execution' \in ExecutionsOf(PlanJobs) /\ execution'.cancelled
        BY <2>3, <3>1, <4>1 DEF ExecutionsOf
      <4>3. execution' # Nil BY <2>1, <4>2, ExecutionIsSomething
      <4>. QED BY <1>1, <1>2, <2>1, <4>2, <4>3 DEF TimeInv
    <3>2. CASE ~e.cancelled
      <4>1. granted = Nil BY <1>6, <2>2, <2>6, <3>2 DEF TimeInv, Admission
      <4>2. execution' = [e EXCEPT !.at = "jobs", !.deadline = e.deadline]
        BY <2>2, <2>6, <3>2, <4>1 DEF Admission
      <4>3. /\ execution' \in ExecutionsOf(PlanJobs) /\ execution'.at = "jobs"
            /\ execution'.deadline = e.deadline /\ execution'.work = e.work
        BY <2>3, <4>2 DEF ExecutionsOf
      <4>4. execution' # Nil BY <2>1, <4>3, ExecutionIsSomething
      <4>5. SpentBy' = SpentBy
        <5>1. LeaseCount' = LeaseCount BY <1>1, <1>4, LeasesSame
        <5>. QED BY <1>4, <2>2, <4>3, <5>1 DEF SpentBy
      <4>6. time' = time BY <2>6 DEF Admission
      <4>7. /\ time <= SpentBy
            /\ \A j \in PlanJobs : JobInTime(e.work[j], record[j], SpentBy)
        BY <1>6, <2>2, <3>2 DEF TimeInv
      <4>8. (\A j \in PlanJobs : JobInTime(execution.work[j], record[j], SpentBy))'
        BY <1>1, <1>4, <4>3, <4>5, <4>7 DEF JobInTime
      <4>. QED BY <1>1, <1>2, <2>1, <4>3, <4>4, <4>5, <4>6, <4>7, <4>8 DEF TimeInv
    <3>. QED BY <3>1, <3>2
  <2>7. CASE /\ TimePasses
             /\ \E j \in PlanJobs : Stage(j, "sending") /\ time < LeaseOf(j)
    <3>1. PICK j \in PlanJobs : Stage(j, "sending") /\ time < LeaseOf(j) BY <2>7
    <3>2. /\ time' = time + 1 /\ UNCHANGED <<execution, granted>> BY <2>7 DEF TimePasses
    <3>3. SpentBy' = SpentBy
      <4>1. LeaseCount' = LeaseCount BY <1>1, <1>4, LeasesSame
      <4>. QED BY <1>4, <3>2, <4>1 DEF SpentBy
    <3>4. ASSUME ~execution.cancelled PROVE time' <= SpentBy'
      <4>1. Undisturbed BY <1>6, <2>1, <3>4 DEF Undisturbed
      <4>2. /\ LeaseOf(j) \in Int /\ LeaseOf(j) <= SpentBy /\ SpentBy \in Int /\ time \in Nat
        BY <3>1, <4>1, UndisturbedJob DEF JobInTime, Stage, LeaseOf
      <4>. QED BY <3>1, <3>2, <3>3, <4>2
    <3>5. ~execution.cancelled =>
              (\A k \in PlanJobs : JobInTime(execution.work[k], record[k], SpentBy))'
      BY <1>1, <1>4, <1>6, <3>2, <3>3 DEF TimeInv, JobInTime
    <3>. QED BY <1>1, <1>2, <1>6, <2>1, <3>2, <3>4, <3>5 DEF TimeInv
  <2>. QED BY <2>4, <2>5, <2>6, <2>7
<1>. QED BY <1>5, <1>6

LEMMA TimeStep == PlanInv /\ WorkInv /\ TimeInv /\ [PlanNext]_planVars => TimeInv'
<1> SUFFICES ASSUME PlanInv, WorkInv, TimeInv, [PlanNext]_planVars PROVE TimeInv'
  OBVIOUS
<1>1. ASSUME NEW d \in Drafts, BuildPlan(d) PROVE TimeInv' BY <1>1, TimeBuilds
<1>2. ASSUME NEW live \in LiveTargets, StartExecution(live) PROVE TimeInv'
  BY <1>2, TimeStarts
<1>3. CASE Admission \/ CancelExecution \/ CrashExecution \/ ReturnResult \/ TimePasses
  BY <1>3, TimeLives
<1>4. ASSUME plan # Nil, NEW j \in PlanJobs,
             TakeJob(j) \/ BeginAttempt(j) \/ Contact(j) \/ Settle(j) \/ AcceptTrace(j)
      PROVE  TimeInv'
  BY <1>4, TimeJobs
<1>5. CASE UNCHANGED planVars
  <2>1. UNCHANGED <<inputVars, record, time, granted, started, execution, idled>>
    BY <1>5 DEF planVars, inputVars
  <2>2. plan' = plan /\ PlanJobs' = PlanJobs BY <2>1 DEF inputVars, PlanJobs
  <2>3. SpentBy' = SpentBy
    <3>1. LeaseCount' = LeaseCount BY <2>1, <2>2, LeasesSame
    <3>. QED BY <2>1, <2>2, <3>1 DEF SpentBy
  <2>. QED BY <2>1, <2>2, <2>3 DEF TimeInv, JobInTime, NoRecords
<1>. QED BY <1>1, <1>2, <1>3, <1>4, <1>5 DEF PlanNext

LEMMA TimeInvariant == PlanSpec => []TimeInv
<1>1. PlanInit => TimeInv BY DEF PlanInit, TimeInv
<1>. QED BY <1>1, TimeStep, PlanInvariant, WorkInvariant, PTL DEF PlanSpec

\* The wall-clock budget that the preflight demands is enough for every attempt of
\* every job, whatever is retried and however the attempts overlap: while nothing
\* interrupts the run and no time is idle, each attempt that is yet to begin has its
\* whole timeout left, and no job is left pending (assertPlanAndWorkloadPreflight
\* against the deadlines of processJob).
THEOREM WorkKeepsItsTime == PlanSpec => []WorkFitsItsTime
<1>1. ASSUME PlanInv, WorkInv, TimeInv PROVE WorkFitsItsTime
  <2> SUFFICES ASSUME execution # Nil, ~execution.cancelled, ~idled, NEW j \in PlanJobs
               PROVE  /\ execution.work[j].at # "pending"
                      /\ execution.work[j].at \in {"queued", "attempt"}
                             => time + Protocol.attemptTimeout <= execution.deadline
    BY DEF WorkFitsItsTime
  <2>1. plan # Nil BY <1>1 DEF PlanInv, PlanSound
  <2>2. Undisturbed BY <1>1, <2>1 DEF Undisturbed
  <2>3. execution.work[j].at # "pending" BY <2>2, UndisturbedJob DEF JobInTime
  <2>. QED BY <1>1, <2>1, <2>3, TimeIsLeft
<1>. QED BY <1>1, PlanInvariant, WorkInvariant, TimeInvariant, PTL

=============================================================================
