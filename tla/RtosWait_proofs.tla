--------------------------- MODULE RtosWait_proofs ---------------------------
(***************************************************************************)
(* Proofs about waiting and waking, for any number of tasks, priorities    *)
(* and length, any timeouts and any width of the tick count.               *)
(***************************************************************************)
EXTENDS RtosQueue_proofs, FiniteSetTheorems, WellFoundedInduction

-----------------------------------------------------------------------------
(* The inductive invariant.                                                *)

\* A task there has suspended the scheduler; there it has locked the queue.
Holding == {"lock", "timeout", "empty", "place", "unlock", "resume"}
Locking == {"timeout", "empty", "place", "unlock"}

Asleep(t) == state[t] \in {"delayed", "overflow", "forever"}

\* The kernel's own state and the bounds.
KernelTypeOK ==
  /\ txLock \in 0 .. NumberOfTasks + 1
  /\ prio \in [Task -> Priorities]
  /\ cur \in Task \cup {Idle}
  /\ tick \in Tick /\ nextUnblock \in Tick /\ overflows \in Nat
  /\ suspended \in BOOLEAN /\ yieldPending \in BOOLEAN /\ pendSV \in BOOLEAN
  /\ pendReady \subseteq Task
  /\ interrupts \in 0 .. MaxTicks /\ pendedTicks \in 0 .. interrupts

\* The tasks' states and the locals of their calls.
CallTypeOK ==
  /\ state \in [Task -> {"ready", "delayed", "overflow", "forever", "away"}]
  /\ wake \in [Task -> Tick]
  /\ pc \in [Task -> {"idle", "check", "suspend", "lock", "timeout", "empty",
                      "place", "unlock", "resume", "pended", "yield",
                      "expired"}]
  /\ why \in [Task -> {"retry", "placed", "expired"}]
  /\ ticks \in [Task -> Tick] /\ want \in [Task -> Tick]
  /\ entry \in [Task -> [at : Tick, ovf : Nat, set : BOOLEAN]]
  /\ age \in [Task -> 0 .. interrupts]

\* Only the running task holds the scheduler or makes up for pended ticks.
HoldInv ==
  /\ \A t \in Task : pc[t] \in Holding \cup {"pended"} => cur = t
  /\ suspended <=> cur \in Task /\ pc[cur] \in Holding
  /\ txLock > 0 <=> cur \in Task /\ pc[cur] \in Locking
  /\ pendReady # {} => suspended
  /\ pendedTicks > 0 => suspended \/ Masked
  /\ Masked => pendedTicks > 0

\* Where a task is when it sleeps, and how a running task may not be ready.
SleepInv ==
  \A t \in Task :
    /\ pc[t] = "idle" => ~Asleep(t)
    /\ state[t] = "away" => pc[t] = "idle"
    /\ why[t] # "retry" => pc[t] \in {"place", "unlock", "resume", "pended"}
    /\ pc[t] = "place" => why[t] = "placed"
    /\ Asleep(t) =>
         \/ pc[t] \in {"check", "yield"}
         \/ pc[t] \in {"unlock", "resume", "pended"} /\ why[t] = "placed"
    /\ cur = t /\ state[t] # "ready" =>
         \/ pc[t] \in {"idle", "check"} /\ pendSV
         \/ pc[t] \in {"unlock", "resume", "pended", "yield"}

\* The waiting list, and the tasks taken out of it that are not ready yet.
ListInv ==
  /\ waiting \in Seq(Task)
  /\ \A i, j \in DOMAIN waiting : waiting[i] = waiting[j] => i = j
  /\ \A i \in DOMAIN waiting : Asleep(waiting[i])
       /\ waiting[i] \notin pendReady
  /\ \A t \in pendReady : state[t] # "ready"

\* Nothing is posted unnoticed between the look at the locked queue and the
\* entry in the list.
PostInv ==
  /\ \A t \in Task :
       pc[t] = "place" => count < txLock \/ txLock > NumberOfTasks
  /\ NoLostWakeup

\* If a ready task outranks the running one, a switch is to come.
RankInv ==
  \/ pendSV
  \/ cur \in Task /\ pc[cur] = "yield"
  \/ yieldPending /\ (suspended \/ Masked)
  \/ \A t \in Task : state[t] = "ready" => prio[t] <= PrioOf(cur)

\* The time since FirstTick's epoch that the tick count and its overflows
\* stand for; the time of the last xTimeOut of a task.
Clock == overflows * TickMod + tick
Begun(t) == entry[t].ovf * TickMod + entry[t].at

\* Where a task that has set its xTimeOut is on its way to sleep.
Setting == {"suspend", "lock", "timeout", "empty", "place"}

\* What is left of a task's timeout.
LeftOf(t) ==
  /\ ticks[t] <= want[t]
  /\ pc[t] # "idle" => (ticks[t] = MaxDelay <=> want[t] = MaxDelay)
  /\ pc[t] \in Setting => ticks[t] # 0 /\ entry[t].set
  /\ pc[t] = "expired" \/ why[t] = "expired" => ticks[t] = 0
  /\ pc[t] = "idle" => want[t] = 0 /\ ~entry[t].set
  /\ pc[t] # "idle" /\ ticks[t] = 0 =>
       want[t] # MaxDelay /\ age[t] >= want[t] /\ ~Asleep(t)
  /\ ~entry[t].set => age[t] = 0 /\ ticks[t] = want[t] /\ ~Asleep(t)
  /\ state[t] \in {"delayed", "overflow"} => want[t] # MaxDelay

LeftInv == \A t \in Task : LeftOf(t)

\* How the clock, the age of a wait and what is left of it go together.
ClockOf(t) ==
  entry[t].set /\ want[t] # MaxDelay /\ ticks[t] # 0 =>
    /\ Begun(t) <= Clock
    /\ age[t] + Begun(t) >= Clock + pendedTicks + want[t] - ticks[t]

ClockInv == \A t \in Task : ClockOf(t)

\* The same, exactly, and the wake times, when the tick count does not come
\* all the way round.
ExactOf(t) ==
  entry[t].set /\ want[t] # MaxDelay /\ ticks[t] # 0 =>
    /\ Begun(t) >= FirstTick
    /\ age[t] + Begun(t) = Clock + pendedTicks + want[t] - ticks[t]
    /\ pc[t] \in {"empty", "place"} => Begun(t) = Clock
    /\ state[t] = "delayed" =>
         overflows * TickMod + wake[t] = Begun(t) + ticks[t]
    /\ state[t] = "overflow" =>
         overflows * TickMod + TickMod + wake[t] = Begun(t) + ticks[t]

ExactInv ==
  /\ Clock + pendedTicks = FirstTick + interrupts
  /\ \A t \in Task : ExactOf(t)

IInv ==
  /\ QInv /\ KernelTypeOK /\ CallTypeOK
  /\ HoldInv /\ SleepInv /\ ListInv /\ PostInv /\ RankInv
  /\ DelayedAreAhead /\ LeftInv /\ ClockInv

-----------------------------------------------------------------------------
(* The kernel's lists.                                                     *)

\* Every set of natural numbers has a least element.
LEMMA LeastExists ==
  ASSUME NEW S \in SUBSET Nat, S # {}
  PROVE  \E x \in S : \A y \in S : x <= y
<1>1. PICK x \in S : \A y \in S : ~(<<y, x>> \in OpToRel(<, Nat))
  BY NatLessThanWellFounded, WFMin
<1>2. \A y \in S : ~(y < x)
  BY <1>1, Zenon DEF OpToRel
<1> QED BY <1>2

\* What prvResetNextTaskUnblockTime finds is no later than any wake time.
LEMMA EarliestIsLeast ==
  ASSUME CallTypeOK, NEW s
  PROVE  /\ Earliest(s) \in Tick
         /\ \A t \in Task : s[t] = "delayed" => Earliest(s) <= wake[t]
<1> DEFINE times == {wake[t] : t \in {u \in Task : s[u] = "delayed"}}
<1>1. times \subseteq Tick /\ Tick \subseteq Nat /\ MaxDelay \in Tick
  BY QueueAssumption DEF CallTypeOK, Tick, MaxDelay
<1>2. Earliest(s) = IF times = {} THEN MaxDelay
                    ELSE CHOOSE x \in times : \A y \in times : x <= y
  BY DEF Earliest
<1>3. ASSUME times # {}
      PROVE  Earliest(s) \in times /\ \A y \in times : Earliest(s) <= y
  <2>1. \E x \in times : \A y \in times : x <= y
    BY <1>1, <1>3, LeastExists
  <2> HIDE DEF times
  <2> QED BY <1>2, <1>3, <2>1
<1>4. \A t \in Task : s[t] = "delayed" => wake[t] \in times
  OBVIOUS
<1> HIDE DEF times
<1> QED BY <1>1, <1>2, <1>3, <1>4

\* The list from which some tasks have been taken.
LEMMA WithoutShape ==
  ASSUME ListInv, NEW S, NEW w \in Without(S)
  PROVE  /\ w \in Seq(Task)
         /\ \A i, j \in DOMAIN w : w[i] = w[j] => i = j
         /\ \A i \in DOMAIN w :
              w[i] \notin S /\ \E j \in DOMAIN waiting : w[i] = waiting[j]
<1> DEFINE stay == {i \in DOMAIN waiting : waiting[i] \notin S}
           n == Cardinality(stay)
<1>1. waiting \in Seq(Task) /\ DOMAIN waiting = 1 .. Len(waiting)
      /\ Len(waiting) \in Nat
  BY DEF ListInv
<1>2. n \in Nat
  <2>1. stay \in SUBSET (1 .. Len(waiting))
    BY <1>1
  <2>2. IsFiniteSet(1 .. Len(waiting))
    BY <1>1, FS_Interval
  <2> HIDE DEF stay
  <2> QED BY <2>1, <2>2, FS_Subset, FS_CardinalityType
<1>3. PICK f \in [1 .. n -> stay] :
        /\ \A j, k \in 1 .. n : j < k => f[j] < f[k]
        /\ w = [k \in 1 .. n |-> waiting[f[k]]]
  BY DEF Without
<1>4. \A k \in 1 .. n :
        f[k] \in DOMAIN waiting /\ f[k] \in Nat /\ waiting[f[k]] \notin S
        /\ waiting[f[k]] \in Task
  BY <1>1, <1>3
<1> HIDE DEF stay, n
<1>5. w \in Seq(Task) /\ DOMAIN w = 1 .. n
        /\ \A k \in 1 .. n : w[k] = waiting[f[k]]
  BY <1>2, <1>3, <1>4, IsASeq
<1>6. ASSUME NEW i \in 1 .. n, NEW j \in 1 .. n, w[i] = w[j] PROVE i = j
  <2>1. f[i] = f[j]
    BY <1>4, <1>5, <1>6 DEF ListInv
  <2>2. ~(f[i] < f[j]) /\ ~(f[j] < f[i])
    BY <1>4, <2>1
  <2> QED BY <1>2, <1>3, <2>2
<1> QED BY <1>4, <1>5, <1>6

\* The first n waiting tasks, and the rest of the list.
LEMMA FirstShape ==
  ASSUME ListInv, NEW n \in 0 .. Len(waiting), RemoveFromEventList(n)
  PROVE  /\ First(n) \subseteq Waiters /\ First(n) \subseteq Task
         /\ IsFiniteSet(First(n)) /\ Cardinality(First(n)) = n
         /\ waiting' \in Seq(Task)
         /\ \A i, j \in DOMAIN waiting' : waiting'[i] = waiting'[j] => i = j
         /\ Waiters' \subseteq Waiters \ First(n)
         /\ Len(waiting') = Len(waiting) - n
<1>1. waiting \in Seq(Task) /\ DOMAIN waiting = 1 .. Len(waiting)
      /\ Len(waiting) \in Nat
      /\ \A i \in 1 .. Len(waiting) : waiting[i] \in Task
  BY DEF ListInv
<1>2. waiting' = SubSeq(waiting, n + 1, Len(waiting))
  BY DEF RemoveFromEventList
<1>3. /\ waiting' \in Seq(Task) /\ Len(waiting') = Len(waiting) - n
      /\ \A i \in 1 .. Len(waiting) - n : waiting'[i] = waiting[n + i]
  <2> DEFINE k == Len(waiting)
             w == SubSeq(waiting, n + 1, k)
  <2>1. k \in Nat /\ n \in 0 .. k /\ \A i \in n + 1 .. k : waiting[i] \in Task
    BY <1>1
  <2>2. w = waiting'
    BY <1>2
  <2> HIDE DEF k
  <2>3. /\ w \in Seq(Task) /\ Len(w) = k - n
        /\ \A i \in 1 .. k - n : w[i] = waiting[n + i]
    BY <2>1, SubSeqProperties
  <2> QED BY <2>2, <2>3 DEF k
<1>4. DOMAIN waiting' = 1 .. Len(waiting) - n
  BY <1>1, <1>3
<1>5. ASSUME NEW i \in DOMAIN waiting', NEW j \in DOMAIN waiting',
             waiting'[i] = waiting'[j]
      PROVE  i = j
  <2>1. n + i \in DOMAIN waiting /\ n + j \in DOMAIN waiting
        /\ waiting[n + i] = waiting[n + j]
    BY <1>1, <1>3, <1>4, <1>5
  <2>2. n + i = n + j
    BY <2>1 DEF ListInv
  <2> QED BY <1>1, <1>4, <2>2
<1>6. Waiters' \subseteq Waiters \ First(n)
  <2> SUFFICES ASSUME NEW i \in 1 .. Len(waiting) - n
               PROVE  waiting'[i] \in Waiters \ First(n)
    BY <1>4 DEF Waiters
  <2>1. n + i \in DOMAIN waiting /\ waiting'[i] = waiting[n + i]
    BY <1>1, <1>3
  <2>2. \A j \in 1 .. n : j \in DOMAIN waiting /\ j # n + i
    BY <1>1
  <2> QED BY <2>1, <2>2 DEF Waiters, First, ListInv
<1>7. First(n) \subseteq Waiters /\ First(n) \subseteq Task
  BY <1>1 DEF First, Waiters
<1>8. IsFiniteSet(First(n)) /\ Cardinality(First(n)) = n
  <2> DEFINE f == [i \in 1 .. n |-> waiting[i]]
  <2>1. f \in Surjection(1 .. n, First(n))
    BY DEF Surjection, First
  <2>2. f \in Injection(1 .. n, First(n))
    BY <1>1, <2>1 DEF Surjection, Injection, IsInjective, ListInv
  <2>3. ExistsBijection(1 .. n, First(n))
    BY <2>1, <2>2 DEF Bijection, ExistsBijection
  <2>4. IsFiniteSet(1 .. n) /\ Cardinality(1 .. n) = n
    BY <1>1, FS_Interval
  <2> QED BY <2>3, <2>4, FS_Bijection
<1> QED BY <1>3, <1>5, <1>6, <1>7, <1>8

\* The places of those that go before t.
Over(t) == {i \in DOMAIN waiting : prio[waiting[i]] >= prio[t]}

\* The list with one more task, place by place.
LEMMA InsertAt ==
  ASSUME ListInv, NEW t \in Task
  PROVE  /\ Cardinality(Over(t)) \in 0 .. Len(waiting)
         /\ InsertWaiting(t) \in Seq(Task)
         /\ Len(InsertWaiting(t)) = Len(waiting) + 1
         /\ \A i \in 1 .. Len(waiting) + 1 :
              InsertWaiting(t)[i] =
                IF i <= Cardinality(Over(t)) THEN waiting[i]
                ELSE IF i = Cardinality(Over(t)) + 1 THEN t
                     ELSE waiting[i - 1]
<1> DEFINE n == Cardinality(Over(t))
           m == Len(waiting)
           a == SubSeq(waiting, 1, n)
           b == SubSeq(waiting, n + 1, m)
           w == a \o <<t>> \o b
<1>1. waiting \in Seq(Task) /\ DOMAIN waiting = 1 .. m /\ m \in Nat
      /\ \A i \in 1 .. m : waiting[i] \in Task
  BY DEF ListInv
<1> HIDE DEF m
<1>2. n \in 0 .. m
  <2>1. Over(t) \in SUBSET (1 .. m)
    BY <1>1 DEF Over
  <2>2. IsFiniteSet(1 .. m) /\ Cardinality(1 .. m) = m
    BY <1>1, FS_Interval
  <2>3. Cardinality(Over(t)) \in Nat /\ Cardinality(Over(t)) <= m
    BY <2>1, <2>2, FS_Subset, FS_CardinalityType
  <2> QED BY <1>1, <2>3
<1>3. InsertWaiting(t) = w
  BY DEF InsertWaiting, Over, m
<1> HIDE DEF n
<1>4. /\ a \in Seq(Task) /\ Len(a) = n /\ \A i \in 1 .. n : a[i] = waiting[i]
      /\ b \in Seq(Task) /\ Len(b) = m - n
      /\ \A i \in 1 .. m - n : b[i] = waiting[n + i]
  <2>1. \A i \in 1 .. n : waiting[i] \in Task
    BY <1>1, <1>2
  <2>2. \A i \in n + 1 .. m : waiting[i] \in Task
    BY <1>1, <1>2
  <2>3. /\ a \in Seq(Task) /\ Len(a) = n
        /\ \A i \in 1 .. n : a[i] = waiting[i]
    BY <1>1, <1>2, <2>1, SubSeqProperties
  <2>4. /\ b \in Seq(Task) /\ Len(b) = m - n
        /\ \A i \in 1 .. m - n : b[i] = waiting[n + i]
    BY <1>1, <1>2, <2>2, SubSeqProperties
  <2> QED BY <2>3, <2>4
<1> HIDE DEF a, b
<1>5. /\ w \in Seq(Task) /\ Len(w) = m + 1
      /\ \A i \in 1 .. m + 1 :
           w[i] = IF i <= n THEN waiting[i]
                  ELSE IF i = n + 1 THEN t ELSE waiting[i - 1]
  <2> DEFINE c == a \o <<t>>
  <2>1. <<t>> \in Seq(Task) /\ Len(<<t>>) = 1 /\ <<t>>[1] = t
    OBVIOUS
  <2>2. /\ c \in Seq(Task) /\ Len(c) = n + 1 /\ c[n + 1] = t
        /\ \A i \in 1 .. n : c[i] = waiting[i]
    BY <1>1, <1>2, <1>4, <2>1, ConcatProperties
  <2>3. w = c \o b
    OBVIOUS
  <2> HIDE DEF c, w
  <2>4. /\ w \in Seq(Task) /\ Len(w) = (n + 1) + (m - n)
        /\ \A i \in 1 .. (n + 1) + (m - n) :
             w[i] = IF i <= n + 1 THEN c[i] ELSE b[i - (n + 1)]
    <3>1. /\ c \o b \in Seq(Task) /\ Len(c \o b) = Len(c) + Len(b)
          /\ \A i \in 1 .. Len(c) + Len(b) :
               (c \o b)[i] = IF i <= Len(c) THEN c[i] ELSE b[i - Len(c)]
      <4>1. c \in Seq(Task) /\ b \in Seq(Task)
        BY <1>4, <2>2
      <4> QED BY <4>1, ConcatProperties, Zenon
    <3> QED BY <1>4, <2>2, <2>3, <3>1
  <2>5. \A i \in 1 .. m + 1 : i > n + 1 =>
          i - (n + 1) \in 1 .. m - n /\ n + (i - (n + 1)) = i - 1
    BY <1>1, <1>2
  <2>6. w \in Seq(Task) /\ Len(w) = m + 1
    BY <1>1, <1>2, <2>4
  <2>7. ASSUME NEW i \in 1 .. m + 1
        PROVE  w[i] = IF i <= n THEN waiting[i]
                      ELSE IF i = n + 1 THEN t ELSE waiting[i - 1]
    <3>1. w[i] = IF i <= n + 1 THEN c[i] ELSE b[i - (n + 1)]
      BY <1>1, <1>2, <2>4
    <3>2. CASE i <= n
      BY <1>2, <2>2, <3>1, <3>2
    <3>3. CASE i = n + 1
      BY <1>2, <2>2, <3>1, <3>3
    <3>4. CASE i > n + 1
      <4>1. w[i] = b[i - (n + 1)]
        BY <1>2, <3>1, <3>4
      <4>2. b[i - (n + 1)] = waiting[n + (i - (n + 1))]
        BY <1>4, <2>5, <3>4
      <4> QED BY <1>2, <2>5, <3>4, <4>1, <4>2
    <3> QED BY <1>2, <3>2, <3>3, <3>4
  <2> QED BY <2>6, <2>7
<1> HIDE DEF w
<1>6. /\ n \in 0 .. m
      /\ InsertWaiting(t) \in Seq(Task) /\ Len(InsertWaiting(t)) = m + 1
      /\ \A i \in 1 .. m + 1 :
           InsertWaiting(t)[i] =
             IF i <= n THEN waiting[i]
             ELSE IF i = n + 1 THEN t ELSE waiting[i - 1]
  BY <1>2, <1>3, <1>5
<1> QED BY <1>6 DEF m, n

\* The list with one more task.
LEMMA InsertShape ==
  ASSUME ListInv, NEW t \in Task, t \notin Waiters
  PROVE  /\ InsertWaiting(t) \in Seq(Task)
         /\ \A i, j \in DOMAIN InsertWaiting(t) :
              InsertWaiting(t)[i] = InsertWaiting(t)[j] => i = j
         /\ \A i \in DOMAIN InsertWaiting(t) :
              InsertWaiting(t)[i] \in Waiters \cup {t}
<1> DEFINE n == Cardinality(Over(t))
           m == Len(waiting)
           w == InsertWaiting(t)
<1>1. waiting \in Seq(Task) /\ DOMAIN waiting = 1 .. m /\ m \in Nat
  BY DEF ListInv
<1>2. n \in 0 .. m
  BY InsertAt
<1>5. /\ w \in Seq(Task) /\ Len(w) = m + 1
      /\ \A i \in 1 .. m + 1 :
           w[i] = IF i <= n THEN waiting[i]
                  ELSE IF i = n + 1 THEN t ELSE waiting[i - 1]
  BY InsertAt
<1> HIDE DEF n, m
<1> HIDE DEF w
<1>6. DOMAIN w = 1 .. m + 1
  BY <1>1, <1>5
<1>7. ASSUME NEW i \in 1 .. m + 1
      PROVE  /\ i = n + 1 => w[i] = t
             /\ i <= n => i \in DOMAIN waiting /\ w[i] = waiting[i]
             /\ i > n + 1 => i - 1 \in DOMAIN waiting /\ w[i] = waiting[i - 1]
  BY <1>1, <1>2, <1>5
<1>8. ASSUME NEW i \in 1 .. m + 1, NEW j \in 1 .. m + 1, w[i] = w[j], i < j
      PROVE  FALSE
  <2>1. \A k \in DOMAIN waiting : waiting[k] # t
    BY DEF Waiters
  <2>2. \A k, l \in DOMAIN waiting : waiting[k] = waiting[l] => k = l
    BY DEF ListInv
  <2>3. CASE i = n + 1 \/ j = n + 1
    BY <1>2, <1>7, <1>8, <2>1, <2>3
  <2>4. CASE j < n + 1
    BY <1>2, <1>7, <1>8, <2>2, <2>4
  <2>5. CASE i > n + 1
    BY <1>2, <1>7, <1>8, <2>2, <2>5
  <2>6. CASE i < n + 1 /\ j > n + 1
    BY <1>2, <1>7, <1>8, <2>2, <2>6
  <2> QED BY <1>2, <2>3, <2>4, <2>5, <2>6
<1>9. ASSUME NEW i \in 1 .. m + 1
      PROVE  w[i] \in Waiters \cup {t}
  <2>1. i = n + 1 \/ i <= n \/ i > n + 1
    BY <1>1, <1>2
  <2>2. \A k \in DOMAIN waiting : waiting[k] \in Waiters
    BY Zenon DEF Waiters
  <2> QED BY <1>7, <2>1, <2>2
<1>10. ASSUME NEW i \in 1 .. m + 1, NEW j \in 1 .. m + 1, w[i] = w[j]
       PROVE  i = j
  <2>1. ~(i < j) /\ ~(j < i)
    BY <1>8, <1>10
  <2> QED BY <1>1, <2>1
<1>11. \A i, j \in DOMAIN w : w[i] = w[j] => i = j
  BY <1>6, <1>10
<1>12. w \in Seq(Task)
  BY <1>5
<1> QED BY <1>6, <1>9, <1>11, <1>12, Zenon DEF w

-----------------------------------------------------------------------------
(* What the operators that several actions share do.                       *)

\* The tasks in S are taken out of the waiting list and made ready, or
\* noted if the scheduler is suspended.
Roused(S) ==
  /\ S \subseteq Waiters
  /\ waiting' \in Seq(Task) /\ Waiters' \subseteq Waiters \ S
  /\ \A i, j \in DOMAIN waiting' : waiting'[i] = waiting'[j] => i = j
  /\ IF suspended
     THEN pendReady' = pendReady \cup S /\ state' = state
     ELSE /\ state' = [t \in Task |-> IF t \in S THEN "ready" ELSE state[t]]
          /\ pendReady' = pendReady
  /\ yieldPending' = (yieldPending \/ Outrank(S))

\* prvUnlockQueue and the posts take the first n out of the list.
LEMMA RemoveRouses ==
  ASSUME ListInv, NEW n \in 0 .. Len(waiting), RemoveFromEventList(n)
  PROVE  /\ Roused(First(n))
         /\ IsFiniteSet(First(n)) /\ Cardinality(First(n)) = n
BY FirstShape DEF RemoveFromEventList, Roused

\* A post takes at most one.
LEMMA WakeShape ==
  ASSUME ListInv, WakeReceiver
  PROVE  \E S \in SUBSET Task :
           /\ Roused(S) /\ pendSV' = (pendSV \/ Outrank(S))
           /\ waiting # <<>> => IsFiniteSet(S) /\ Cardinality(S) = 1
           /\ UNCHANGED <<wake, cur>>
<1>1. Len(waiting) \in Nat /\ (waiting # <<>> => 1 <= Len(waiting))
  BY DEF ListInv
<1>2. CASE waiting = <<>>
  <2>1. RemoveFromEventList(0) /\ 0 \in 0 .. Len(waiting)
    BY <1>1, <1>2 DEF WakeReceiver
  <2>2. First(0) = {} /\ ~Outrank(First(0))
    BY DEF First, Outrank
  <2>3. Roused(First(0))
    BY <2>1, RemoveRouses
  <2> QED BY <1>2, <2>2, <2>3 DEF WakeReceiver
<1>3. CASE waiting # <<>>
  <2>1. RemoveFromEventList(1) /\ 1 \in 0 .. Len(waiting)
    BY <1>1, <1>3 DEF WakeReceiver
  <2>2. First(1) \in SUBSET Task
    BY <2>1, FirstShape
  <2> QED BY <1>3, <2>1, <2>2, RemoveRouses DEF WakeReceiver
<1> QED BY <1>2, <1>3

\* What posting changes beside the storage.
Unheard == UNCHANGED <<txLock, taskVars, switchVars>>

Noted ==
  /\ count' = count + 1 /\ txLock > 0
  /\ txLock' = IF txLock <= NumberOfTasks THEN txLock + 1 ELSE txLock
  /\ UNCHANGED <<taskVars, switchVars>>

Heard(S) ==
  /\ count' = count + 1 /\ txLock = 0 /\ txLock' = 0
  /\ Roused(S) /\ pendSV' = (pendSV \/ Outrank(S))
  /\ waiting # <<>> => IsFiniteSet(S) /\ Cardinality(S) = 1
  /\ UNCHANGED <<wake, cur>>

\* Posting does one of the three.
LEMMA PostShape ==
  ASSUME ListInv, KernelTypeOK, HoldInv,
         PostFromHandler \/ \E t \in Task : Post(t) \/ TryPost(t)
  PROVE  /\ UNCHANGED <<timeVars, suspended, prio, callVars>>
         /\ \/ Unheard /\ count' = count
            \/ Noted
            \/ \E S \in SUBSET Task : Heard(S)
<1>1. UNCHANGED <<timeVars, suspended, prio, callVars>>
  BY DEF PostFromHandler, Post, TryPost
<1>2. CASE QueueFull
  BY <1>1, <1>2 DEF QueueFull, Unheard, queueVars
<1>3. CASE /\ CopyToQueue(Message) /\ WakeReceiver
           /\ txLock = 0 /\ UNCHANGED txLock
  BY <1>1, <1>3, WakeShape DEF CopyToQueue, Heard
<1>4. CASE /\ CopyToQueue(Message) /\ txLock # 0
           /\ txLock' = IF txLock - 1 < NumberOfTasks THEN txLock + 1
                ELSE txLock
           /\ UNCHANGED <<taskVars, switchVars>>
  <2>1. /\ txLock > 0
        /\ txLock' = IF txLock <= NumberOfTasks THEN txLock + 1 ELSE txLock
    BY <1>4, QueueAssumption DEF KernelTypeOK
  <2> QED BY <1>1, <1>4, <2>1 DEF CopyToQueue, Noted
<1>5. SendFromISR \/ (Send /\ \E t \in Task : Runs(t, "idle"))
  BY DEF PostFromHandler, Post, TryPost
<1>6. (\E t \in Task : Runs(t, "idle")) => txLock = 0
  BY QueueAssumption DEF Runs, HoldInv, Locking, KernelTypeOK
<1>7. QueueFull
        \/ /\ CopyToQueue(Message) /\ WakeReceiver
           /\ txLock = 0 /\ UNCHANGED txLock
        \/ /\ CopyToQueue(Message) /\ txLock # 0
           /\ txLock' = IF txLock - 1 < NumberOfTasks THEN txLock + 1
                ELSE txLock
           /\ UNCHANGED <<taskVars, switchVars>>
  BY <1>5, <1>6 DEF SendFromISR, Send
<1> QED BY <1>2, <1>3, <1>4, <1>7

\* A tick: the clock goes on by one, and the tasks whose time has come are
\* ready.
Ticks(switch) ==
  /\ IF tick = MaxDelay THEN tick' = 0 /\ overflows' = overflows + 1
     ELSE tick' = tick + 1 /\ overflows' = overflows
  /\ state' \in [Task -> {"ready", "delayed", "overflow", "forever", "away"}]
  /\ wake' \in [Task -> Tick] /\ nextUnblock' \in Tick
  /\ \A t \in Task :
       /\ state'[t] # state[t] => Asleep(t)
            /\ state'[t] \in {"ready", "delayed"}
       /\ state'[t] = "ready" /\ state[t] # "ready" =>
            prio[t] <= PrioOf(cur) \/ switch
       /\ state'[t] \in {"delayed", "overflow"} =>
            /\ wake'[t] = wake[t]
            /\ state'[t] = IF tick = MaxDelay THEN "delayed" ELSE state[t]
            /\ tick = MaxDelay => state[t] = "overflow"
       /\ state'[t] = "delayed" => wake'[t] > tick' /\ nextUnblock' <= wake'[t]
       /\ state'[t] = "overflow" => wake'[t] < tick'
  /\ yieldPending => switch
  /\ waiting' \in Seq(Task) /\ Waiters' \subseteq Waiters
  /\ \A i, j \in DOMAIN waiting' : waiting'[i] = waiting'[j] => i = j
  /\ \A t \in Waiters' : state'[t] \in {"delayed", "overflow", "forever"}

\* What xTaskIncrementTick comes to.
LEMMA TickShape ==
  ASSUME KernelTypeOK, CallTypeOK, ListInv, DelayedAreAhead,
         NEW switch \in BOOLEAN, IncrementTick(switch)
  PROVE  Ticks(switch)
<1> DEFINE now == (tick + 1) % TickMod
           lists == IF now = 0 THEN Swapped ELSE state
           next == IF now = 0 THEN Earliest(lists) ELSE nextUnblock
           due == IF now >= next
                  THEN {t \in Task : lists[t] = "delayed" /\ wake[t] <= now}
                  ELSE {}
           after == [t \in Task |-> IF t \in due THEN "ready" ELSE lists[t]]
<1> USE DEF KernelTypeOK
<1>1. /\ tick' = now
      /\ overflows' = IF now = 0 THEN overflows + 1 ELSE overflows
      /\ state' = after
      /\ wake' = [t \in Task |-> IF t \in due THEN 0 ELSE wake[t]]
      /\ nextUnblock' = IF now >= next THEN Earliest(after) ELSE next
      /\ waiting' \in Without(due)
      /\ Outrank(due) => switch
      /\ yieldPending => switch
  BY DEF IncrementTick
<1>2. IF tick = MaxDelay THEN now = 0 ELSE now = tick + 1
  BY QueueAssumption DEF Tick, MaxDelay
<1>3. /\ tick \in Nat /\ now \in Tick /\ nextUnblock \in Nat /\ 0 \in Tick
      /\ \A t \in Task : wake[t] \in Nat /\ wake[t] <= MaxDelay
  BY <1>2, QueueAssumption DEF Tick, MaxDelay, CallTypeOK
<1>4. \A t \in Task :
        /\ state[t] \in {"ready", "delayed", "overflow", "forever", "away"}
        /\ state[t] = "delayed" => wake[t] > tick /\ nextUnblock <= wake[t]
        /\ state[t] = "overflow" => wake[t] < tick
  BY DEF CallTypeOK, DelayedAreAhead
<1>5. \A t \in Task :
        lists[t] = IF now = 0 /\ state[t] = "overflow" THEN "delayed"
                   ELSE state[t]
  BY <1>2, <1>3, <1>4 DEF Swapped
<1>6. next \in Nat /\ \A t \in Task : lists[t] = "delayed" => next <= wake[t]
  BY <1>3, <1>4, EarliestIsLeast DEF Tick
<1>7. nextUnblock' \in Tick /\ next \in Tick
      /\ \A t \in Task : after[t] = "delayed" => nextUnblock' <= wake[t]
  BY <1>1, <1>6, EarliestIsLeast
<1> HIDE DEF now, next
<1>8. \A t \in Task :
        /\ t \in due => lists[t] = "delayed"
        /\ after[t] = "delayed" => wake[t] > now
  BY <1>3, <1>6
<1> HIDE DEF lists, due
<1>9. \A t \in Task :
        /\ state'[t] = IF t \in due THEN "ready" ELSE lists[t]
        /\ wake'[t] = IF t \in due THEN 0 ELSE wake[t]
  BY <1>1
<1>10. /\ state' \in [Task -> {"ready", "delayed", "overflow",
                               "forever", "away"}]
       /\ wake' \in [Task -> Tick]
  BY <1>1, <1>3, <1>4, <1>5 DEF CallTypeOK
<1>11. ASSUME NEW t \in due, t \in Task PROVE prio[t] <= PrioOf(cur) \/ switch
  <2>1. prio[t] \in Nat /\ PrioOf(cur) \in Nat
    BY <1>11, QueueAssumption DEF PrioOf
  <2> QED BY <1>1, <1>11, <2>1 DEF Outrank
<1>12. ASSUME NEW t \in Task
       PROVE
       /\ state'[t] # state[t] => Asleep(t)
            /\ state'[t] \in {"ready", "delayed"}
       /\ state'[t] = "ready" /\ state[t] # "ready" =>
            prio[t] <= PrioOf(cur) \/ switch
       /\ state'[t] \in {"delayed", "overflow"} =>
            /\ wake'[t] = wake[t]
            /\ state'[t] = IF tick = MaxDelay THEN "delayed" ELSE state[t]
            /\ tick = MaxDelay => state[t] = "overflow"
       /\ state'[t] = "delayed" => wake'[t] > tick' /\ nextUnblock' <= wake'[t]
       /\ state'[t] = "overflow" => wake'[t] < tick'
  <2>1. CASE t \in due
    BY <1>4, <1>5, <1>8, <1>9, <1>11, <2>1 DEF Asleep
  <2>2. CASE t \notin due
    <3>1. state'[t] = lists[t] /\ wake'[t] = wake[t]
      BY <1>9, <2>2
    <3>2. tick = MaxDelay => state[t] # "delayed"
      BY <1>3, <1>4, QueueAssumption DEF MaxDelay
    <3> QED BY <1>1, <1>2, <1>3, <1>4, <1>5, <1>7, <1>8, <3>1, <3>2 DEF Asleep
  <2> QED BY <2>1, <2>2
<1>13. /\ waiting' \in Seq(Task) /\ Waiters' \subseteq Waiters \ due
       /\ \A i, j \in DOMAIN waiting' : waiting'[i] = waiting'[j] => i = j
  BY <1>1, WithoutShape DEF Waiters
<1>14. ASSUME NEW t \in Waiters'
       PROVE  state'[t] \in {"delayed", "overflow", "forever"}
  <2>1. t \in Waiters /\ t \notin due
    BY <1>13
  <2>2. PICK i \in DOMAIN waiting : t = waiting[i]
    BY <2>1, Zenon DEF Waiters
  <2>3. t \in Task /\ Asleep(t)
    BY <2>2 DEF ListInv
  <2> QED BY <1>5, <1>9, <2>1, <2>3 DEF Asleep
<1>15. IF tick = MaxDelay THEN tick' = 0 /\ overflows' = overflows + 1
       ELSE tick' = tick + 1 /\ overflows' = overflows
  BY <1>1, <1>2, <1>3
<1> QED BY <1>1, <1>7, <1>10, <1>12, <1>13, <1>14, <1>15 DEF Ticks

\* prvUnlockQueue wakes a task for each post it is told of, or all.
LEMMA UnlockShape ==
  ASSUME ListInv, KernelTypeOK, HoldInv, NEW t \in Task, FetchUnlock(t)
  PROVE  \E S \in SUBSET Task :
           /\ Roused(S) /\ IsFiniteSet(S)
           /\ waiting' = <<>> \/ Cardinality(S) = txLock - 1
<1> DEFINE n == IF txLock - 1 < Len(waiting) THEN txLock - 1 ELSE Len(waiting)
<1>1. RemoveFromEventList(n)
  BY DEF FetchUnlock
<1>2. Len(waiting) \in Nat /\ txLock \in Nat /\ txLock > 0
  BY QueueAssumption
  DEF ListInv, KernelTypeOK, HoldInv, FetchUnlock, Runs, Locking
<1>3. n \in 0 .. Len(waiting) /\ (n = Len(waiting) \/ n = txLock - 1)
  BY <1>2
<1> HIDE DEF n
<1>4. /\ Roused(First(n)) /\ IsFiniteSet(First(n)) /\ Cardinality(First(n)) = n
      /\ First(n) \in SUBSET Task
  BY <1>1, <1>3, RemoveRouses, FirstShape
<1>5. n = Len(waiting) => waiting' = <<>>
  <2>1. waiting' \in Seq(Task) /\ Len(waiting') = Len(waiting) - n
    BY <1>1, <1>3, FirstShape
  <2> QED BY <1>2, <2>1, EmptySeq
<1> QED BY <1>3, <1>4, <1>5

\* A turn of xTaskResumeAll's loop.
LEMMA PendedShape ==
  ASSUME KernelTypeOK, CallTypeOK, ListInv, DelayedAreAhead,
         NEW t \in Task, FetchPendedTick(t)
  PROVE  \E switch \in BOOLEAN :
           Ticks(switch) /\ yieldPending' = (yieldPending \/ switch)
BY TickShape DEF FetchPendedTick

\* The tick interrupt while the scheduler runs.
LEMMA SysTickShape ==
  ASSUME KernelTypeOK, CallTypeOK, ListInv, DelayedAreAhead,
         SysTick, ~suspended
  PROVE  \E switch \in BOOLEAN :
           /\ Ticks(switch) /\ pendSV' = (pendSV \/ switch)
           /\ UNCHANGED <<pendReady, pendedTicks>>
BY TickShape DEF SysTick

\* Taking tasks out of the list keeps the rest of it in order.
LEMMA RousedList ==
  ASSUME ListInv, HoldInv, NEW S \in SUBSET Task, Roused(S)
  PROVE  ListInv'
<1>1. \A i \in DOMAIN waiting' :
        waiting'[i] \in Waiters /\ waiting'[i] \notin S /\ waiting'[i] \in Task
  BY DEF Roused, Waiters, ListInv
<1>2. \A t \in Waiters : Asleep(t) /\ t \notin pendReady
  BY DEF Waiters, ListInv
<1>5. \A t \in pendReady' : state'[t] # "ready"
  <2>1. suspended \/ (pendReady = {} /\ pendReady' = {})
    BY DEF HoldInv, Roused
  <2>2. \A t \in S : state[t] # "ready"
    BY <1>2 DEF Roused, Asleep
  <2>3. \A t \in pendReady : state[t] # "ready"
    BY DEF ListInv
  <2> QED BY <2>1, <2>2, <2>3 DEF Roused
<1>3. \A t \in Task : t \notin S => state'[t] = state[t]
  BY DEF Roused
<1>4. pendReady' \subseteq pendReady \cup S
  BY DEF Roused
<1> QED BY <1>1, <1>2, <1>3, <1>4, <1>5 DEF Roused, ListInv, Asleep

\* A task that goes to sleep keeps the list in order.
LEMMA PlaceList ==
  ASSUME CallTypeOK, ListInv, NEW t \in Task, state[t] = "ready", FetchPlace(t)
  PROVE  ListInv'
<1>1. ~Asleep(t)
  BY DEF Asleep
<1>2. \A i \in DOMAIN waiting : Asleep(waiting[i])
        /\ waiting[i] \notin pendReady
  BY DEF ListInv
<1>3. t \notin Waiters
  BY <1>1, <1>2 DEF Waiters
<1>4. PICK list \in {"forever", "overflow", "delayed"} :
        state' = [state EXCEPT ![t] = list]
  BY DEF FetchPlace, DelayedList
<1>5. waiting' = InsertWaiting(t) /\ pendReady' = pendReady
  BY DEF FetchPlace
<1>6. \A u \in Waiters : Asleep(u) /\ u \notin pendReady
  BY <1>2 DEF Waiters
<1>7. \A u \in pendReady : state[u] # "ready"
  BY DEF ListInv
<1>8. \A u : u # t => state'[u] = state[u]
  BY <1>4 DEF CallTypeOK
<1>9. state'[t] = list
  BY <1>4 DEF CallTypeOK
<1>10. /\ waiting' \in Seq(Task)
       /\ \A i, j \in DOMAIN waiting' : waiting'[i] = waiting'[j] => i = j
       /\ \A i \in DOMAIN waiting' : waiting'[i] \in Waiters \cup {t}
  BY <1>3, <1>5, InsertShape
<1>11. \A u \in Waiters \cup {t} :
         state'[u] \in {"delayed", "overflow", "forever"} /\ u \notin pendReady
  BY <1>3, <1>6, <1>7, <1>8, <1>9 DEF Asleep
<1>12. \A u \in pendReady : state'[u] # "ready"
  BY <1>7, <1>8, <1>9
<1> QED BY <1>5, <1>10, <1>11, <1>12 DEF ListInv, Asleep

\* The tasks that have woken up, or have not gone to sleep yet.
Way == Fetching \ Waiters

\* There are finitely many.
LEMMA WayType == Cardinality(Way) \in Nat /\ IsFiniteSet(Way)
<1>1. Way \in SUBSET Task
  BY DEF Way, Fetching
<1> QED BY <1>1, TasksCounted, FS_Subset, FS_CardinalityType

\* Who is taken out of the waiting list is on its way.
LEMMA WayGrows ==
  ASSUME SleepInv, ListInv, CallTypeOK,
         NEW S \in SUBSET Task, S \subseteq Waiters,
         Waiters' \subseteq Waiters \ S, Fetching \subseteq Fetching'
  PROVE  /\ Cardinality(S) \in Nat /\ Cardinality(Way) \in Nat
         /\ Cardinality(Way') \in Nat
         /\ Cardinality(Way') >= Cardinality(Way) + Cardinality(S)
<1>1. Waiters \subseteq Fetching
  <2> SUFFICES ASSUME NEW i \in DOMAIN waiting PROVE waiting[i] \in Fetching
    BY DEF Waiters
  <2>1. waiting[i] \in Task /\ Asleep(waiting[i])
    BY DEF ListInv
  <2> QED BY <2>1 DEF SleepInv, Fetching
<1>2. Way \cup S \in SUBSET Way'
  BY <1>1 DEF Way
<1>3. IsFiniteSet(S) /\ Cardinality(S) \in Nat
  BY TasksCounted, FS_Subset, FS_CardinalityType
<1>4. Way \cap S = {}
  BY DEF Way
<1>5. Cardinality(Way \cup S) = Cardinality(Way) + Cardinality(S)
  <2>1. Cardinality(Way \cap S) = 0
    BY <1>4, FS_EmptySet
  <2>2. Cardinality(Way \cup S) =
          Cardinality(Way) + Cardinality(S) - Cardinality(Way \cap S)
    BY <1>3, WayType, FS_Union
  <2> QED BY <1>3, <2>1, <2>2, WayType
<1>6. IsFiniteSet(Way') /\ Cardinality(Way') \in Nat
  <2>1. Way' \in SUBSET Task
    BY DEF Way, Fetching
  <2> QED BY <2>1, TasksCounted, FS_Subset, FS_CardinalityType
<1>7. Cardinality(Way \cup S) <= Cardinality(Way')
  BY <1>2, <1>6, FS_Subset
<1> QED BY <1>3, <1>5, <1>6, <1>7, WayType

\* An empty list has no members.
LEMMA NoneWaits == ASSUME NEW w \in Seq(Task)
                   PROVE  w = <<>> <=> {w[i] : i \in DOMAIN w} = {}
<1>1. w # <<>> => 1 \in DOMAIN w
  OBVIOUS
<1>2. w = <<>> => {w[i] : i \in DOMAIN w} = {}
  OBVIOUS
<1> QED BY <1>1, <1>2

\* The numbers that are compared are natural.
LEMMA Counts ==
  ASSUME QInv, KernelTypeOK
  PROVE  /\ count \in Nat /\ txLock \in Nat /\ NumberOfTasks \in Nat
         /\ Cardinality(Way) \in Nat
<1>1. count \in 0 .. Length /\ txLock \in 0 .. NumberOfTasks + 1
  BY DEF QInv, StoreTypeOK, KernelTypeOK, StoreInv
<1> QED BY <1>1, WayType, QueueAssumption

\* So are the priorities.
LEMMA Ranks ==
  ASSUME KernelTypeOK
  PROVE  (\A t \in Task : prio[t] \in Nat) /\ PrioOf(cur) \in Nat
BY QueueAssumption DEF KernelTypeOK, PrioOf

\* Of tasks none of which outranks the running one, each ranks no higher.
LEMMA NotOutranked ==
  ASSUME KernelTypeOK, NEW S \in SUBSET Task
  PROVE  Outrank(S) \/ \A t \in S : prio[t] <= PrioOf(cur)
BY Ranks DEF Outrank

\* A remainder after at most one round.
LEMMA RoundOnce ==
  ASSUME NEW m \in Nat, m > 0, NEW a \in Nat
  PROVE  /\ a < m => a % m = a
         /\ m <= a /\ a < m + m => a % m = a - m
OBVIOUS

\* An unsigned sum of tick counts.
LEMMA AddTicks ==
  ASSUME NEW a \in Tick, NEW b \in Tick
  PROVE  /\ (a + b) % TickMod \in Nat
         /\ (a + b) % TickMod = IF a + b < TickMod THEN a + b
              ELSE (a + b) - TickMod
<1> DEFINE s == a + b
<1>1. TickMod \in Nat /\ TickMod > 0 /\ s \in Nat /\ s < TickMod + TickMod
  BY QueueAssumption DEF Tick
<1> HIDE DEF s
<1>2. /\ s < TickMod => s % TickMod = s
      /\ TickMod <= s => s % TickMod = s - TickMod
  BY <1>1, RoundOnce
<1>3. s % TickMod \in Nat
      /\ s % TickMod = IF s < TickMod THEN s ELSE s - TickMod
  BY <1>1, <1>2
<1> QED BY <1>3 DEF s

-----------------------------------------------------------------------------
(* Time.                                                                   *)

\* Whole rounds of the tick count.
LEMMA Rounds ==
  ASSUME NEW m \in Nat, NEW x \in Nat, NEW y \in Nat, x < y
  PROVE  x * m \in Nat /\ y * m \in Nat /\ x * m + m <= y * m
<1> DEFINE d == y - (x + 1)
<1>1. d \in Nat /\ y = x + 1 + d
  OBVIOUS
<1> HIDE DEF d
<1>2. y * m = x * m + m + d * m
  BY <1>1
<1>3. x * m \in Nat /\ d * m \in Nat
  BY <1>1
<1> QED BY <1>2, <1>3

\* All times are natural numbers.
LEMMA Clocks ==
  ASSUME KernelTypeOK, CallTypeOK
  PROVE  /\ Clock \in Nat /\ tick \in Nat /\ tick < TickMod
         /\ overflows \in Nat
         /\ TickMod \in Nat /\ overflows * TickMod \in Nat
         /\ \A t \in Task :
              /\ Begun(t) \in Nat /\ entry[t].at \in Nat
              /\ entry[t].at < TickMod
              /\ entry[t].ovf \in Nat /\ entry[t].ovf * TickMod \in Nat
              /\ ticks[t] \in Nat /\ ticks[t] < TickMod /\ want[t] \in Nat
              /\ want[t] < TickMod /\ wake[t] \in Nat /\ age[t] \in Nat
<1>1. /\ tick \in Nat /\ tick < TickMod /\ overflows \in Nat /\ TickMod \in Nat
      /\ interrupts \in Nat
  BY QueueAssumption DEF KernelTypeOK, Tick
<1>2. overflows * TickMod \in Nat
  BY <1>1
<1>3. ASSUME NEW t \in Task
      PROVE  /\ Begun(t) \in Nat /\ entry[t].at \in Nat
             /\ entry[t].at < TickMod
             /\ entry[t].ovf \in Nat /\ entry[t].ovf * TickMod \in Nat
             /\ ticks[t] \in Nat /\ ticks[t] < TickMod /\ want[t] \in Nat
             /\ want[t] < TickMod /\ wake[t] \in Nat /\ age[t] \in Nat
  <2>1. /\ entry[t].at \in Nat /\ entry[t].at < TickMod /\ entry[t].ovf \in Nat
        /\ ticks[t] \in Nat /\ ticks[t] < TickMod /\ want[t] \in Nat
        /\ want[t] < TickMod /\ wake[t] \in Nat /\ age[t] \in Nat
    BY <1>1, QueueAssumption DEF CallTypeOK, Tick
  <2>2. entry[t].ovf * TickMod \in Nat
    BY <1>1, <2>1
  <2> QED BY <2>1, <2>2 DEF Begun
<1> QED BY <1>1, <1>2, <1>3 DEF Clock

\* A tick puts the clock forward by one, across an overflow too.
LEMMA ClockTicks ==
  ASSUME KernelTypeOK, CallTypeOK, NEW switch \in BOOLEAN, Ticks(switch)
  PROVE  Clock' = Clock + 1
<1>1. CASE tick = MaxDelay
  <2>1. tick' = 0 /\ overflows' = overflows + 1 /\ tick = TickMod - 1
    BY <1>1 DEF Ticks, MaxDelay
  <2>2. (overflows + 1) * TickMod = overflows * TickMod + TickMod
    BY Clocks
  <2> QED BY <2>1, <2>2, Clocks DEF Clock
<1>2. CASE tick # MaxDelay
  BY <1>2, Clocks DEF Ticks, Clock
<1> QED BY <1>1, <1>2

\* The difference of tick counts never exceeds the time that has passed, and
\* is this time when that is less than a full round.
LEMMA SinceBegun ==
  ASSUME KernelTypeOK, CallTypeOK, NEW t \in Task, Begun(t) <= Clock
  PROVE  /\ Elapsed(t) \in Nat /\ Elapsed(t) <= Clock - Begun(t)
         /\ overflows # entry[t].ovf /\ tick >= entry[t].at =>
              TickMod <= Clock - Begun(t)
         /\ Clock - Begun(t) < TickMod => Clock - Begun(t) = Elapsed(t)
<1> DEFINE o == overflows
           v == entry[t].ovf
           k == tick
           a == entry[t].at
           m == TickMod
<1>1. /\ o \in Nat /\ v \in Nat /\ k \in Nat /\ a \in Nat /\ m \in Nat
      /\ k < m /\ a < m /\ o * m \in Nat /\ v * m \in Nat
      /\ Clock = o * m + k /\ Begun(t) = v * m + a
  BY Clocks DEF Clock, Begun
<1>2. Elapsed(t) \in Nat
      /\ Elapsed(t) = IF k >= a THEN k - a ELSE (k + m) - a
  <2>1. Elapsed(t) = (k + m - a) % m
    BY DEF Elapsed
  <2> DEFINE s == k + m - a
  <2>2. s \in Nat /\ s < m + m /\ m > 0
    BY <1>1
  <2> HIDE DEF s
  <2>3. /\ s < m => s % m = s
        /\ m <= s => s % m = s - m
    BY <1>1, <2>2, RoundOnce
  <2>4. Elapsed(t) = s % m
    BY <2>1 DEF s
  <2>5. Elapsed(t) = IF s < m THEN s ELSE s - m
    BY <1>1, <2>2, <2>3, <2>4
  <2> QED BY <1>1, <2>5 DEF s
<1> HIDE DEF o, v, k, a, m
<1>3. v <= o
  <2>1. SUFFICES ASSUME o < v PROVE FALSE
    BY <1>1
  <2>2. o * m + m <= v * m
    BY <1>1, <2>1, Rounds
  <2> QED BY <1>1, <2>2
<1>4. CASE v = o
  BY <1>1, <1>2, <1>4 DEF o, v, k, a, m
<1>5. CASE v < o
  <2>1. v * m + m <= o * m
    BY <1>1, <1>5, Rounds
  <2>2. CASE k >= a
    BY <1>1, <1>2, <2>1, <2>2 DEF o, v, k, a, m
  <2>3. CASE k < a
    <3>1. Elapsed(t) <= Clock - Begun(t)
      BY <1>1, <1>2, <2>1, <2>3
    <3>2. CASE v + 1 < o
      <4>1. (v + 1) * m + m <= o * m
        BY <1>1, <3>2, Rounds
      <4>2. (v + 1) * m = v * m + m
        BY <1>1
      <4> QED BY <1>1, <1>2, <2>3, <3>1, <4>1, <4>2 DEF o, v, k, a, m
    <3>3. CASE o = v + 1
      <4>1. (v + 1) * m = v * m + m
        BY <1>1
      <4> QED BY <1>1, <1>2, <2>3, <3>1, <3>3, <4>1 DEF o, v, k, a, m
    <3> QED BY <1>1, <1>5, <3>2, <3>3
  <2> QED BY <1>1, <2>2, <2>3
<1>6. v = o \/ v < o
  BY <1>1, <1>3
<1> QED BY <1>4, <1>5, <1>6

\* What xTaskCheckForTimeOut finds: a task is only told that its time is up
\* when it has waited that long.
LEMMA TimeUp ==
  ASSUME KernelTypeOK, CallTypeOK, NEW t \in Task, LeftOf(t), ClockOf(t),
         pc[t] \in Setting
  PROVE  /\ Expired(t) => want[t] # MaxDelay /\ age[t] >= want[t]
         /\ ticks[t] # MaxDelay /\ ~Expired(t) =>
              /\ want[t] # MaxDelay /\ Elapsed(t) \in Nat
              /\ Elapsed(t) < ticks[t] /\ Begun(t) <= Clock
              /\ age[t] >= pendedTicks + want[t] - (ticks[t] - Elapsed(t))
<1> USE DEF Setting
<1>1. CASE ticks[t] = MaxDelay
  BY <1>1 DEF Expired
<1>2. CASE ticks[t] # MaxDelay
  <2>1. entry[t].set /\ want[t] # MaxDelay /\ ticks[t] # 0
    BY <1>2 DEF LeftOf
  <2>2. /\ Begun(t) <= Clock
        /\ age[t] + Begun(t) >= Clock + pendedTicks + want[t] - ticks[t]
    BY <2>1 DEF ClockOf
  <2>3. pendedTicks \in Nat
    BY QueueAssumption DEF KernelTypeOK
  <2>4. /\ Clock \in Nat /\ Begun(t) \in Nat /\ age[t] \in Nat
        /\ want[t] \in Nat /\ ticks[t] \in Nat /\ ticks[t] < TickMod
        /\ TickMod \in Nat
    BY Clocks
  <2>5. /\ Elapsed(t) \in Nat /\ Elapsed(t) <= Clock - Begun(t)
        /\ overflows # entry[t].ovf /\ tick >= entry[t].at =>
             TickMod <= Clock - Begun(t)
    BY <2>2, SinceBegun
  <2>6. Expired(t) => ticks[t] <= Clock - Begun(t)
    BY <2>4, <2>5 DEF Expired
  <2>7. ~Expired(t) => Elapsed(t) < ticks[t]
    BY <1>2, <2>4, <2>5 DEF Expired
  <2> QED BY <2>1, <2>2, <2>3, <2>4, <2>5, <2>6, <2>7
<1> QED BY <1>1, <1>2

\* A step that leaves a task's call alone or moves it on, while time goes on.
LEMMA LeftFrame ==
  ASSUME CallTypeOK, NEW u \in Task, LeftOf(u),
         UNCHANGED <<ticks[u], want[u], entry[u]>>,
         age'[u] = age[u] \/ (entry[u].set /\ age'[u] = age[u] + 1),
         \/ state'[u] = state[u] \/ state'[u] \in {"ready", "away"}
         \/ state[u] = "overflow" /\ state'[u] = "delayed",
         why'[u] \in {why[u], "retry", "placed"},
         \/ pc'[u] = pc[u]
         \/ /\ pc[u] # "idle" /\ pc'[u] # "idle"
            /\ pc'[u] \in Setting => pc[u] \in Setting
            /\ pc'[u] = "expired" => why[u] = "expired"
  PROVE  LeftOf(u)'
<1>1. /\ ticks[u] \in Nat /\ want[u] \in Nat /\ age[u] \in Nat
  BY QueueAssumption DEF CallTypeOK, Tick
<1> QED BY <1>1 DEF LeftOf, Asleep

\* The same of the clock.
LEMMA ClockFrame ==
  ASSUME KernelTypeOK, CallTypeOK, NEW u \in Task, ClockOf(u),
         UNCHANGED <<ticks[u], want[u], entry[u]>>,
         Clock' \in Nat, pendedTicks' \in Nat, Clock' >= Clock,
         \/ /\ Clock' + pendedTicks' = Clock + pendedTicks
            /\ age'[u] = age[u]
         \/ /\ Clock' + pendedTicks' = Clock + pendedTicks + 1
            /\ entry[u].set /\ want[u] # MaxDelay => age'[u] = age[u] + 1
  PROVE  ClockOf(u)'
<1>1. /\ Clock \in Nat /\ Begun(u) \in Nat /\ ticks[u] \in Nat
      /\ want[u] \in Nat
      /\ age[u] \in Nat /\ pendedTicks \in Nat
  BY Clocks, QueueAssumption DEF KernelTypeOK
<1>2. Begun(u)' = Begun(u)
  BY DEF Begun
<1>3. SUFFICES ASSUME entry[u].set, want[u] # MaxDelay, ticks[u] # 0
      PROVE  /\ Begun(u)' <= Clock'
             /\ age'[u] + Begun(u)' >= Clock' + pendedTicks' + want[u] - ticks[u]
  BY DEF ClockOf
<1>4. /\ Begun(u) <= Clock
      /\ age[u] + Begun(u) >= Clock + pendedTicks + want[u] - ticks[u]
  BY <1>3 DEF ClockOf
<1>5. \/ age'[u] = age[u] /\ Clock' + pendedTicks' = Clock + pendedTicks
      \/ age'[u] = age[u] + 1
           /\ Clock' + pendedTicks' = Clock + pendedTicks + 1
  BY <1>3
<1>6. Clock' \in Nat /\ pendedTicks' \in Nat /\ Begun(u)' \in Nat
  BY <1>1, <1>2
<1> DEFINE c == Clock + pendedTicks
           d == want[u] - ticks[u]
<1>7. c \in Nat /\ d \in Int /\ age[u] + Begun(u) >= c + d
  BY <1>1, <1>4
<1>8. Clock' + pendedTicks' = c \/ Clock' + pendedTicks' = c + 1
  BY <1>5
<1>9. age'[u] + Begun(u)' >= (Clock' + pendedTicks') + d
  <2> HIDE DEF c, d
  <2>1. CASE age'[u] = age[u] /\ Clock' + pendedTicks' = c
    <3>1. age'[u] + Begun(u)' = age[u] + Begun(u)
      BY <1>2, <2>1
    <3> QED BY <1>7, <2>1, <3>1
  <2>2. CASE age'[u] = age[u] + 1 /\ Clock' + pendedTicks' = c + 1
    <3>1. age'[u] + Begun(u)' = (age[u] + Begun(u)) + 1
      BY <1>1, <1>2, <2>2
    <3>2. age[u] + Begun(u) \in Nat
      BY <1>1
    <3>3. (age[u] + Begun(u)) + 1 >= (c + 1) + d
      BY <1>7, <3>2
    <3> QED BY <2>2, <3>1, <3>3
  <2> QED BY <1>5, <2>1, <2>2 DEF c
<1> QED BY <1>1, <1>2, <1>4, <1>6, <1>9

-----------------------------------------------------------------------------
(* Every step preserves each part of the invariant.                        *)

\* The kernel's own state keeps its types.
LEMMA StepKernelTypeOK == IInv /\ [Next]_vars => KernelTypeOK'
<1> SUFFICES ASSUME IInv, [Next]_vars PROVE KernelTypeOK'
  OBVIOUS
<1> USE IdleAssumption DEF IInv, KernelTypeOK, Runs, Goto
<1>1. CASE SysTick
  <2>1. interrupts' \in 0 .. MaxTicks /\ interrupts' = interrupts + 1
    BY <1>1, QueueAssumption DEF SysTick
  <2>2. CASE suspended
    BY <1>1, <2>1, <2>2, QueueAssumption DEF SysTick, taskVars, switchVars
  <2>3. CASE ~suspended
    <3>1. PICK switch \in BOOLEAN :
            /\ Ticks(switch) /\ pendSV' = (pendSV \/ switch)
            /\ UNCHANGED <<pendReady, pendedTicks>>
      BY <1>1, <2>3, SysTickShape
    <3>2. nextUnblock' \in Tick
      BY <3>1 DEF Ticks
    <3>3. tick' \in Tick /\ overflows' \in Nat
      <4>1. tick \in 0 .. MaxDelay /\ MaxDelay \in Nat /\ Tick = 0 .. MaxDelay
        BY QueueAssumption DEF Tick, MaxDelay
      <4>2. IF tick = MaxDelay THEN tick' = 0 /\ overflows' = overflows + 1
            ELSE tick' = tick + 1 /\ overflows' = overflows
        BY <3>1 DEF Ticks
      <4> QED BY <4>1, <4>2
    <3> QED BY <1>1, <2>1, <2>3, <3>1, <3>2, <3>3, QueueAssumption DEF SysTick
  <2> QED BY <2>2, <2>3
<1>2. ASSUME NEW t \in Task \cup {Idle}, SwitchContext(t) PROVE KernelTypeOK'
  BY <1>2
  DEF SwitchContext, queueVars, taskVars, timeVars, switchVars, callVars
<1>3. CASE PostFromHandler \/ \E t \in Task : Post(t) \/ TryPost(t)
  <2>1. UNCHANGED <<timeVars, suspended, prio>>
    BY <1>3, PostShape
  <2>2. CASE Unheard \/ Noted
    BY <2>1, <2>2, QueueAssumption
    DEF Unheard, Noted, taskVars, timeVars, switchVars
  <2>3. ASSUME NEW S \in SUBSET Task, Heard(S) PROVE KernelTypeOK'
    BY <2>1, <2>3 DEF Heard, Roused, Outrank, timeVars
  <2> QED BY <1>3, <2>2, <2>3, PostShape
<1>4. ASSUME NEW t \in Task, Return(t) PROVE KernelTypeOK'
  BY <1>4 DEF Return, queueVars, taskVars, timeVars, switchVars, callVars
<1>5. ASSUME NEW t \in Task, GoAway(t) \/ \E w \in Waits : StartFetch(t, w)
      PROVE  KernelTypeOK'
  BY <1>5
  DEF GoAway, StartFetch, queueVars, taskVars, timeVars, switchVars, callVars
<1>6. ASSUME NEW t \in Task, FetchItem(t) \/ FetchNothing(t)
      PROVE  KernelTypeOK'
  BY <1>6
  DEF FetchItem, FetchNothing, Leave, queueVars, taskVars, timeVars,
      switchVars, callVars
<1>7. ASSUME NEW t \in Task, FetchWait(t) \/ FetchExpiredAgain(t)
      PROVE  KernelTypeOK'
  BY <1>7
  DEF FetchWait, FetchExpiredAgain, Advance, queueVars, taskVars, timeVars,
      switchVars, callVars
<1>8. ASSUME NEW t \in Task, FetchSuspend(t) \/ FetchLock(t)
      PROVE  KernelTypeOK'
  <2>1. 1 \in 0 .. NumberOfTasks + 1
    BY QueueAssumption
  <2> QED BY <1>8, <2>1
      DEF FetchSuspend, FetchLock, Advance, switchVars, timeVars, taskVars
<1>9. ASSUME NEW t \in Task, FetchTimeOut(t) PROVE KernelTypeOK'
  BY <1>9
  DEF FetchTimeOut, Advance, queueVars, taskVars, timeVars, switchVars,
      callVars
<1>10. ASSUME NEW t \in Task, FetchIsEmpty(t) PROVE KernelTypeOK'
  BY <1>10
  DEF FetchIsEmpty, Advance, queueVars, taskVars, timeVars, switchVars,
      callVars
<1>11. ASSUME NEW t \in Task, FetchPlace(t) PROVE KernelTypeOK'
  <2>1. (tick + ticks[t]) % TickMod \in Tick
    BY QueueAssumption DEF Tick, CallTypeOK
  <2> QED BY <1>11, <2>1 DEF FetchPlace, NextUnblock, switchVars
<1>12. ASSUME NEW t \in Task, FetchUnlock(t) PROVE KernelTypeOK'
  <2>1. pendReady' \subseteq Task /\ yieldPending' \in BOOLEAN
    BY <1>12, UnlockShape DEF Roused, Outrank
  <2> QED BY <1>12, <2>1, QueueAssumption DEF FetchUnlock, timeVars
<1>13. ASSUME NEW t \in Task, FetchResume(t) PROVE KernelTypeOK'
  <2>1. nextUnblock' \in Tick
    BY <1>13, EarliestIsLeast DEF FetchResume
  <2> QED BY <1>13, <2>1 DEF FetchResume, Resumed, Outrank
<1>14. ASSUME NEW t \in Task, FetchPendedTick(t) PROVE KernelTypeOK'
  <2>1. PICK switch \in BOOLEAN :
          Ticks(switch) /\ yieldPending' = (yieldPending \/ switch)
    BY <1>14, PendedShape
  <2>2. tick' \in Tick /\ nextUnblock' \in Tick /\ overflows' \in Nat
    BY <2>1, QueueAssumption DEF Ticks, Tick, MaxDelay
  <2>3. pendedTicks > 0
    BY <1>14 DEF FetchPendedTick, HoldInv, Masked
  <2>4. pendedTicks' \in 0 .. interrupts' /\ interrupts' = interrupts
    BY <1>14, <2>3, QueueAssumption DEF FetchPendedTick
  <2> QED BY <1>14, <2>1, <2>2, <2>4 DEF FetchPendedTick, Resumed
<1>15. ASSUME NEW t \in Task, FetchYield(t) PROVE KernelTypeOK'
  BY <1>15
  DEF FetchYield, queueVars, taskVars, timeVars, switchVars, callVars
<1>16. CASE UNCHANGED vars
  BY <1>16 DEF vars, queueVars, taskVars, timeVars, switchVars, callVars
<1> QED BY <1>1, <1>2, <1>3, <1>4, <1>5, <1>6, <1>7, <1>8, <1>9, <1>10, <1>11,
           <1>12, <1>13, <1>14, <1>15, <1>16 DEF Next, Fetch

\* So do the tasks' states and the locals of their calls.
LEMMA StepCallTypeOK == IInv /\ [Next]_vars => CallTypeOK'
<1> SUFFICES ASSUME IInv, [Next]_vars PROVE CallTypeOK'
  OBVIOUS
<1> USE IdleAssumption DEF IInv, CallTypeOK, KernelTypeOK, Runs, Goto
<1>1. CASE SysTick
  <2>1. /\ interrupts' = interrupts + 1 /\ interrupts' \in Nat
        /\ age' \in [Task -> 0 .. interrupts']
    BY <1>1, QueueAssumption DEF SysTick
  <2>2. CASE suspended
    BY <1>1, <2>1, <2>2 DEF SysTick, taskVars, callVars
  <2>3. CASE ~suspended
    <3>1. PICK switch \in BOOLEAN : Ticks(switch)
      BY <1>1, <2>3, SysTickShape
    <3> QED BY <1>1, <2>1, <3>1 DEF SysTick, Ticks, callVars
  <2> QED BY <2>2, <2>3
<1>2. ASSUME NEW t \in Task \cup {Idle}, SwitchContext(t) PROVE CallTypeOK'
  BY <1>2
  DEF SwitchContext, queueVars, taskVars, timeVars, switchVars, callVars
<1>3. CASE PostFromHandler \/ \E t \in Task : Post(t) \/ TryPost(t)
  <2>1. UNCHANGED <<timeVars, suspended, prio, callVars>>
    BY <1>3, PostShape
  <2>2. CASE Unheard \/ Noted
    BY <2>1, <2>2 DEF Unheard, Noted, taskVars, timeVars, callVars
  <2>3. ASSUME NEW S \in SUBSET Task, Heard(S) PROVE CallTypeOK'
    BY <2>1, <2>3 DEF Heard, Roused, timeVars, callVars
  <2> QED BY <1>3, <2>2, <2>3, PostShape
<1>4. ASSUME NEW t \in Task, Return(t) PROVE CallTypeOK'
  BY <1>4 DEF Return, queueVars, taskVars, timeVars, switchVars, callVars
<1>5. ASSUME NEW t \in Task, GoAway(t) \/ \E w \in Waits : StartFetch(t, w)
      PROVE  CallTypeOK'
  <2>1. Waits \subseteq Tick
    BY QueueAssumption DEF Tick, MaxDelay
  <2>2. CASE GoAway(t)
    BY <2>2 DEF GoAway, timeVars, callVars
  <2>3. ASSUME NEW w \in Waits, StartFetch(t, w) PROVE CallTypeOK'
    <3>1. w \in Tick
      BY <2>1
    <3>2. ticks' \in [Task -> Tick] /\ want' \in [Task -> Tick]
      BY <2>3, <3>1 DEF StartFetch
    <3> QED BY <2>3, <3>2 DEF StartFetch, taskVars, timeVars
  <2> QED BY <1>5, <2>2, <2>3
<1>6. ASSUME NEW t \in Task, FetchItem(t) \/ FetchNothing(t) PROVE CallTypeOK'
  <2>1. Leave(t) /\ interrupts' = interrupts
    BY <1>6 DEF FetchItem, FetchNothing
  <2>2. 0 \in Tick /\ 0 \in 0 .. interrupts
        /\ NoEntry \in [at : Tick, ovf : Nat, set : BOOLEAN]
    BY QueueAssumption DEF Tick, NoEntry
  <2>3. /\ ticks' \in [Task -> Tick] /\ want' \in [Task -> Tick]
        /\ wake' \in [Task -> Tick]
    BY <2>1, <2>2 DEF Leave
  <2>4. age' \in [Task -> 0 .. interrupts]
    BY <2>1, <2>2 DEF Leave
  <2>5. entry' \in [Task -> [at : Tick, ovf : Nat, set : BOOLEAN]]
    BY <2>1, <2>2 DEF Leave
  <2> QED BY <2>1, <2>3, <2>4, <2>5 DEF Leave
<1>7. ASSUME NEW t \in Task, FetchWait(t) \/ FetchExpiredAgain(t)
      PROVE  CallTypeOK'
  <2>1. Now \in [at : Tick, ovf : Nat, set : BOOLEAN]
    BY DEF Now
  <2>2. entry' \in [Task -> [at : Tick, ovf : Nat, set : BOOLEAN]]
    BY <1>7, <2>1 DEF FetchWait, FetchExpiredAgain
  <2> QED BY <1>7, <2>2
      DEF FetchWait, FetchExpiredAgain, Advance, taskVars, timeVars
<1>8. ASSUME NEW t \in Task, FetchSuspend(t) \/ FetchLock(t) PROVE CallTypeOK'
  BY <1>8
  DEF FetchSuspend, FetchLock, Advance, queueVars, taskVars, timeVars,
      switchVars, callVars
<1>9. ASSUME NEW t \in Task, FetchTimeOut(t) PROVE CallTypeOK'
  <2>1. CASE Expired(t)
    <3>1. 0 \in Tick
      BY QueueAssumption DEF Tick
    <3>2. ticks' \in [Task -> Tick]
      BY <1>9, <2>1, <3>1 DEF FetchTimeOut
    <3> QED BY <1>9, <2>1, <3>2 DEF FetchTimeOut, Advance, taskVars, timeVars
  <2>2. CASE ~Expired(t)
    <3>1. ASSUME ticks[t] # MaxDelay PROVE ticks[t] - Elapsed(t) \in Tick
      <4>1. Elapsed(t) \in Nat /\ Elapsed(t) < ticks[t] /\ ticks[t] \in Tick
        BY <2>2, <3>1, QueueAssumption DEF Expired, Elapsed, Tick
      <4> QED BY <4>1, QueueAssumption DEF Tick
    <3>2. ticks' \in [Task -> Tick]
      BY <1>9, <2>2, <3>1 DEF FetchTimeOut
    <3>3. Now \in [at : Tick, ovf : Nat, set : BOOLEAN]
      BY DEF Now
    <3>4. entry' \in [Task -> [at : Tick, ovf : Nat, set : BOOLEAN]]
      BY <1>9, <2>2, <3>3 DEF FetchTimeOut
    <3> QED BY <1>9, <2>2, <3>2, <3>4
        DEF FetchTimeOut, Advance, taskVars, timeVars
  <2> QED BY <2>1, <2>2
<1>10. ASSUME NEW t \in Task, FetchIsEmpty(t) PROVE CallTypeOK'
  BY <1>10
  DEF FetchIsEmpty, Advance, queueVars, taskVars, timeVars, switchVars,
      callVars
<1>11. ASSUME NEW t \in Task, FetchPlace(t) PROVE CallTypeOK'
  <2>1. (tick + ticks[t]) % TickMod \in Tick
    BY QueueAssumption DEF Tick
  <2> QED BY <1>11, <2>1 DEF FetchPlace, DelayedList
<1>12. ASSUME NEW t \in Task, FetchUnlock(t) PROVE CallTypeOK'
  <2>1. PICK S \in SUBSET Task : Roused(S)
    BY <1>12, UnlockShape
  <2> QED BY <1>12, <2>1 DEF FetchUnlock, Roused, timeVars
<1>13. ASSUME NEW t \in Task, FetchResume(t) PROVE CallTypeOK'
  <2>1. pc' \in [Task -> {"pended", "expired", "check", "yield"} \cup
                         {pc[u] : u \in Task}]
    BY <1>13 DEF FetchResume, Resumed, AfterResume
  <2> QED BY <1>13, <2>1 DEF FetchResume, Resumed
<1>14. ASSUME NEW t \in Task, FetchPendedTick(t) PROVE CallTypeOK'
  <2>1. PICK switch \in BOOLEAN : Ticks(switch)
    BY <1>14, PendedShape
  <2>2. AfterResume(t, yieldPending') \in {"expired", "check", "yield"}
    BY DEF AfterResume
  <2>5. /\ state' \in [Task -> {"ready", "delayed", "overflow",
                              "forever", "away"}]
        /\ wake' \in [Task -> Tick]
    BY <2>1 DEF Ticks
  <2>3. /\ pc' = pc 
             \/ \E place \in {"expired", "check", "yield"} : Goto(t, place)
        /\ why' = why \/ why' = [why EXCEPT ![t] = "retry"]
    BY <1>14, <2>2 DEF FetchPendedTick, Resumed
  <2>4. UNCHANGED <<interrupts, age, ticks, want, entry>>
    BY <1>14 DEF FetchPendedTick
  <2>6. pc' \in [Task -> {"idle", "check", "suspend", "lock", "timeout",
                       "empty",
                      "place", "unlock", "resume", "pended", "yield",
                      "expired"}]
        /\ why' \in [Task -> {"retry", "placed", "expired"}]
    BY <2>3
  <2> QED BY <2>4, <2>5, <2>6
<1>15. ASSUME NEW t \in Task, FetchYield(t) PROVE CallTypeOK'
  BY <1>15
  DEF FetchYield, queueVars, taskVars, timeVars, switchVars, callVars
<1>16. CASE UNCHANGED vars
  BY <1>16 DEF vars, queueVars, taskVars, timeVars, switchVars, callVars
<1> QED BY <1>1, <1>2, <1>3, <1>4, <1>5, <1>6, <1>7, <1>8, <1>9, <1>10, <1>11,
           <1>12, <1>13, <1>14, <1>15, <1>16 DEF Next, Fetch

\* Only the running task holds the scheduler, after every step.
LEMMA StepHoldInv == IInv /\ [Next]_vars => HoldInv'
<1> SUFFICES ASSUME IInv, [Next]_vars PROVE HoldInv'
  OBVIOUS
<1> USE IdleAssumption DEF IInv, KernelTypeOK, CallTypeOK, HoldInv, Holding,
           Locking, Masked, Runs, Goto
<1>1. CASE SysTick
  <2>1. CASE suspended
    BY <1>1, <2>1, QueueAssumption DEF SysTick, taskVars, callVars
  <2>2. CASE ~suspended
    BY <1>1, <2>2, SysTickShape DEF SysTick, callVars
  <2> QED BY <2>1, <2>2
<1>2. ASSUME NEW t \in Task \cup {Idle}, SwitchContext(t) PROVE HoldInv'
  BY <1>2
  DEF SwitchContext, queueVars, taskVars, timeVars, switchVars, callVars
<1>3. CASE PostFromHandler \/ \E t \in Task : Post(t) \/ TryPost(t)
  <2>1. UNCHANGED <<timeVars, suspended, prio, callVars>>
    BY <1>3, PostShape
  <2>2. CASE Unheard \/ Noted
    BY <2>1, <2>2, QueueAssumption
    DEF Unheard, Noted, taskVars, switchVars, timeVars, callVars
  <2>3. ASSUME NEW S \in SUBSET Task, Heard(S) PROVE HoldInv'
    BY <2>1, <2>3 DEF Heard, Roused, timeVars, callVars
  <2> QED BY <1>3, <2>2, <2>3, PostShape
<1>4. ASSUME NEW t \in Task, Return(t) PROVE HoldInv'
  BY <1>4 DEF Return, queueVars, taskVars, timeVars, switchVars, callVars
<1>5. ASSUME NEW t \in Task, GoAway(t) \/ \E w \in Waits : StartFetch(t, w)
      PROVE  HoldInv'
  BY <1>5
  DEF GoAway, StartFetch, queueVars, taskVars, timeVars, switchVars, callVars
<1>6. ASSUME NEW t \in Task, FetchItem(t) \/ FetchNothing(t) PROVE HoldInv'
  BY <1>6
  DEF FetchItem, FetchNothing, Leave, queueVars, taskVars, timeVars,
      switchVars, callVars
<1>7. ASSUME NEW t \in Task, FetchWait(t) \/ FetchExpiredAgain(t)
      PROVE  HoldInv'
  BY <1>7
  DEF FetchWait, FetchExpiredAgain, Advance, queueVars, taskVars, timeVars,
      switchVars, callVars
<1>8. ASSUME NEW t \in Task, FetchSuspend(t) \/ FetchLock(t) PROVE HoldInv'
  BY <1>8, QueueAssumption
  DEF FetchSuspend, FetchLock, Advance, queueVars, taskVars, timeVars,
      switchVars, callVars
<1>9. ASSUME NEW t \in Task, FetchTimeOut(t) PROVE HoldInv'
  BY <1>9
  DEF FetchTimeOut, Advance, queueVars, taskVars, timeVars, switchVars,
      callVars
<1>10. ASSUME NEW t \in Task, FetchIsEmpty(t) PROVE HoldInv'
  BY <1>10
  DEF FetchIsEmpty, Advance, queueVars, taskVars, timeVars, switchVars,
      callVars
<1>11. ASSUME NEW t \in Task, FetchPlace(t) PROVE HoldInv'
  BY <1>11
  DEF FetchPlace, queueVars, taskVars, timeVars, switchVars, callVars
<1>12. ASSUME NEW t \in Task, FetchUnlock(t) PROVE HoldInv'
  <2>1. PICK S \in SUBSET Task : Roused(S)
    BY <1>12, UnlockShape
  <2> QED BY <1>12, <2>1 DEF FetchUnlock, Roused, timeVars
<1>13. ASSUME NEW t \in Task, FetchResume(t) PROVE HoldInv'
  BY <1>13
  DEF FetchResume, Resumed, AfterResume, queueVars, taskVars, timeVars,
      switchVars, callVars
<1>14. ASSUME NEW t \in Task, FetchPendedTick(t) PROVE HoldInv'
  <2>1. cur = t /\ pc[t] = "pended" /\ ~suspended /\ txLock = 0
    BY <1>14 DEF FetchPendedTick
  <2>2. UNCHANGED <<cur, suspended, txLock, pendReady>>
    BY <1>14 DEF FetchPendedTick
  <2>3. /\ pendedTicks \in Nat \ {0} /\ pendedTicks' = pendedTicks - 1
    BY <1>14, <2>1 DEF FetchPendedTick
  <2>4. CASE pendedTicks = 1
    <3>1. \E place \in {"expired", "check", "yield"} :
            pc' = [pc EXCEPT ![t] = place]
      BY <1>14, <2>4 DEF FetchPendedTick, Resumed, AfterResume
    <3> QED BY <2>1, <2>2, <2>3, <2>4, <3>1
  <2>5. CASE pendedTicks # 1
    <3>1. pc' = pc
      BY <1>14, <2>5 DEF FetchPendedTick
    <3> QED BY <2>1, <2>2, <2>3, <2>5, <3>1
  <2> QED BY <2>4, <2>5
<1>15. ASSUME NEW t \in Task, FetchYield(t) PROVE HoldInv'
  BY <1>15
  DEF FetchYield, queueVars, taskVars, timeVars, switchVars, callVars
<1>16. CASE UNCHANGED vars
  BY <1>16 DEF vars, queueVars, taskVars, timeVars, switchVars, callVars
<1> QED BY <1>1, <1>2, <1>3, <1>4, <1>5, <1>6, <1>7, <1>8, <1>9, <1>10, <1>11,
           <1>12, <1>13, <1>14, <1>15, <1>16 DEF Next, Fetch

\* Who sleeps is where a sleeper can be, after every step.
LEMMA StepSleepInv == IInv /\ [Next]_vars => SleepInv'
<1> SUFFICES ASSUME IInv, [Next]_vars PROVE SleepInv'
  OBVIOUS
<1> USE IdleAssumption DEF IInv, KernelTypeOK, CallTypeOK, HoldInv, SleepInv,
           ListInv, Asleep, Holding, Runs, Goto
<1>1. CASE SysTick
  <2>1. CASE suspended
    BY <1>1, <2>1 DEF SysTick, taskVars, callVars
  <2>2. CASE ~suspended
    <3>1. PICK switch \in BOOLEAN : Ticks(switch)
            /\ pendSV' = (pendSV \/ switch)
      BY <1>1, <2>2, SysTickShape
    <3> QED BY <1>1, <2>2, <3>1 DEF SysTick, Ticks, callVars
  <2> QED BY <2>1, <2>2
<1>2. ASSUME NEW t \in Task \cup {Idle}, SwitchContext(t) PROVE SleepInv'
  BY <1>2
  DEF SwitchContext, queueVars, taskVars, timeVars, switchVars, callVars
<1>3. CASE PostFromHandler \/ \E t \in Task : Post(t) \/ TryPost(t)
  <2>1. UNCHANGED <<timeVars, suspended, prio, callVars>>
    BY <1>3, PostShape
  <2>2. CASE Unheard \/ Noted
    BY <2>1, <2>2 DEF Unheard, Noted, taskVars, switchVars, callVars
  <2>3. ASSUME NEW S \in SUBSET Task, Heard(S) PROVE SleepInv'
    BY <2>1, <2>3 DEF Heard, Roused, callVars
  <2> QED BY <1>3, <2>2, <2>3, PostShape
<1>4. ASSUME NEW t \in Task, Return(t) PROVE SleepInv'
  BY <1>4 DEF Return, queueVars, taskVars, timeVars, switchVars, callVars
<1>5. ASSUME NEW t \in Task, GoAway(t) \/ \E w \in Waits : StartFetch(t, w)
      PROVE  SleepInv'
  BY <1>5
  DEF GoAway, StartFetch, queueVars, taskVars, timeVars, switchVars, callVars
<1>6. ASSUME NEW t \in Task, FetchItem(t) \/ FetchNothing(t) PROVE SleepInv'
  <2>1. Leave(t) /\ Runs(t, pc[t]) /\ pc[t] \in {"check", "expired"}
        /\ UNCHANGED switchVars
    BY <1>6 DEF FetchItem, FetchNothing
  <2>2. \A u \in Task :
          /\ pc'[u] = IF u = t THEN "idle" ELSE pc[u]
          /\ why'[u] = IF u = t THEN "retry" ELSE why[u]
    BY <2>1 DEF Leave
  <2>3. state' = state /\ cur' = cur /\ pendSV' = pendSV
    BY <2>1 DEF Leave, switchVars
  <2> QED BY <2>1, <2>2, <2>3
<1>7. ASSUME NEW t \in Task, FetchWait(t) \/ FetchExpiredAgain(t)
      PROVE  SleepInv'
  <2>1. PICK place \in {"suspend", "check"} :
          Goto(t, place) /\ Runs(t, pc[t]) /\ pc[t] \in {"check", "expired"}
    BY <1>7 DEF FetchWait, FetchExpiredAgain, Advance
  <2>2. why' = why /\ state' = state /\ cur' = cur /\ pendSV' = pendSV
    BY <1>7 DEF FetchWait, FetchExpiredAgain, Advance, switchVars, taskVars
  <2>3. \A u \in Task : pc'[u] = IF u = t THEN place ELSE pc[u]
    BY <2>1
  <2> QED BY <2>1, <2>2, <2>3
<1>8. ASSUME NEW t \in Task, FetchSuspend(t) \/ FetchLock(t) PROVE SleepInv'
  <2>1. PICK place \in {"lock", "timeout"} :
          Goto(t, place) /\ Runs(t, pc[t]) /\ pc[t] \in {"suspend", "lock"}
    BY <1>8 DEF FetchSuspend, FetchLock, Advance
  <2>2. why' = why /\ state' = state /\ cur' = cur /\ pendSV' = pendSV
    BY <1>8 DEF FetchSuspend, FetchLock, Advance, switchVars, taskVars
  <2>3. \A u \in Task : pc'[u] = IF u = t THEN place ELSE pc[u]
    BY <2>1
  <2> QED BY <2>1, <2>2, <2>3
<1>9. ASSUME NEW t \in Task, FetchTimeOut(t) PROVE SleepInv'
  BY <1>9
  DEF FetchTimeOut, Advance, queueVars, taskVars, timeVars, switchVars,
      callVars
<1>10. ASSUME NEW t \in Task, FetchIsEmpty(t) PROVE SleepInv'
  BY <1>10
  DEF FetchIsEmpty, Advance, queueVars, taskVars, timeVars, switchVars,
      callVars
<1>11. ASSUME NEW t \in Task, FetchPlace(t) PROVE SleepInv'
  <2>1. PICK list \in {"forever", "overflow", "delayed"} :
          state' = [state EXCEPT ![t] = list]
    BY <1>11 DEF FetchPlace, DelayedList
  <2>2. /\ why' = why /\ cur' = cur /\ pendSV' = pendSV
        /\ cur = t /\ pc[t] = "place"
    BY <1>11 DEF FetchPlace, switchVars
  <2>3. \A u \in Task : /\ pc'[u] = IF u = t THEN "unlock" ELSE pc[u]
                        /\ state'[u] = IF u = t THEN list ELSE state[u]
    BY <1>11, <2>1 DEF FetchPlace
  <2> QED BY <2>2, <2>3
<1>12. ASSUME NEW t \in Task, FetchUnlock(t) PROVE SleepInv'
  <2>1. PICK S \in SUBSET Task : Roused(S)
    BY <1>12, UnlockShape
  <2> QED BY <1>12, <2>1 DEF FetchUnlock, Roused
<1>13. ASSUME NEW t \in Task, FetchResume(t) PROVE SleepInv'
  BY <1>13
  DEF FetchResume, Resumed, AfterResume, queueVars, taskVars, timeVars,
      switchVars, callVars
<1>14. ASSUME NEW t \in Task, FetchPendedTick(t) PROVE SleepInv'
  <2>1. PICK switch \in BOOLEAN :
          Ticks(switch) /\ yieldPending' = (yieldPending \/ switch)
    BY <1>14, PendedShape
  <2> QED BY <1>14, <2>1 DEF FetchPendedTick, Resumed, AfterResume, Ticks
<1>15. ASSUME NEW t \in Task, FetchYield(t) PROVE SleepInv'
  BY <1>15
  DEF FetchYield, queueVars, taskVars, timeVars, switchVars, callVars
<1>16. CASE UNCHANGED vars
  BY <1>16 DEF vars, queueVars, taskVars, timeVars, switchVars, callVars
<1> QED BY <1>1, <1>2, <1>3, <1>4, <1>5, <1>6, <1>7, <1>8, <1>9, <1>10, <1>11,
           <1>12, <1>13, <1>14, <1>15, <1>16 DEF Next, Fetch

\* The waiting list holds sleepers, each once, after every step.
LEMMA StepListInv == IInv /\ [Next]_vars => ListInv'
<1> SUFFICES ASSUME IInv, [Next]_vars PROVE ListInv'
  OBVIOUS
<1> USE IdleAssumption DEF IInv, KernelTypeOK, CallTypeOK, HoldInv, SleepInv,
           ListInv, Waiters, Asleep, Holding, Runs, Goto
<1>1. CASE SysTick
  <2>1. CASE suspended
    BY <1>1, <2>1 DEF SysTick, taskVars
  <2>2. CASE ~suspended
    <3>1. PICK switch \in BOOLEAN : Ticks(switch) /\ pendReady' = pendReady
      BY <1>1, <2>2, SysTickShape
    <3>2. \A i \in DOMAIN waiting' : waiting'[i] \in Waiters'
      OBVIOUS
    <3>3. pendReady = {}
      BY <2>2
    <3> QED BY <3>1, <3>2, <3>3 DEF Ticks
  <2> QED BY <2>1, <2>2
<1>2. ASSUME NEW t \in Task \cup {Idle}, SwitchContext(t) PROVE ListInv'
  BY <1>2
  DEF SwitchContext, queueVars, taskVars, timeVars, switchVars, callVars
<1>3. CASE PostFromHandler \/ \E t \in Task : Post(t) \/ TryPost(t)
  <2>2. CASE Unheard \/ Noted
    BY <2>2 DEF Unheard, Noted, taskVars
  <2>3. ASSUME NEW S \in SUBSET Task, Heard(S) PROVE ListInv'
    BY <2>3, RousedList DEF Heard
  <2> QED BY <1>3, <2>2, <2>3, PostShape
<1>4. ASSUME NEW t \in Task, Return(t) PROVE ListInv'
  <2>1. waiting' = waiting /\ pc' = pc
    BY <1>4 DEF Return, taskVars, callVars
  <2>2. state[t] = "away" /\ ~Asleep(t)
    BY <1>4 DEF Return
  <2>3. \A i \in DOMAIN waiting : waiting[i] # t /\ waiting[i] \in Task
    BY <2>2
  <2>4. \A u \in Task : u # t => state'[u] = state[u]
    BY <1>4 DEF Return
  <2>5. \A u \in pendReady' : state'[u] # "ready"
    BY <1>4, <2>2 DEF Return
  <2>6. \A i \in DOMAIN waiting : waiting[i] \notin pendReady'
    BY <1>4, <2>3 DEF Return
  <2> QED BY <2>1, <2>3, <2>4, <2>5, <2>6
<1>5. ASSUME NEW t \in Task, GoAway(t) \/ \E w \in Waits : StartFetch(t, w)
      PROVE  ListInv'
  <2>1. waiting' = waiting /\ pendReady' = pendReady
    BY <1>5 DEF GoAway, StartFetch, taskVars
  <2>2. pc[t] = "idle" /\ \A u \in Task : u # t => state'[u] = state[u]
    BY <1>5 DEF GoAway, StartFetch, taskVars
  <2>3. \A i \in DOMAIN waiting : waiting[i] # t /\ waiting[i] \in Task
    BY <2>2
  <2>4. \A u \in pendReady' : state'[u] # "ready"
    BY <1>5 DEF GoAway, StartFetch, taskVars
  <2> QED BY <2>1, <2>2, <2>3, <2>4
<1>6. ASSUME NEW t \in Task, FetchItem(t) \/ FetchNothing(t) PROVE ListInv'
  BY <1>6
  DEF FetchItem, FetchNothing, Leave, queueVars, taskVars, timeVars,
      switchVars, callVars
<1>7. ASSUME NEW t \in Task, FetchWait(t) \/ FetchExpiredAgain(t)
      PROVE  ListInv'
  BY <1>7
  DEF FetchWait, FetchExpiredAgain, Advance, queueVars, taskVars, timeVars,
      switchVars, callVars
<1>8. ASSUME NEW t \in Task, FetchSuspend(t) \/ FetchLock(t) PROVE ListInv'
  BY <1>8
  DEF FetchSuspend, FetchLock, Advance, queueVars, taskVars, timeVars,
      switchVars, callVars
<1>9. ASSUME NEW t \in Task, FetchTimeOut(t) PROVE ListInv'
  BY <1>9
  DEF FetchTimeOut, Advance, queueVars, taskVars, timeVars, switchVars,
      callVars
<1>10. ASSUME NEW t \in Task, FetchIsEmpty(t) PROVE ListInv'
  BY <1>10
  DEF FetchIsEmpty, Advance, queueVars, taskVars, timeVars, switchVars,
      callVars
<1>11. ASSUME NEW t \in Task, FetchPlace(t) PROVE ListInv'
  <2>1. state[t] = "ready"
    BY <1>11 DEF FetchPlace
  <2> QED BY <1>11, <2>1, PlaceList
<1>12. ASSUME NEW t \in Task, FetchUnlock(t) PROVE ListInv'
  <2>1. PICK S \in SUBSET Task : Roused(S)
    BY <1>12, UnlockShape
  <2> QED BY <2>1, RousedList
<1>13. ASSUME NEW t \in Task, FetchResume(t) PROVE ListInv'
  BY <1>13
  DEF FetchResume, Resumed, AfterResume, queueVars, taskVars, timeVars,
      switchVars, callVars
<1>14. ASSUME NEW t \in Task, FetchPendedTick(t) PROVE ListInv'
  <2>1. PICK switch \in BOOLEAN : Ticks(switch)
    BY <1>14, PendedShape
  <2>2. pendReady' = {}
    BY <1>14 DEF FetchPendedTick
  <2>3. \A i \in DOMAIN waiting' : waiting'[i] \in Waiters'
    OBVIOUS
  <2> QED BY <2>1, <2>2, <2>3 DEF Ticks
<1>15. ASSUME NEW t \in Task, FetchYield(t) PROVE ListInv'
  BY <1>15
  DEF FetchYield, queueVars, taskVars, timeVars, switchVars, callVars
<1>16. CASE UNCHANGED vars
  BY <1>16 DEF vars, queueVars, taskVars, timeVars, switchVars, callVars
<1> QED BY <1>1, <1>2, <1>3, <1>4, <1>5, <1>6, <1>7, <1>8, <1>9, <1>10, <1>11,
           <1>12, <1>13, <1>14, <1>15, <1>16 DEF Next, Fetch

\* A step that keeps the list, the items and the lock, and with which nobody
\* leaves.
LEMMA SameWay ==
  ASSUME IInv, UNCHANGED <<count, txLock>>, waiting' \in Seq(Task),
         Waiters' \subseteq Waiters, Fetching \subseteq Fetching',
         \A u \in Task : pc'[u] = "place" => pc[u] = "place"
  PROVE  PostInv'
<1>1. /\ Cardinality(Way) \in Nat /\ Cardinality(Way') \in Nat
      /\ Cardinality(Way') >= Cardinality(Way)
  <2>1. Waiters' \subseteq Waiters \ {}
    OBVIOUS
  <2>2. {} \in SUBSET Task /\ {} \subseteq Waiters /\ Cardinality({}) = 0
    BY FS_EmptySet
  <2>3. /\ Cardinality(Way) \in Nat /\ Cardinality(Way') \in Nat
        /\ Cardinality(Way') >= Cardinality(Way) + Cardinality({})
    BY <2>1, <2>2, WayGrows DEF IInv
  <2> QED BY <2>2, <2>3
<1>2. count \in Nat /\ txLock \in Nat
  BY Counts DEF IInv
<1>3. waiting = <<>> => waiting' = <<>>
  <2>1. waiting \in Seq(Task)
    BY DEF IInv, ListInv
  <2>2. waiting = <<>> => Waiters' = {}
    BY DEF Waiters
  <2>3. Waiters' = {} => waiting' = <<>>
    BY NoneWaits DEF Waiters
  <2> QED BY <2>2, <2>3
<1>4. NoLostWakeup' \/ ~NoLostWakeup
  BY <1>1, <1>2, <1>3 DEF NoLostWakeup, Way
<1> QED BY <1>4 DEF IInv, PostInv

\* No step loses a wake-up.
LEMMA StepPostInv == IInv /\ [Next]_vars => PostInv'
<1> SUFFICES ASSUME IInv, [Next]_vars PROVE PostInv'
  OBVIOUS
<1> USE IdleAssumption DEF IInv, KernelTypeOK, Runs, Goto
<1>1. CASE SysTick
  <2>1. UNCHANGED <<count, txLock, pc>> /\ Fetching' = Fetching
    BY <1>1 DEF SysTick, Fetching, queueVars, callVars
  <2>2. waiting' \in Seq(Task) /\ Waiters' \subseteq Waiters
    <3>1. CASE suspended
      BY <1>1, <3>1 DEF SysTick, taskVars, ListInv, Waiters
    <3>2. CASE ~suspended
      BY <1>1, <3>2, SysTickShape DEF Ticks
    <3> QED BY <3>1, <3>2
  <2> QED BY <2>1, <2>2, SameWay
<1>2. ASSUME NEW t \in Task \cup {Idle}, SwitchContext(t) PROVE PostInv'
  <2>1. UNCHANGED <<count, txLock, waiting>>
    BY <1>2 DEF SwitchContext, queueVars, taskVars
  <2>2. Fetching \subseteq Fetching'
    BY <1>2 DEF SwitchContext, Fetching, CallTypeOK, callVars
  <2>3. \A u \in Task : pc'[u] = "place" => pc[u] = "place"
    BY <1>2 DEF SwitchContext, CallTypeOK, callVars
  <2>4. waiting' \in Seq(Task) /\ Waiters' \subseteq Waiters
    BY <2>1 DEF ListInv, Waiters
  <2> QED BY <2>1, <2>2, <2>3, <2>4, SameWay
<1>3. CASE PostFromHandler \/ \E t \in Task : Post(t) \/ TryPost(t)
  <2>1. pc' = pc /\ Fetching' = Fetching
    BY <1>3, PostShape DEF Fetching, callVars
  <2>2. CASE Unheard /\ count' = count
    BY <2>1, <2>2 DEF Unheard, PostInv, NoLostWakeup, Waiters, taskVars
  <2>3. CASE Noted
    <3>1. count \in Nat /\ txLock \in Nat /\ Cardinality(Way) \in Nat
      BY Counts
    <3>2. waiting' = waiting /\ Way' = Way
      BY <2>1, <2>3 DEF Noted, taskVars, Way, Waiters
    <3>3. \A u \in Task :
            pc'[u] = "place" => count' < txLock' \/ txLock' > NumberOfTasks
      BY <2>1, <2>3, <3>1, Counts DEF Noted, PostInv
    <3>4. NoLostWakeup'
      <4>1. NoLostWakeup
        BY DEF PostInv
      <4>2. /\ txLock > 0 /\ count' = count + 1
            /\ txLock' = IF txLock <= NumberOfTasks THEN txLock + 1 ELSE txLock
        BY <2>3 DEF Noted
      <4>3. Way' = Fetching' \ Waiters'
        BY DEF Way
      <4>4. waiting # <<>> =>
              \/ count <= Cardinality(Way) + (txLock - 1)
              \/ txLock > NumberOfTasks
        BY <4>1, <4>2, Counts DEF NoLostWakeup, Way
      <4>5. waiting # <<>> =>
              \/ count' <= Cardinality(Way') + (txLock' - 1)
              \/ txLock' > NumberOfTasks
        BY <3>2, <4>2, <4>4, Counts
      <4>6. txLock' # 0
        BY <4>2, Counts
      <4> QED BY <3>2, <4>3, <4>5, <4>6 DEF NoLostWakeup
    <3> QED BY <3>3, <3>4 DEF PostInv
  <2>4. ASSUME NEW S \in SUBSET Task, Heard(S) PROVE PostInv'
    <3>1. txLock = 0 /\ txLock' = 0 /\ count' = count + 1 /\ Roused(S)
      BY <2>4 DEF Heard
    <3>2. \A t \in Task : pc[t] # "place"
      BY <3>1, QueueAssumption DEF HoldInv, Holding, Locking
    <3>3. /\ Cardinality(S) \in Nat /\ Cardinality(Way) \in Nat
          /\ Cardinality(Way') \in Nat
          /\ Cardinality(Way') >= Cardinality(Way) + Cardinality(S)
      BY <2>1, <3>1, WayGrows DEF Roused
    <3>4. CASE waiting = <<>>
      <4>1. Waiters' = {} /\ waiting' \in Seq(Task)
        BY <3>1, <3>4 DEF Roused, Waiters
      <4>2. waiting' = <<>>
        BY <4>1, NoneWaits DEF Waiters
      <4> QED BY <2>1, <3>2, <4>2 DEF PostInv, NoLostWakeup
    <3>5. CASE waiting # <<>>
      <4>1. Cardinality(S) = 1 /\ count <= Cardinality(Way) /\ count \in Nat
        BY <2>4, <3>1, <3>5, Counts DEF Heard, PostInv, NoLostWakeup, Way
      <4>2. count' <= Cardinality(Way')
        BY <3>1, <3>3, <4>1
      <4>3. NoLostWakeup'
        <5>1. count' <= Cardinality((Fetching \ Waiters)') + 0 /\ txLock' = 0
          BY <3>1, <3>3, <4>2 DEF Way
        <5> QED BY <5>1 DEF NoLostWakeup
      <4> QED BY <2>1, <3>2, <4>3 DEF PostInv
    <3> QED BY <3>4, <3>5
  <2> QED BY <1>3, <2>2, <2>3, <2>4, PostShape
<1>4. ASSUME NEW t \in Task, Return(t) PROVE PostInv'
  <2>1. UNCHANGED <<count, txLock, waiting>>
    BY <1>4 DEF Return, queueVars, taskVars
  <2>2. Fetching \subseteq Fetching'
    BY <1>4 DEF Return, Fetching, CallTypeOK, callVars
  <2>3. \A u \in Task : pc'[u] = "place" => pc[u] = "place"
    BY <1>4 DEF Return, CallTypeOK, callVars
  <2>4. waiting' \in Seq(Task) /\ Waiters' \subseteq Waiters
    BY <2>1 DEF ListInv, Waiters
  <2> QED BY <2>1, <2>2, <2>3, <2>4, SameWay
<1>5. ASSUME NEW t \in Task, GoAway(t) \/ \E w \in Waits : StartFetch(t, w)
      PROVE  PostInv'
  <2>1. UNCHANGED <<count, txLock, waiting>>
    BY <1>5 DEF GoAway, StartFetch, queueVars, taskVars
  <2>2. Fetching \subseteq Fetching'
    BY <1>5 DEF GoAway, StartFetch, Fetching, CallTypeOK, callVars
  <2>3. \A u \in Task : pc'[u] = "place" => pc[u] = "place"
    BY <1>5 DEF GoAway, StartFetch, CallTypeOK, callVars
  <2>4. waiting' \in Seq(Task) /\ Waiters' \subseteq Waiters
    BY <2>1 DEF ListInv, Waiters
  <2> QED BY <2>1, <2>2, <2>3, <2>4, SameWay
<1>6. ASSUME NEW t \in Task, FetchItem(t) \/ FetchNothing(t) PROVE PostInv'
  <2>1. /\ Leave(t) /\ Runs(t, pc[t]) /\ pc[t] \in {"check", "expired"}
        /\ txLock' = txLock
        /\ (count' = count - 1 \/ (count = 0 /\ count' = 0))
    BY <1>6 DEF FetchItem, FetchNothing, queueVars
  <2>2. Waiters' = Waiters /\ Fetching' = Fetching \ {t} /\ waiting' = waiting
    BY <2>1 DEF Leave, Fetching, Waiters, CallTypeOK
  <2>3. Way' = Way \ {t}
    BY <2>2 DEF Way
  <2>4. /\ Cardinality(Way) \in Nat /\ Cardinality(Way') \in Nat
        /\ Cardinality(Way') >= Cardinality(Way) - 1
    <3>1. /\ IsFiniteSet(Way \ {t})
          /\ Cardinality(Way \ {t}) =
               IF t \in Way THEN Cardinality(Way) - 1 ELSE Cardinality(Way)
      BY WayType, FS_RemoveElement
    <3>2. Cardinality(Way \ {t}) \in Nat
      BY <3>1, FS_CardinalityType
    <3> QED BY <2>3, <3>1, <3>2, WayType
  <2>5. \A u \in Task : pc'[u] # "place"
    BY <2>1 DEF Leave, HoldInv, Holding, CallTypeOK
  <2>6. count \in Nat /\ txLock \in Nat
    BY Counts
  <2>7. NoLostWakeup'
    BY <2>1, <2>2, <2>4, <2>6 DEF PostInv, NoLostWakeup, Way
  <2> QED BY <2>5, <2>7 DEF PostInv
<1>7. ASSUME NEW t \in Task, FetchWait(t) \/ FetchExpiredAgain(t)
      PROVE  PostInv'
  <2>1. UNCHANGED <<count, txLock, waiting>>
    BY <1>7 DEF FetchWait, FetchExpiredAgain, Advance, queueVars, taskVars
  <2>2. Fetching \subseteq Fetching'
    BY <1>7 DEF FetchWait, FetchExpiredAgain, Advance, Fetching, CallTypeOK,
       callVars
  <2>3. \A u \in Task : pc'[u] = "place" => pc[u] = "place"
    BY <1>7 DEF FetchWait, FetchExpiredAgain, Advance, CallTypeOK, callVars
  <2>4. waiting' \in Seq(Task) /\ Waiters' \subseteq Waiters
    BY <2>1 DEF ListInv, Waiters
  <2> QED BY <2>1, <2>2, <2>3, <2>4, SameWay
<1>8. ASSUME NEW t \in Task, FetchSuspend(t) \/ FetchLock(t) PROVE PostInv'
  <2>1. UNCHANGED <<count, waiting>> /\ Fetching \subseteq Fetching'
    BY <1>8 DEF FetchSuspend, FetchLock, Advance, queueVars, taskVars,
       Fetching, CallTypeOK
  <2>2. txLock' = txLock \/ (txLock = 0 /\ txLock' = 1)
    BY <1>8 DEF FetchSuspend, FetchLock
  <2>3. \A u \in Task : pc'[u] # "place"
    BY <1>8 DEF FetchSuspend, FetchLock, Advance, HoldInv, Holding, CallTypeOK
  <2>4. CASE txLock' = txLock
    BY <2>1, <2>3, <2>4, SameWay DEF Waiters, ListInv
  <2>5. CASE txLock = 0 /\ txLock' = 1
    <3>1. Fetching' = Fetching /\ Waiters' = Waiters
      BY <1>8, <2>1 DEF FetchSuspend, FetchLock, Advance, Fetching, Waiters,
          CallTypeOK
    <3>2. NoLostWakeup'
      BY <2>1, <2>5, <3>1, Counts DEF PostInv, NoLostWakeup
    <3> QED BY <2>3, <3>2 DEF PostInv
  <2> QED BY <2>2, <2>4, <2>5
<1>9. ASSUME NEW t \in Task, FetchTimeOut(t) PROVE PostInv'
  <2>1. UNCHANGED <<count, txLock, waiting>>
    BY <1>9 DEF FetchTimeOut, Advance, queueVars, taskVars
  <2>2. Fetching \subseteq Fetching'
    BY <1>9 DEF FetchTimeOut, Advance, Fetching, CallTypeOK, callVars
  <2>3. \A u \in Task : pc'[u] = "place" => pc[u] = "place"
    BY <1>9 DEF FetchTimeOut, Advance, CallTypeOK, callVars
  <2>4. waiting' \in Seq(Task) /\ Waiters' \subseteq Waiters
    BY <2>1 DEF ListInv, Waiters
  <2> QED BY <2>1, <2>2, <2>3, <2>4, SameWay
<1>10. ASSUME NEW t \in Task, FetchIsEmpty(t) PROVE PostInv'
  <2>1. UNCHANGED <<count, txLock, waiting>> /\ Fetching' = Fetching
    BY <1>10 DEF FetchIsEmpty, Advance, queueVars, taskVars, Fetching,
       CallTypeOK
  <2>2. \A u \in Task : pc'[u] = "place" => pc[u] = "place" \/ count = 0
    BY <1>10 DEF FetchIsEmpty, Advance, CallTypeOK
  <2>3. txLock > 0
    BY <1>10 DEF FetchIsEmpty, HoldInv, Locking
  <2> QED BY <2>1, <2>2, <2>3, QueueAssumption
      DEF PostInv, NoLostWakeup, Waiters
<1>11. ASSUME NEW t \in Task, FetchPlace(t) PROVE PostInv'
  <2>1. UNCHANGED <<count, txLock>>
    BY <1>11 DEF FetchPlace, queueVars
  <2>2. count < txLock \/ txLock > NumberOfTasks
    BY <1>11 DEF FetchPlace, PostInv
  <2>3. Cardinality(Way') \in Nat
    <3>1. Way' \in SUBSET Task
      BY DEF Way, Fetching
    <3> QED BY <3>1, TasksCounted, FS_Subset, FS_CardinalityType
  <2>4. \A u \in Task : pc'[u] = "place" => pc[u] = "place"
    BY <1>11 DEF FetchPlace, CallTypeOK
  <2>5. NoLostWakeup'
    BY <2>1, <2>2, <2>3, Counts DEF NoLostWakeup, Way
  <2> QED BY <2>1, <2>4, <2>5 DEF PostInv
<1>12. ASSUME NEW t \in Task, FetchUnlock(t) PROVE PostInv'
  <2>1. PICK S \in SUBSET Task :
          /\ Roused(S) /\ IsFiniteSet(S)
          /\ waiting' = <<>> \/ Cardinality(S) = txLock - 1
    BY <1>12, UnlockShape
  <2>2. count' = count /\ txLock' = 0 /\ Fetching' = Fetching
    BY <1>12 DEF FetchUnlock, queueVars, Fetching, CallTypeOK
  <2>3. \A u \in Task : pc'[u] # "place"
    BY <1>12 DEF FetchUnlock, HoldInv, Holding, CallTypeOK
  <2>4. /\ Cardinality(S) \in Nat /\ Cardinality(Way) \in Nat
        /\ Cardinality(Way') \in Nat
        /\ Cardinality(Way') >= Cardinality(Way) + Cardinality(S)
    BY <2>1, <2>2, WayGrows DEF Roused
  <2>5. txLock > 0 /\ txLock \in Nat /\ count \in Nat
    BY <1>12, Counts DEF FetchUnlock, HoldInv, Locking
  <2>6. CASE waiting' = <<>>
    BY <2>3, <2>6 DEF PostInv, NoLostWakeup
  <2>7. CASE waiting' # <<>>
    <3>1. Cardinality(S) = txLock - 1
      BY <2>1, <2>7
    <3>2. txLock <= NumberOfTasks
      <4>1. SUFFICES ASSUME txLock > NumberOfTasks PROVE FALSE
        BY <2>5, QueueAssumption
      <4>2. Cardinality(S) >= Cardinality(Task) /\ Cardinality(Task) \in Nat
        BY <2>5, <3>1, <4>1, TasksCounted, QueueAssumption, FS_CardinalityType
      <4>3. Cardinality(S) <= Cardinality(Task)
        BY TasksCounted, FS_Subset
      <4>4. Cardinality(S) = Cardinality(Task)
        BY <2>4, <4>2, <4>3
      <4>5. S = Task
        BY <4>4, TasksCounted, FS_Subset
      <4>6. Waiters' = {} /\ waiting' \in Seq(Task)
        BY <2>1, <4>5 DEF Roused, Waiters, ListInv
      <4> QED BY <2>7, <4>6, NoneWaits DEF Waiters
    <3>3. waiting # <<>>
      <4>1. waiting = <<>> => Waiters' = {}
        BY <2>1 DEF Roused, Waiters
      <4> QED BY <2>1, <2>7, <4>1, NoneWaits DEF Roused, Waiters
    <3>4. count <= Cardinality(Way) + (txLock - 1)
      BY <2>5, <3>2, <3>3, QueueAssumption DEF PostInv, NoLostWakeup, Way
    <3>5. count' <= Cardinality(Way')
      BY <2>2, <2>4, <2>5, <3>1, <3>4
    <3>6. NoLostWakeup'
      <4>1. count' <= Cardinality((Fetching \ Waiters)') + 0 /\ txLock' = 0
        BY <2>2, <2>4, <3>5 DEF Way
      <4> QED BY <4>1 DEF NoLostWakeup
    <3> QED BY <2>3, <3>6 DEF PostInv
  <2> QED BY <2>6, <2>7
<1>13. ASSUME NEW t \in Task, FetchResume(t) PROVE PostInv'
  <2>1. UNCHANGED <<count, txLock, waiting>>
    BY <1>13 DEF FetchResume, Resumed, AfterResume, queueVars, taskVars
  <2>2. Fetching \subseteq Fetching'
    BY <1>13 DEF FetchResume, Resumed, AfterResume, Fetching, CallTypeOK,
       callVars
  <2>3. \A u \in Task : pc'[u] = "place" => pc[u] = "place"
    BY <1>13 DEF FetchResume, Resumed, AfterResume, CallTypeOK, callVars
  <2>4. waiting' \in Seq(Task) /\ Waiters' \subseteq Waiters
    BY <2>1 DEF ListInv, Waiters
  <2> QED BY <2>1, <2>2, <2>3, <2>4, SameWay
<1>14. ASSUME NEW t \in Task, FetchPendedTick(t) PROVE PostInv'
  <2>1. UNCHANGED <<count, txLock>> /\ Fetching \subseteq Fetching'
    BY <1>14 DEF FetchPendedTick, Resumed, AfterResume, Fetching, CallTypeOK,
       queueVars
  <2>2. \A u \in Task : pc'[u] = "place" => pc[u] = "place"
    BY <1>14 DEF FetchPendedTick, Resumed, AfterResume, CallTypeOK
  <2>3. waiting' \in Seq(Task) /\ Waiters' \subseteq Waiters
    BY <1>14, PendedShape DEF Ticks
  <2> QED BY <2>1, <2>2, <2>3, SameWay
<1>15. ASSUME NEW t \in Task, FetchYield(t) PROVE PostInv'
  <2>1. UNCHANGED <<count, txLock, waiting>>
    BY <1>15 DEF FetchYield, queueVars, taskVars
  <2>2. Fetching \subseteq Fetching'
    BY <1>15 DEF FetchYield, Fetching, CallTypeOK, callVars
  <2>3. \A u \in Task : pc'[u] = "place" => pc[u] = "place"
    BY <1>15 DEF FetchYield, CallTypeOK, callVars
  <2>4. waiting' \in Seq(Task) /\ Waiters' \subseteq Waiters
    BY <2>1 DEF ListInv, Waiters
  <2> QED BY <2>1, <2>2, <2>3, <2>4, SameWay
<1>16. CASE UNCHANGED vars
  <2>1. UNCHANGED <<count, txLock, waiting>>
    BY <1>16 DEF vars, queueVars, taskVars
  <2>2. Fetching \subseteq Fetching'
    BY <1>16 DEF vars, Fetching, CallTypeOK, callVars
  <2>3. \A u \in Task : pc'[u] = "place" => pc[u] = "place"
    BY <1>16 DEF vars, CallTypeOK, callVars
  <2>4. waiting' \in Seq(Task) /\ Waiters' \subseteq Waiters
    BY <2>1 DEF ListInv, Waiters
  <2> QED BY <2>1, <2>2, <2>3, <2>4, SameWay
<1> QED BY <1>1, <1>2, <1>3, <1>4, <1>5, <1>6, <1>7, <1>8, <1>9, <1>10, <1>11,
           <1>12, <1>13, <1>14, <1>15, <1>16 DEF Next, Fetch

\* A step that makes no task ready and loses no request for a switch.
LEMMA SameRank ==
  ASSUME IInv, cur' = cur, prio' = prio, pendSV => pendSV',
         \A t \in Task : state'[t] = "ready" => state[t] = "ready",
         cur \in Task /\ pc[cur] = "yield" => pc'[cur] = "yield" \/ pendSV',
         yieldPending /\ (suspended \/ Masked)
           => pendSV' \/ (yieldPending' /\ (suspended' \/ Masked'))
  PROVE  RankInv'
BY DEF IInv, RankInv, PrioOf

\* A step that makes tasks ready that do not outrank the running one, or
\* requests a switch.
LEMMA MoreReady ==
  ASSUME IInv, UNCHANGED <<cur, prio>>, pendSV => pendSV',
         cur \in Task => pc[cur] # "yield" \/ pc'[cur] = "yield",
         NEW S \in SUBSET Task,
         \A t \in Task : state'[t] = "ready" => state[t] = "ready" \/ t \in S,
         \/ pendSV'
         \/ yieldPending' /\ (suspended' \/ Masked')
         \/ ~Outrank(S) /\ ~(yieldPending /\ (suspended \/ Masked))
  PROVE  RankInv'
<1>1. PrioOf(cur)' = PrioOf(cur)
  BY DEF PrioOf
<1> QED BY <1>1, NotOutranked DEF IInv, RankInv

\* No step forgets that a switch is to come.
LEMMA StepRankInv == IInv /\ [Next]_vars => RankInv'
<1> SUFFICES ASSUME IInv, [Next]_vars PROVE RankInv'
  OBVIOUS
<1> USE IdleAssumption DEF IInv, CallTypeOK, Runs, Goto
<1>1. CASE SysTick
  <2>1. ~Masked /\ UNCHANGED <<cur, prio, pc, yieldPending, suspended>>
    BY <1>1 DEF SysTick, callVars
  <2>2. CASE suspended
    BY <1>1, <2>1, <2>2, SameRank DEF SysTick, taskVars
  <2>3. CASE ~suspended
    <3>1. PICK switch \in BOOLEAN : Ticks(switch)
            /\ pendSV' = (pendSV \/ switch)
      BY <1>1, <2>3, SysTickShape
    <3> DEFINE S == {u \in Task : state'[u] = "ready" /\ state[u] # "ready"}
    <3>2. Outrank(S) => switch
      BY <3>1, Ranks DEF Ticks, Outrank
    <3>3. /\ S \in SUBSET Task
          /\ \A u \in Task : state'[u] = "ready" => state[u] = "ready"
               \/ u \in S
      OBVIOUS
    <3> HIDE DEF S, CallTypeOK
    <3> QED BY <2>1, <2>3, <3>1, <3>2, <3>3, MoreReady
  <2> QED BY <2>2, <2>3
<1>2. ASSUME NEW t \in Task \cup {Idle}, SwitchContext(t) PROVE RankInv'
  <2>1. CASE suspended
    BY <1>2, <2>1, <1>2 DEF SwitchContext, RankInv
  <2>2. CASE ~suspended
    <3>1. PrioOf(cur)' = PrioOf(t)
      BY <1>2, <2>2 DEF SwitchContext, PrioOf
    <3> QED BY <1>2, <2>2, <3>1 DEF SwitchContext, RankInv, taskVars
  <2> QED BY <2>1, <2>2
<1>3. CASE PostFromHandler \/ \E t \in Task : Post(t) \/ TryPost(t)
  <2>1. UNCHANGED <<suspended, prio, pc>>
    BY <1>3, PostShape DEF callVars
  <2>2. CASE Unheard \/ Noted
    BY <2>1, <2>2, SameRank DEF Unheard, Noted, taskVars, switchVars, Masked
  <2>3. ASSUME NEW S \in SUBSET Task, Heard(S) PROVE RankInv'
    <3>1. CASE suspended
      BY <2>1, <2>3, <3>1, SameRank DEF Heard, Roused, Masked
    <3>2. CASE ~suspended
      <4>1. \A t \in Task : state'[t] = "ready" => state[t] = "ready"
              \/ t \in S
        BY <2>3, <3>2 DEF Heard, Roused
      <4>2. Masked' = Masked
        BY <2>1 DEF Masked
      <4>3. /\ pendSV' = (pendSV \/ Outrank(S)) /\ cur' = cur
            /\ yieldPending' = (yieldPending \/ Outrank(S))
        BY <2>3 DEF Heard, Roused
      <4> HIDE DEF CallTypeOK
      <4> QED BY <2>1, <4>1, <4>2, <4>3, MoreReady
    <3> QED BY <3>1, <3>2
  <2> QED BY <1>3, <2>2, <2>3, PostShape
<1>4. ASSUME NEW t \in Task, Return(t) PROVE RankInv'
  <2>1. /\ pendSV' = (pendSV \/ Outrank({t})) /\ cur' = cur /\ prio' = prio
        /\ yieldPending' = (yieldPending \/ Outrank({t})) /\ pc' = pc
        /\ suspended' = suspended /\ Masked' = Masked
    BY <1>4 DEF Return, callVars, Masked
  <2>2. \A u \in Task : state'[u] = "ready" => state[u] = "ready" \/ u \in {t}
    BY <1>4 DEF Return
  <2> HIDE DEF CallTypeOK
  <2> QED BY <2>1, <2>2, MoreReady
<1>5. ASSUME NEW t \in Task, GoAway(t) \/ \E w \in Waits : StartFetch(t, w)
      PROVE  RankInv'
  <2>1. UNCHANGED <<cur, prio, yieldPending, suspended>> /\ cur = t
          /\ pc[t] = "idle"
    BY <1>5 DEF GoAway, StartFetch, switchVars
  <2>2. /\ pendSV => pendSV'
        /\ \A u \in Task : state'[u] = "ready" => state[u] = "ready"
        /\ \A u \in Task : u # t => pc'[u] = pc[u]
    BY <1>5 DEF GoAway, StartFetch, switchVars, taskVars, callVars
  <2> QED BY <2>1, <2>2, SameRank DEF Masked
<1>6. ASSUME NEW t \in Task, FetchItem(t) \/ FetchNothing(t) PROVE RankInv'
  <2>1. UNCHANGED <<cur, prio, pendSV, yieldPending, suspended, state>>
    BY <1>6 DEF FetchItem, FetchNothing, Leave, switchVars, taskVars
  <2>2. \A u \in Task : u # t => pc'[u] = pc[u]
    BY <1>6 DEF FetchItem, FetchNothing, Leave
  <2>3. cur = t /\ pc[t] # "yield" /\ pc[t] # "pended"
    BY <1>6 DEF FetchItem, FetchNothing, Leave
  <2> QED BY <2>1, <2>2, <2>3, SameRank DEF Masked
<1>7. ASSUME NEW t \in Task, FetchWait(t) \/ FetchExpiredAgain(t)
      PROVE  RankInv'
  <2>1. UNCHANGED <<cur, prio, pendSV, yieldPending, suspended, state>>
    BY <1>7 DEF FetchWait, FetchExpiredAgain, Advance, switchVars, taskVars
  <2>2. \A u \in Task : u # t => pc'[u] = pc[u]
    BY <1>7 DEF FetchWait, FetchExpiredAgain, Advance
  <2>3. cur = t /\ pc[t] # "yield" /\ pc[t] # "pended"
    BY <1>7 DEF FetchWait, FetchExpiredAgain, Advance
  <2> QED BY <2>1, <2>2, <2>3, SameRank DEF Masked
<1>8. ASSUME NEW t \in Task, FetchSuspend(t) \/ FetchLock(t) PROVE RankInv'
  <2>1. UNCHANGED <<cur, prio, pendSV, yieldPending, state>>
        /\ (suspended => suspended')
    BY <1>8 DEF FetchSuspend, FetchLock, Advance, switchVars, taskVars
  <2>2. \A u \in Task : u # t => pc'[u] = pc[u]
    BY <1>8 DEF FetchSuspend, FetchLock, Advance
  <2>3. cur = t /\ pc[t] # "yield" /\ pc[t] # "pended"
    BY <1>8 DEF FetchSuspend, FetchLock
  <2> QED BY <2>1, <2>2, <2>3, SameRank DEF Masked
<1>9. ASSUME NEW t \in Task, FetchTimeOut(t) PROVE RankInv'
  <2>1. UNCHANGED <<cur, prio, pendSV, yieldPending, suspended, state>>
    BY <1>9 DEF FetchTimeOut, Advance, switchVars, taskVars
  <2>2. \A u \in Task : u # t => pc'[u] = pc[u]
    BY <1>9 DEF FetchTimeOut, Advance
  <2>3. cur = t /\ pc[t] # "yield" /\ pc[t] # "pended"
    BY <1>9 DEF FetchTimeOut, Advance
  <2> QED BY <2>1, <2>2, <2>3, SameRank DEF Masked
<1>10. ASSUME NEW t \in Task, FetchIsEmpty(t) PROVE RankInv'
  <2>1. UNCHANGED <<cur, prio, pendSV, yieldPending, suspended, state>>
    BY <1>10 DEF FetchIsEmpty, Advance, switchVars, taskVars
  <2>2. \A u \in Task : u # t => pc'[u] = pc[u]
    BY <1>10 DEF FetchIsEmpty, Advance
  <2>3. cur = t /\ pc[t] # "yield" /\ pc[t] # "pended"
    BY <1>10 DEF FetchIsEmpty, Advance
  <2> QED BY <2>1, <2>2, <2>3, SameRank DEF Masked
<1>11. ASSUME NEW t \in Task, FetchPlace(t) PROVE RankInv'
  <2>1. UNCHANGED <<cur, prio, pendSV, yieldPending, suspended>>
        /\ cur = t /\ pc[t] = "place"
    BY <1>11 DEF FetchPlace, switchVars
  <2>2. \A u \in Task : state'[u] = "ready" => state[u] = "ready"
    BY <1>11 DEF FetchPlace, DelayedList
  <2>3. \A u \in Task : u # t => pc'[u] = pc[u]
    BY <1>11 DEF FetchPlace
  <2> QED BY <2>1, <2>2, <2>3, SameRank DEF Masked
<1>12. ASSUME NEW t \in Task, FetchUnlock(t) PROVE RankInv'
  <2>1. PICK S \in SUBSET Task : Roused(S)
    BY <1>12, UnlockShape
  <2>2. UNCHANGED <<cur, prio, pendSV, suspended>> /\ cur = t
          /\ pc[t] = "unlock"
    BY <1>12 DEF FetchUnlock
  <2>3. \A u \in Task : u # t => pc'[u] = pc[u]
    BY <1>12 DEF FetchUnlock
  <2>4. suspended
    BY <2>2 DEF HoldInv, Holding
  <2>5. state' = state /\ (yieldPending => yieldPending')
    BY <2>1, <2>4 DEF Roused
  <2> QED BY <2>2, <2>3, <2>5, SameRank DEF Masked
<1>13. ASSUME NEW t \in Task, FetchResume(t) PROVE RankInv'
  <2> DEFINE yield == yieldPending \/ Outrank(pendReady)
  <2>1. /\ UNCHANGED <<cur, prio>> /\ cur = t /\ pc[t] = "resume"
        /\ yieldPending' = yield
        /\ \/ pc'[t] = "pended" /\ pendSV' = pendSV
           \/ pendSV' = (pendSV \/ yield)
    BY <1>13 DEF FetchResume, Resumed
  <2>2. \A u \in Task : state'[u] = "ready" => state[u] = "ready"
          \/ u \in pendReady
    BY <1>13 DEF FetchResume
  <2>3. pendReady \in SUBSET Task
    BY DEF KernelTypeOK
  <2>4. pc'[t] = "pended" => Masked'
    BY DEF Masked
  <2> HIDE DEF CallTypeOK
  <2>5. UNCHANGED <<cur, prio>> /\ (pendSV => pendSV')
    BY <2>1 DEF KernelTypeOK
  <2>6. cur \in Task => pc[cur] # "yield"
    BY <2>1
  <2>7. \/ pendSV'
        \/ yieldPending' /\ (suspended' \/ Masked')
        \/ ~Outrank(pendReady) /\ ~(yieldPending /\ (suspended \/ Masked))
    BY <2>1, <2>4
  <2> QED BY <2>2, <2>3, <2>5, <2>6, <2>7, MoreReady
<1>14. ASSUME NEW t \in Task, FetchPendedTick(t) PROVE RankInv'
  <2>1. PICK switch \in BOOLEAN :
          Ticks(switch) /\ yieldPending' = (yieldPending \/ switch)
    BY <1>14, PendedShape
  <2> DEFINE S == {u \in Task : state'[u] = "ready" /\ state[u] # "ready"}
  <2>2. Outrank(S) => switch
    BY <2>1, Ranks DEF Ticks, Outrank
  <2>3. /\ UNCHANGED <<cur, prio>> /\ cur = t /\ pc[t] = "pended"
        /\ \/ pc'[t] = "pended" /\ pendSV' = pendSV
           \/ pendSV' = (pendSV \/ yieldPending')
    BY <1>14 DEF FetchPendedTick, Resumed
  <2>4. pc'[t] = "pended" => Masked'
    BY DEF Masked
  <2>5. \A u \in Task : state'[u] = "ready" => state[u] = "ready" \/ u \in S
    OBVIOUS
  <2>6. S \in SUBSET Task
    OBVIOUS
  <2> HIDE DEF CallTypeOK, S
  <2>7. UNCHANGED <<cur, prio>> /\ (pendSV => pendSV')
    BY <2>3 DEF KernelTypeOK
  <2>8. cur \in Task => pc[cur] # "yield"
    BY <2>3
  <2>9. \/ pendSV'
        \/ yieldPending' /\ (suspended' \/ Masked')
        \/ ~Outrank(S) /\ ~(yieldPending /\ (suspended \/ Masked))
    BY <2>1, <2>2, <2>3, <2>4
  <2> QED BY <2>5, <2>6, <2>7, <2>8, <2>9, MoreReady
<1>15. ASSUME NEW t \in Task, FetchYield(t) PROVE RankInv'
  BY <1>15
  DEF FetchYield, queueVars, taskVars, timeVars, switchVars, callVars, RankInv
<1>16. CASE UNCHANGED vars
  <2>1. UNCHANGED <<cur, prio, pendSV, yieldPending, suspended, state, pc>>
    BY <1>16 DEF vars, switchVars, taskVars, callVars
  <2> QED BY <2>1, SameRank DEF Masked
<1> QED BY <1>1, <1>2, <1>3, <1>4, <1>5, <1>6, <1>7, <1>8, <1>9, <1>10, <1>11,
           <1>12, <1>13, <1>14, <1>15, <1>16 DEF Next, Fetch

\* A step that at most makes some tasks ready.
LEMMA SameAhead ==
  ASSUME DelayedAreAhead, UNCHANGED <<tick, nextUnblock>>,
         \A u \in Task : \/ state'[u] \in {"ready", "away"}
                         \/ state'[u] = state[u] /\ wake'[u] = wake[u]
  PROVE  DelayedAreAhead'
BY DEF DelayedAreAhead

\* Who is delayed wakes later, after every step.
LEMMA StepDelayedAreAhead == IInv /\ [Next]_vars => DelayedAreAhead'
<1> SUFFICES ASSUME IInv, [Next]_vars PROVE DelayedAreAhead'
  OBVIOUS
<1> USE IdleAssumption DEF IInv, CallTypeOK, Runs, Goto
<1>1. CASE SysTick
  <2>1. CASE suspended
    BY <1>1, <2>1, SameAhead DEF SysTick, taskVars
  <2>2. CASE ~suspended
    BY <1>1, <2>2, SysTickShape DEF Ticks, DelayedAreAhead
  <2> QED BY <2>1, <2>2
<1>2. ASSUME NEW t \in Task \cup {Idle}, SwitchContext(t)
      PROVE  DelayedAreAhead'
  <2>1. UNCHANGED <<tick, nextUnblock>>
    BY <1>2 DEF SwitchContext, timeVars
  <2>2. \A u \in Task : \/ state'[u] \in {"ready", "away"}
                        \/ state'[u] = state[u] /\ wake'[u] = wake[u]
    BY <1>2 DEF SwitchContext, taskVars
  <2> QED BY <2>1, <2>2, SameAhead
<1>3. CASE PostFromHandler \/ \E t \in Task : Post(t) \/ TryPost(t)
  <2>1. UNCHANGED <<tick, nextUnblock>>
    BY <1>3, PostShape DEF timeVars
  <2>2. CASE Unheard \/ Noted
    BY <2>1, <2>2, SameAhead DEF Unheard, Noted, taskVars
  <2>3. ASSUME NEW S \in SUBSET Task, Heard(S) PROVE DelayedAreAhead'
    BY <2>1, <2>3, SameAhead DEF Heard, Roused
  <2> QED BY <1>3, <2>2, <2>3, PostShape
<1>4. ASSUME NEW t \in Task, Return(t) PROVE DelayedAreAhead'
  <2>1. UNCHANGED <<tick, nextUnblock>>
    BY <1>4 DEF Return, timeVars
  <2>2. \A u \in Task : \/ state'[u] \in {"ready", "away"}
                        \/ state'[u] = state[u] /\ wake'[u] = wake[u]
    BY <1>4 DEF Return, taskVars
  <2> QED BY <2>1, <2>2, SameAhead
<1>5. ASSUME NEW t \in Task, GoAway(t) \/ \E w \in Waits : StartFetch(t, w)
      PROVE  DelayedAreAhead'
  <2>1. UNCHANGED <<tick, nextUnblock>>
    BY <1>5 DEF GoAway, StartFetch, timeVars
  <2>2. \A u \in Task : \/ state'[u] \in {"ready", "away"}
                        \/ state'[u] = state[u] /\ wake'[u] = wake[u]
    BY <1>5 DEF GoAway, StartFetch, taskVars
  <2> QED BY <2>1, <2>2, SameAhead
<1>6. ASSUME NEW t \in Task, FetchItem(t) \/ FetchNothing(t)
      PROVE  DelayedAreAhead'
  <2>1. UNCHANGED <<tick, nextUnblock, state>>
    BY <1>6 DEF FetchItem, FetchNothing, Leave, timeVars
  <2>2. \A u \in Task : u # t => wake'[u] = wake[u]
    BY <1>6 DEF FetchItem, FetchNothing, Leave
  <2>3. state[t] = "ready"
    BY <1>6 DEF FetchItem, FetchNothing, SleepInv
  <2> QED BY <2>1, <2>2, <2>3, SameAhead
<1>7. ASSUME NEW t \in Task, FetchWait(t) \/ FetchExpiredAgain(t)
      PROVE  DelayedAreAhead'
  <2>1. UNCHANGED <<tick, nextUnblock>>
    BY <1>7 DEF FetchWait, FetchExpiredAgain, Advance, timeVars
  <2>2. \A u \in Task : \/ state'[u] \in {"ready", "away"}
                        \/ state'[u] = state[u] /\ wake'[u] = wake[u]
    BY <1>7 DEF FetchWait, FetchExpiredAgain, Advance, taskVars
  <2> QED BY <2>1, <2>2, SameAhead
<1>8. ASSUME NEW t \in Task, FetchSuspend(t) \/ FetchLock(t)
      PROVE  DelayedAreAhead'
  <2>1. UNCHANGED <<tick, nextUnblock>>
    BY <1>8 DEF FetchSuspend, FetchLock, Advance, timeVars
  <2>2. \A u \in Task : \/ state'[u] \in {"ready", "away"}
                        \/ state'[u] = state[u] /\ wake'[u] = wake[u]
    BY <1>8 DEF FetchSuspend, FetchLock, Advance, taskVars
  <2> QED BY <2>1, <2>2, SameAhead
<1>9. ASSUME NEW t \in Task, FetchTimeOut(t) PROVE DelayedAreAhead'
  <2>1. UNCHANGED <<tick, nextUnblock>>
    BY <1>9 DEF FetchTimeOut, Advance, timeVars
  <2>2. \A u \in Task : \/ state'[u] \in {"ready", "away"}
                        \/ state'[u] = state[u] /\ wake'[u] = wake[u]
    BY <1>9 DEF FetchTimeOut, Advance, taskVars
  <2> QED BY <2>1, <2>2, SameAhead
<1>10. ASSUME NEW t \in Task, FetchIsEmpty(t) PROVE DelayedAreAhead'
  <2>1. UNCHANGED <<tick, nextUnblock>>
    BY <1>10 DEF FetchIsEmpty, Advance, timeVars
  <2>2. \A u \in Task : \/ state'[u] \in {"ready", "away"}
                        \/ state'[u] = state[u] /\ wake'[u] = wake[u]
    BY <1>10 DEF FetchIsEmpty, Advance, taskVars
  <2> QED BY <2>1, <2>2, SameAhead
<1>11. ASSUME NEW t \in Task, FetchPlace(t) PROVE DelayedAreAhead'
  <2> DEFINE due == (tick + ticks[t]) % TickMod
             list == DelayedList(t, due)
  <2>1. /\ state' = [state EXCEPT ![t] = list] /\ tick' = tick
        /\ wake' = [wake EXCEPT ![t] = IF list = "forever" THEN @ ELSE due]
        /\ nextUnblock' = NextUnblock(list, due) /\ pc[t] = "place"
    BY <1>11 DEF FetchPlace
  <2>2. ticks[t] # 0 /\ ticks[t] \in Tick /\ tick \in Tick
          /\ nextUnblock \in Tick
    BY <2>1 DEF LeftInv, LeftOf, Setting, KernelTypeOK
  <2>3. due \in Nat /\ (IF tick + ticks[t] < TickMod THEN due = tick + ticks[t]
                        ELSE due = (tick + ticks[t]) - TickMod)
    BY <2>2, AddTicks
  <2>4. due > tick \/ due < tick
    BY <2>2, <2>3, QueueAssumption DEF Tick
  <2> HIDE DEF due
  <2>5. /\ list = "delayed" => due > tick
        /\ list = "overflow" => due < tick
        /\ list \in {"delayed", "overflow", "forever"}
    BY <2>2, <2>3, <2>4 DEF DelayedList, Tick
  <2>6. nextUnblock' \in Nat /\ nextUnblock' <= nextUnblock
        /\ (list = "delayed" => nextUnblock' <= due)
    BY <2>1, <2>2, <2>3 DEF NextUnblock, Tick
  <2> HIDE DEF list
  <2>7. ASSUME NEW u \in Task
        PROVE  /\ state'[u] = "delayed" => wake'[u] > tick'
                    /\ nextUnblock' <= wake'[u]
               /\ state'[u] = "overflow" => wake'[u] < tick'
    <3>1. CASE u = t
      BY <2>1, <2>5, <2>6, <3>1
    <3>2. CASE u # t
      <4>1. state'[u] = state[u] /\ wake'[u] = wake[u] /\ wake[u] \in Nat
        BY <2>1, <3>2 DEF Tick
      <4> QED BY <2>1, <2>2, <2>6, <4>1 DEF DelayedAreAhead, Tick
    <3> QED BY <3>1, <3>2
  <2> QED BY <2>7 DEF DelayedAreAhead
<1>12. ASSUME NEW t \in Task, FetchUnlock(t) PROVE DelayedAreAhead'
  <2>1. PICK S \in SUBSET Task : Roused(S)
    BY <1>12, UnlockShape
  <2> QED BY <1>12, <2>1, SameAhead DEF FetchUnlock, Roused, timeVars
<1>13. ASSUME NEW t \in Task, FetchResume(t) PROVE DelayedAreAhead'
  <2>1. /\ tick' = tick /\ wake' = wake
        /\ nextUnblock' = IF pendReady = {} THEN nextUnblock
                          ELSE Earliest([u \in Task |-> IF u \in pendReady
                                            THEN "ready" ELSE state[u]])
        /\ state' = [u \in Task |-> IF u \in pendReady THEN "ready"
             ELSE state[u]]
    BY <1>13 DEF FetchResume
  <2>2. CASE pendReady = {}
    BY <2>1, <2>2, SameAhead
  <2>3. CASE pendReady # {}
    <3>1. nextUnblock' = Earliest(state')
      BY <2>1, <2>3
    <3>2. \A u \in Task : state'[u] = "delayed" => nextUnblock' <= wake[u]
      BY <3>1, EarliestIsLeast
    <3>3. \A u \in Task : state'[u] # "ready" => state'[u] = state[u]
      BY <2>1
    <3> HIDE DEF CallTypeOK
    <3> QED BY <2>1, <3>2, <3>3 DEF DelayedAreAhead
  <2> QED BY <2>2, <2>3
<1>14. ASSUME NEW t \in Task, FetchPendedTick(t) PROVE DelayedAreAhead'
  <2>1. PICK switch \in BOOLEAN : Ticks(switch)
    BY <1>14, PendedShape
  <2> QED BY <2>1 DEF Ticks, DelayedAreAhead
<1>15. ASSUME NEW t \in Task, FetchYield(t) PROVE DelayedAreAhead'
  <2>1. UNCHANGED <<tick, nextUnblock>>
    BY <1>15 DEF FetchYield, timeVars
  <2>2. \A u \in Task : \/ state'[u] \in {"ready", "away"}
                        \/ state'[u] = state[u] /\ wake'[u] = wake[u]
    BY <1>15 DEF FetchYield, taskVars
  <2> QED BY <2>1, <2>2, SameAhead
<1>16. CASE UNCHANGED vars
  <2>1. UNCHANGED <<tick, nextUnblock>>
    BY <1>16 DEF vars, timeVars
  <2>2. \A u \in Task : \/ state'[u] \in {"ready", "away"}
                        \/ state'[u] = state[u] /\ wake'[u] = wake[u]
    BY <1>16 DEF vars, taskVars
  <2> QED BY <2>1, <2>2, SameAhead
<1> QED BY <1>1, <1>2, <1>3, <1>4, <1>5, <1>6, <1>7, <1>8, <1>9, <1>10, <1>11,
           <1>12, <1>13, <1>14, <1>15, <1>16 DEF Next, Fetch

\* What is left of the timeouts, after every step.
LEMMA StepLeftInv == IInv /\ [Next]_vars => LeftInv'
<1> SUFFICES ASSUME IInv, [Next]_vars PROVE LeftInv'
  OBVIOUS
<1> USE IdleAssumption DEF IInv, KernelTypeOK, CallTypeOK, Runs, Goto
<1>1. CASE SysTick
  <2> SUFFICES ASSUME NEW u \in Task PROVE LeftOf(u)'
    BY DEF LeftInv
  <2>1. LeftOf(u)
    BY DEF LeftInv
  <2>2. UNCHANGED <<ticks, want, entry, pc, why>>
        /\ (age'[u] = age[u] \/ (entry[u].set /\ age'[u] = age[u] + 1))
    BY <1>1 DEF SysTick, callVars
  <2>3. \/ state'[u] = state[u] \/ state'[u] \in {"ready", "away"}
        \/ state[u] = "overflow" /\ state'[u] = "delayed"
    <3>1. CASE suspended
      BY <1>1, <3>1 DEF SysTick, taskVars
    <3>2. CASE ~suspended
      <4>1. PICK switch \in BOOLEAN : Ticks(switch)
        BY <1>1, <3>2, SysTickShape
      <4> QED BY <4>1 DEF Ticks
    <3> QED BY <3>1, <3>2
  <2> QED BY <2>1, <2>2, <2>3, LeftFrame
<1>2. ASSUME NEW t \in Task \cup {Idle}, SwitchContext(t) PROVE LeftInv'
  <2> SUFFICES ASSUME NEW u \in Task PROVE LeftOf(u)'
    BY DEF LeftInv
  <2>1. LeftOf(u)
    BY DEF LeftInv
  <2>2. UNCHANGED <<ticks, want, entry, age>>
    BY <1>2 DEF SwitchContext, callVars, timeVars
  <2>3. \/ pc'[u] = pc[u]
        \/ /\ pc[u] # "idle" /\ pc'[u] # "idle"
           /\ pc'[u] \in Setting => pc[u] \in Setting
           /\ pc'[u] = "expired" => why[u] = "expired"
    BY <1>2 DEF SwitchContext, Setting, callVars
  <2>4. why'[u] \in {why[u], "retry", "placed"}
    BY <1>2 DEF SwitchContext, callVars
  <2>5. \/ state'[u] = state[u] \/ state'[u] \in {"ready", "away"}
        \/ state[u] = "overflow" /\ state'[u] = "delayed"
    BY <1>2 DEF SwitchContext, taskVars
  <2> QED BY <2>1, <2>2, <2>3, <2>4, <2>5, LeftFrame
<1>3. CASE PostFromHandler \/ \E t \in Task : Post(t) \/ TryPost(t)
  <2> SUFFICES ASSUME NEW u \in Task PROVE LeftOf(u)'
    BY DEF LeftInv
  <2>1. LeftOf(u)
    BY DEF LeftInv
  <2>2. UNCHANGED <<timeVars, callVars>>
    BY <1>3, PostShape
  <2>3. state'[u] = state[u] \/ state'[u] \in {"ready", "away"}
    BY <1>3, PostShape DEF Unheard, Noted, Heard, Roused, taskVars
  <2> QED BY <2>1, <2>2, <2>3, LeftFrame DEF timeVars, callVars
<1>4. ASSUME NEW t \in Task, Return(t) PROVE LeftInv'
  <2> SUFFICES ASSUME NEW u \in Task PROVE LeftOf(u)'
    BY DEF LeftInv
  <2>1. LeftOf(u)
    BY DEF LeftInv
  <2>2. UNCHANGED <<ticks, want, entry, age>>
    BY <1>4 DEF Return, callVars, timeVars
  <2>3. \/ pc'[u] = pc[u]
        \/ /\ pc[u] # "idle" /\ pc'[u] # "idle"
           /\ pc'[u] \in Setting => pc[u] \in Setting
           /\ pc'[u] = "expired" => why[u] = "expired"
    BY <1>4 DEF Return, Setting, callVars
  <2>4. why'[u] \in {why[u], "retry", "placed"}
    BY <1>4 DEF Return, callVars
  <2>5. \/ state'[u] = state[u] \/ state'[u] \in {"ready", "away"}
        \/ state[u] = "overflow" /\ state'[u] = "delayed"
    BY <1>4 DEF Return, taskVars
  <2> QED BY <2>1, <2>2, <2>3, <2>4, <2>5, LeftFrame
<1>5. ASSUME NEW t \in Task, GoAway(t) \/ \E w \in Waits : StartFetch(t, w)
      PROVE  LeftInv'
  <2>1. ASSUME NEW u \in Task, u # t PROVE LeftOf(u)'
    <3>1. LeftOf(u)
      BY DEF LeftInv
    <3>2. /\ UNCHANGED <<ticks[u], want[u], entry[u], pc[u], why[u], state[u]>>
          /\ age'[u] = age[u]
      BY <1>5, <2>1 DEF GoAway, StartFetch, taskVars, timeVars, callVars
    <3> QED BY <3>1, <3>2, LeftFrame
  <2>2. LeftOf(t) /\ pc[t] = "idle" /\ LeftOf(t) /\ ~Asleep(t)
    BY <1>5 DEF GoAway, StartFetch, LeftInv, SleepInv
  <2>3. CASE GoAway(t)
    <3>1. /\ UNCHANGED <<ticks, want, entry, pc, why, age>>
          /\ state'[t] = "away"
      BY <2>3 DEF GoAway, timeVars, callVars
    <3>2. LeftOf(t)'
      BY <2>2, <3>1, LeftFrame
    <3> QED BY <2>1, <3>2 DEF LeftInv
  <2>4. ASSUME NEW w \in Waits, StartFetch(t, w) PROVE LeftInv'
    <3>1. /\ ticks'[t] = w /\ want'[t] = w /\ pc'[t] = "check"
          /\ UNCHANGED <<entry, why, age, state>>
      BY <2>4 DEF StartFetch, taskVars, timeVars
    <3>2. w \in Nat /\ w > 0
      BY QueueAssumption DEF MaxDelay
    <3>3. LeftOf(t)'
      <4>1. why[t] = "retry"
        BY <2>2 DEF SleepInv
      <4>2. ~entry[t].set /\ age[t] = 0
        BY <2>2 DEF LeftOf
      <4> QED BY <2>2, <3>1, <3>2, <4>1, <4>2 DEF LeftOf, Asleep, Setting
    <3> QED BY <2>1, <3>3 DEF LeftInv
  <2> QED BY <1>5, <2>3, <2>4
<1>6. ASSUME NEW t \in Task, FetchItem(t) \/ FetchNothing(t) PROVE LeftInv'
  <2>1. ASSUME NEW u \in Task, u # t PROVE LeftOf(u)'
    <3>1. LeftOf(u)
      BY DEF LeftInv
    <3>2. /\ UNCHANGED <<ticks[u], want[u], entry[u], pc[u], why[u], state[u]>>
          /\ age'[u] = age[u]
      BY <1>6, <2>1 DEF FetchItem, FetchNothing, Leave, taskVars, timeVars,
         callVars
    <3> QED BY <3>1, <3>2, LeftFrame
  <2>2. /\ pc'[t] = "idle" /\ why'[t] = "retry" /\ ticks'[t] = 0
        /\ want'[t] = 0
        /\ entry'[t] = NoEntry /\ age'[t] = 0 /\ state' = state
    BY <1>6 DEF FetchItem, FetchNothing, Leave
  <2>3. state[t] = "ready"
    BY <1>6 DEF FetchItem, FetchNothing, SleepInv
  <2>4. LeftOf(t)'
    BY <2>2, <2>3 DEF LeftOf, Asleep, NoEntry, Setting
  <2> QED BY <2>1, <2>4 DEF LeftInv
<1>7. ASSUME NEW t \in Task, FetchWait(t) \/ FetchExpiredAgain(t)
      PROVE  LeftInv'
  <2>1. ASSUME NEW u \in Task, u # t PROVE LeftOf(u)'
    <3>1. LeftOf(u)
      BY DEF LeftInv
    <3>2. /\ UNCHANGED <<ticks[u], want[u], entry[u], pc[u], why[u], state[u]>>
          /\ age'[u] = age[u]
      BY <1>7, <2>1 DEF FetchWait, FetchExpiredAgain, Advance, taskVars,
         timeVars, callVars
    <3> QED BY <3>1, <3>2, LeftFrame
  <2>2. LeftOf(t)
    BY DEF LeftInv
  <2>3. CASE FetchWait(t)
    <3>1. /\ UNCHANGED <<ticks, want, why, age, state>> /\ pc'[t] = "suspend"
          /\ pc[t] = "check" /\ ticks[t] # 0
          /\ entry'[t] = IF entry[t].set THEN entry[t] ELSE Now
      BY <2>3 DEF FetchWait, Advance, timeVars, taskVars
    <3>2. entry'[t].set
      BY <3>1 DEF Now
    <3>3. LeftOf(t)'
      BY <2>2, <3>1, <3>2 DEF LeftOf, Asleep, Setting
    <3> QED BY <2>1, <3>3 DEF LeftInv
  <2>4. CASE FetchExpiredAgain(t)
    <3>1. /\ UNCHANGED <<ticks, want, entry, why, age, state>>
          /\ pc[t] = "expired" /\ pc'[t] = "check"
      BY <2>4 DEF FetchExpiredAgain, Advance, timeVars, taskVars
    <3>2. LeftOf(t)'
      BY <2>2, <3>1, LeftFrame DEF Setting
    <3> QED BY <2>1, <3>2 DEF LeftInv
  <2> QED BY <1>7, <2>3, <2>4
<1>8. ASSUME NEW t \in Task, FetchSuspend(t) \/ FetchLock(t) PROVE LeftInv'
  <2> SUFFICES ASSUME NEW u \in Task PROVE LeftOf(u)'
    BY DEF LeftInv
  <2>1. LeftOf(u)
    BY DEF LeftInv
  <2>2. UNCHANGED <<ticks, want, entry, age>>
    BY <1>8 DEF FetchSuspend, FetchLock, Advance, callVars, timeVars
  <2>3. \/ pc'[u] = pc[u]
        \/ /\ pc[u] # "idle" /\ pc'[u] # "idle"
           /\ pc'[u] \in Setting => pc[u] \in Setting
           /\ pc'[u] = "expired" => why[u] = "expired"
    BY <1>8 DEF FetchSuspend, FetchLock, Advance, Setting, callVars
  <2>4. why'[u] \in {why[u], "retry", "placed"}
    BY <1>8 DEF FetchSuspend, FetchLock, Advance, callVars
  <2>5. \/ state'[u] = state[u] \/ state'[u] \in {"ready", "away"}
        \/ state[u] = "overflow" /\ state'[u] = "delayed"
    BY <1>8 DEF FetchSuspend, FetchLock, Advance, taskVars
  <2> QED BY <2>1, <2>2, <2>3, <2>4, <2>5, LeftFrame
<1>9. ASSUME NEW t \in Task, FetchTimeOut(t) PROVE LeftInv'
  <2>1. ASSUME NEW u \in Task, u # t PROVE LeftOf(u)'
    <3>1. LeftOf(u)
      BY DEF LeftInv
    <3>2. /\ UNCHANGED <<ticks[u], want[u], entry[u], pc[u], why[u], state[u]>>
          /\ age'[u] = age[u]
      BY <1>9, <2>1 DEF FetchTimeOut, Advance, taskVars, timeVars, callVars
    <3> QED BY <3>1, <3>2, LeftFrame
  <2>2. LeftOf(t) /\ ClockOf(t) /\ pc[t] = "timeout"
    BY <1>9 DEF FetchTimeOut, LeftInv, ClockInv
  <2>3. state[t] = "ready"
    BY <1>9 DEF FetchTimeOut, SleepInv
  <2>4. UNCHANGED <<want, age, state>>
    BY <1>9 DEF FetchTimeOut, Advance, timeVars, taskVars
  <2>5. CASE Expired(t)
    <3>1. /\ ticks'[t] = 0 /\ why'[t] = "expired" /\ pc'[t] = "unlock"
          /\ entry' = entry
      BY <1>9, <2>5 DEF FetchTimeOut, Advance
    <3>2. want[t] # MaxDelay /\ age[t] >= want[t]
      BY <2>2, <2>5, TimeUp DEF Setting
    <3>3. entry[t].set /\ want[t] \in Nat /\ MaxDelay # 0 /\ age[t] \in Nat
      BY <2>2, Clocks, QueueAssumption DEF LeftOf, Setting, MaxDelay
    <3>4. LeftOf(t)'
      BY <2>3, <2>4, <3>1, <3>2, <3>3 DEF LeftOf, Asleep, Setting
    <3> QED BY <2>1, <3>4 DEF LeftInv
  <2>6. CASE ~Expired(t) /\ ticks[t] = MaxDelay
    <3>1. UNCHANGED <<ticks, entry, why>> /\ pc'[t] = "empty"
      BY <1>9, <2>6 DEF FetchTimeOut, Advance
    <3>2. LeftOf(t)'
      BY <2>2, <2>4, <3>1, LeftFrame DEF Setting
    <3> QED BY <2>1, <3>2 DEF LeftInv
  <2>7. CASE ~Expired(t) /\ ticks[t] # MaxDelay
    <3>1. /\ ticks'[t] = ticks[t] - Elapsed(t) /\ entry'[t] = Now
          /\ why' = why /\ pc'[t] = "empty"
      BY <1>9, <2>7 DEF FetchTimeOut, Advance
    <3>2. /\ want[t] # MaxDelay /\ Elapsed(t) \in Nat /\ Elapsed(t) < ticks[t]
      BY <2>2, <2>7, TimeUp DEF Setting
    <3>3. /\ ticks[t] \in Nat /\ want[t] \in Nat /\ ticks[t] < TickMod
          /\ ticks[t] <= want[t] /\ TickMod \in Nat /\ why[t] # "expired"
      BY <2>2, Clocks DEF LeftOf, Setting
    <3>4. ticks'[t] # 0 /\ ticks'[t] <= want[t] /\ ticks'[t] # MaxDelay
      <4> HIDE DEF KernelTypeOK, CallTypeOK
      <4>1. ticks[t] # TickMod - 1
        BY <2>7 DEF MaxDelay
      <4> QED BY <3>1, <3>2, <3>3, <4>1 DEF MaxDelay
    <3>5. entry'[t].set
      BY <3>1 DEF Now
    <3>6. LeftOf(t)'
      BY <2>3, <2>4, <3>1, <3>2, <3>3, <3>4, <3>5 DEF LeftOf, Asleep, Setting
    <3> QED BY <2>1, <3>6 DEF LeftInv
  <2> QED BY <2>5, <2>6, <2>7
<1>10. ASSUME NEW t \in Task, FetchIsEmpty(t) PROVE LeftInv'
  <2> SUFFICES ASSUME NEW u \in Task PROVE LeftOf(u)'
    BY DEF LeftInv
  <2>1. LeftOf(u)
    BY DEF LeftInv
  <2>2. UNCHANGED <<ticks, want, entry, age>>
    BY <1>10 DEF FetchIsEmpty, Advance, callVars, timeVars
  <2>3. \/ pc'[u] = pc[u]
        \/ /\ pc[u] # "idle" /\ pc'[u] # "idle"
           /\ pc'[u] \in Setting => pc[u] \in Setting
           /\ pc'[u] = "expired" => why[u] = "expired"
    BY <1>10 DEF FetchIsEmpty, Advance, Setting, callVars
  <2>4. why'[u] \in {why[u], "retry", "placed"}
    BY <1>10 DEF FetchIsEmpty, Advance, callVars
  <2>5. \/ state'[u] = state[u] \/ state'[u] \in {"ready", "away"}
        \/ state[u] = "overflow" /\ state'[u] = "delayed"
    BY <1>10 DEF FetchIsEmpty, Advance, taskVars
  <2> QED BY <2>1, <2>2, <2>3, <2>4, <2>5, LeftFrame
<1>11. ASSUME NEW t \in Task, FetchPlace(t) PROVE LeftInv'
  <2>1. ASSUME NEW u \in Task, u # t PROVE LeftOf(u)'
    <3>1. LeftOf(u)
      BY DEF LeftInv
    <3>2. /\ UNCHANGED <<ticks[u], want[u], entry[u], pc[u], why[u], state[u]>>
          /\ age'[u] = age[u]
      BY <1>11, <2>1 DEF FetchPlace
    <3> QED BY <3>1, <3>2, LeftFrame
  <2>2. LeftOf(t) /\ pc[t] = "place"
    BY <1>11 DEF FetchPlace, LeftInv
  <2>3. UNCHANGED <<ticks, want, entry, why, age>> /\ pc'[t] = "unlock"
    BY <1>11 DEF FetchPlace
  <2>4. state'[t] \in {"delayed", "overflow"} => ticks[t] # MaxDelay
    BY <1>11 DEF FetchPlace, DelayedList
  <2>5. LeftOf(t)'
    BY <2>2, <2>3, <2>4 DEF LeftOf, Setting, Asleep
  <2> QED BY <2>1, <2>5 DEF LeftInv
<1>12. ASSUME NEW t \in Task, FetchUnlock(t) PROVE LeftInv'
  <2> SUFFICES ASSUME NEW u \in Task PROVE LeftOf(u)'
    BY DEF LeftInv
  <2>1. LeftOf(u)
    BY DEF LeftInv
  <2>2. UNCHANGED <<ticks, want, entry, age>>
    BY <1>12 DEF FetchUnlock, callVars, timeVars
  <2>3. \/ pc'[u] = pc[u]
        \/ /\ pc[u] # "idle" /\ pc'[u] # "idle"
           /\ pc'[u] \in Setting => pc[u] \in Setting
           /\ pc'[u] = "expired" => why[u] = "expired"
    BY <1>12 DEF FetchUnlock, Setting, callVars
  <2>4. why'[u] \in {why[u], "retry", "placed"}
    BY <1>12 DEF FetchUnlock, callVars
  <2>5. \/ state'[u] = state[u] \/ state'[u] \in {"ready", "away"}
        \/ state[u] = "overflow" /\ state'[u] = "delayed"
    <3>1. PICK S \in SUBSET Task : Roused(S)
      BY <1>12, UnlockShape
    <3> QED BY <3>1 DEF Roused
  <2> QED BY <2>1, <2>2, <2>3, <2>4, <2>5, LeftFrame
<1>13. ASSUME NEW t \in Task, FetchResume(t) PROVE LeftInv'
  <2> SUFFICES ASSUME NEW u \in Task PROVE LeftOf(u)'
    BY DEF LeftInv
  <2>1. LeftOf(u)
    BY DEF LeftInv
  <2>2. UNCHANGED <<ticks, want, entry, age>>
    BY <1>13 DEF FetchResume, Resumed, AfterResume, callVars, timeVars
  <2>3. \/ pc'[u] = pc[u]
        \/ /\ pc[u] # "idle" /\ pc'[u] # "idle"
           /\ pc'[u] \in Setting => pc[u] \in Setting
           /\ pc'[u] = "expired" => why[u] = "expired"
    BY <1>13 DEF FetchResume, Resumed, AfterResume, Setting, callVars
  <2>4. why'[u] \in {why[u], "retry", "placed"}
    BY <1>13 DEF FetchResume, Resumed, AfterResume, callVars
  <2>5. \/ state'[u] = state[u] \/ state'[u] \in {"ready", "away"}
        \/ state[u] = "overflow" /\ state'[u] = "delayed"
    BY <1>13 DEF FetchResume, Resumed, AfterResume, taskVars
  <2> QED BY <2>1, <2>2, <2>3, <2>4, <2>5, LeftFrame
<1>14. ASSUME NEW t \in Task, FetchPendedTick(t) PROVE LeftInv'
  <2> SUFFICES ASSUME NEW u \in Task PROVE LeftOf(u)'
    BY DEF LeftInv
  <2>1. LeftOf(u)
    BY DEF LeftInv
  <2>2. UNCHANGED <<ticks, want, entry, age>>
    BY <1>14 DEF FetchPendedTick, Resumed, AfterResume, callVars, timeVars
  <2>3. \/ pc'[u] = pc[u]
        \/ /\ pc[u] # "idle" /\ pc'[u] # "idle"
           /\ pc'[u] \in Setting => pc[u] \in Setting
           /\ pc'[u] = "expired" => why[u] = "expired"
    BY <1>14 DEF FetchPendedTick, Resumed, AfterResume, Setting, callVars
  <2>4. why'[u] \in {why[u], "retry", "placed"}
    BY <1>14 DEF FetchPendedTick, Resumed, AfterResume, callVars
  <2>5. \/ state'[u] = state[u] \/ state'[u] \in {"ready", "away"}
        \/ state[u] = "overflow" /\ state'[u] = "delayed"
    BY <1>14, PendedShape DEF Ticks
  <2> QED BY <2>1, <2>2, <2>3, <2>4, <2>5, LeftFrame
<1>15. ASSUME NEW t \in Task, FetchYield(t) PROVE LeftInv'
  <2> SUFFICES ASSUME NEW u \in Task PROVE LeftOf(u)'
    BY DEF LeftInv
  <2>1. LeftOf(u)
    BY DEF LeftInv
  <2>2. UNCHANGED <<ticks, want, entry, age>>
    BY <1>15 DEF FetchYield, callVars, timeVars
  <2>3. \/ pc'[u] = pc[u]
        \/ /\ pc[u] # "idle" /\ pc'[u] # "idle"
           /\ pc'[u] \in Setting => pc[u] \in Setting
           /\ pc'[u] = "expired" => why[u] = "expired"
    BY <1>15 DEF FetchYield, Setting, callVars
  <2>4. why'[u] \in {why[u], "retry", "placed"}
    BY <1>15 DEF FetchYield, callVars
  <2>5. \/ state'[u] = state[u] \/ state'[u] \in {"ready", "away"}
        \/ state[u] = "overflow" /\ state'[u] = "delayed"
    BY <1>15 DEF FetchYield, taskVars
  <2> QED BY <2>1, <2>2, <2>3, <2>4, <2>5, LeftFrame
<1>16. CASE UNCHANGED vars
  <2> SUFFICES ASSUME NEW u \in Task PROVE LeftOf(u)'
    BY DEF LeftInv
  <2>1. LeftOf(u)
    BY DEF LeftInv
  <2>2. UNCHANGED <<ticks, want, entry, age>>
    BY <1>16 DEF vars, callVars, timeVars
  <2>3. \/ pc'[u] = pc[u]
        \/ /\ pc[u] # "idle" /\ pc'[u] # "idle"
           /\ pc'[u] \in Setting => pc[u] \in Setting
           /\ pc'[u] = "expired" => why[u] = "expired"
    BY <1>16 DEF vars, Setting, callVars
  <2>4. why'[u] \in {why[u], "retry", "placed"}
    BY <1>16 DEF vars, callVars
  <2>5. \/ state'[u] = state[u] \/ state'[u] \in {"ready", "away"}
        \/ state[u] = "overflow" /\ state'[u] = "delayed"
    BY <1>16 DEF vars, taskVars
  <2> QED BY <2>1, <2>2, <2>3, <2>4, <2>5, LeftFrame
<1> QED BY <1>1, <1>2, <1>3, <1>4, <1>5, <1>6, <1>7, <1>8, <1>9, <1>10, <1>11,
           <1>12, <1>13, <1>14, <1>15, <1>16 DEF Next, Fetch

\* A step that takes no time.
LEMMA ClockKept ==
  ASSUME IInv, Clock' = Clock, pendedTicks' = pendedTicks, NEW u \in Task,
         UNCHANGED <<ticks[u], want[u], entry[u]>>, age'[u] = age[u]
  PROVE  ClockOf(u)'
<1>1. ClockOf(u) /\ Clock \in Nat /\ pendedTicks \in Nat
  BY Clocks, QueueAssumption DEF IInv, ClockInv, KernelTypeOK
<1> QED BY <1>1, ClockFrame DEF IInv

\* The age of a wait keeps up with the clock, after every step.
LEMMA StepClockInv == IInv /\ [Next]_vars => ClockInv'
<1> SUFFICES ASSUME IInv, [Next]_vars PROVE ClockInv'
  OBVIOUS
<1> USE IdleAssumption DEF IInv, KernelTypeOK, CallTypeOK, Runs, Goto
<1>1. CASE SysTick
  <2> SUFFICES ASSUME NEW u \in Task PROVE ClockOf(u)'
    BY DEF ClockInv
  <2>2. ClockOf(u) /\ Clock \in Nat /\ pendedTicks \in Nat
    BY Clocks, QueueAssumption DEF ClockInv
  <2>3. /\ UNCHANGED <<ticks[u], want[u], entry[u]>>
        /\ entry[u].set /\ want[u] # MaxDelay => age'[u] = age[u] + 1
    BY <1>1 DEF SysTick, callVars
  <2>4. /\ Clock' \in Nat /\ pendedTicks' \in Nat /\ Clock' >= Clock
        /\ Clock' + pendedTicks' = Clock + pendedTicks + 1
    <3>1. CASE suspended
      <4>1. Clock' = Clock /\ pendedTicks' = pendedTicks + 1
        BY <1>1, <3>1 DEF SysTick, Clock
      <4> QED BY <2>2, <4>1
    <3>2. CASE ~suspended
      <4>1. PICK switch \in BOOLEAN : Ticks(switch)
              /\ pendedTicks' = pendedTicks
        BY <1>1, <3>2, SysTickShape
      <4>2. Clock' = Clock + 1
        BY <4>1, ClockTicks
      <4> QED BY <2>2, <4>1, <4>2
    <3> QED BY <3>1, <3>2
  <2> QED BY <2>2, <2>3, <2>4, ClockFrame
<1>2. ASSUME NEW t \in Task \cup {Idle}, SwitchContext(t) PROVE ClockInv'
  <2>1. UNCHANGED <<ticks, want, entry, age, tick, overflows, pendedTicks>>
    BY <1>2 DEF SwitchContext, callVars, timeVars
  <2>2. Clock' = Clock
    BY <2>1 DEF Clock
  <2> QED BY <2>1, <2>2, ClockKept DEF ClockInv
<1>3. CASE PostFromHandler \/ \E t \in Task : Post(t) \/ TryPost(t)
  <2>1. UNCHANGED <<timeVars, callVars>>
    BY <1>3, PostShape
  <2>2. UNCHANGED <<ticks, want, entry, age, tick, overflows, pendedTicks>>
    BY <2>1 DEF timeVars, callVars
  <2>3. Clock' = Clock
    BY <2>2 DEF Clock
  <2> QED BY <2>2, <2>3, ClockKept DEF ClockInv
<1>4. ASSUME NEW t \in Task, Return(t) PROVE ClockInv'
  <2>1. UNCHANGED <<ticks, want, entry, age, tick, overflows, pendedTicks>>
    BY <1>4 DEF Return, callVars, timeVars
  <2>2. Clock' = Clock
    BY <2>1 DEF Clock
  <2> QED BY <2>1, <2>2, ClockKept DEF ClockInv
<1>5. ASSUME NEW t \in Task, GoAway(t) \/ \E w \in Waits : StartFetch(t, w)
      PROVE  ClockInv'
  <2>1. UNCHANGED <<tick, overflows, pendedTicks>>
    BY <1>5 DEF GoAway, StartFetch, callVars, timeVars
  <2>2. Clock' = Clock
    BY <2>1 DEF Clock
  <2>3. ASSUME NEW u \in Task, u # t PROVE ClockOf(u)'
    <3>1. UNCHANGED <<ticks[u], want[u], entry[u]>> /\ age'[u] = age[u]
      BY <1>5, <2>3 DEF GoAway, StartFetch, callVars, timeVars
    <3> QED BY <2>1, <2>2, <3>1, ClockKept
  <2>4. ~entry[t].set /\ entry' = entry
    BY <1>5 DEF GoAway, StartFetch, callVars, LeftInv, LeftOf
  <2>5. ClockOf(t)'
    BY <2>4 DEF ClockOf
  <2> QED BY <2>3, <2>5 DEF ClockInv
<1>6. ASSUME NEW t \in Task, FetchItem(t) \/ FetchNothing(t) PROVE ClockInv'
  <2>1. UNCHANGED <<tick, overflows, pendedTicks>>
    BY <1>6 DEF FetchItem, FetchNothing, Leave, timeVars
  <2>2. Clock' = Clock
    BY <2>1 DEF Clock
  <2>3. ASSUME NEW u \in Task, u # t PROVE ClockOf(u)'
    <3>1. UNCHANGED <<ticks[u], want[u], entry[u]>> /\ age'[u] = age[u]
      BY <1>6, <2>3 DEF FetchItem, FetchNothing, Leave, timeVars
    <3> QED BY <2>1, <2>2, <3>1, ClockKept
  <2>4. ~entry'[t].set
    BY <1>6 DEF FetchItem, FetchNothing, Leave, NoEntry
  <2>5. ClockOf(t)'
    BY <2>4 DEF ClockOf
  <2> QED BY <2>3, <2>5 DEF ClockInv
<1>7. ASSUME NEW t \in Task, FetchWait(t) \/ FetchExpiredAgain(t)
      PROVE  ClockInv'
  <2>1. UNCHANGED <<tick, overflows, pendedTicks>>
    BY <1>7 DEF FetchWait, FetchExpiredAgain, Advance, timeVars
  <2>2. Clock' = Clock
    BY <2>1 DEF Clock
  <2>3. ASSUME NEW u \in Task, u # t PROVE ClockOf(u)'
    <3>1. UNCHANGED <<ticks[u], want[u], entry[u]>> /\ age'[u] = age[u]
      BY <1>7, <2>3 DEF FetchWait, FetchExpiredAgain, Advance, timeVars
    <3> QED BY <2>1, <2>2, <3>1, ClockKept
  <2>4. UNCHANGED <<ticks, want, age>> /\ (entry' = entry \/ FetchWait(t))
    BY <1>7 DEF FetchWait, FetchExpiredAgain, Advance, timeVars
  <2>5. CASE entry'[t] = entry[t]
    <3>1. ClockOf(t)'
      BY <2>1, <2>2, <2>4, <2>5, ClockKept
    <3> QED BY <2>3, <3>1 DEF ClockInv
  <2>6. CASE FetchWait(t) /\ ~entry[t].set
    <3>1. entry'[t] = Now /\ cur = t /\ pc[t] = "check"
      BY <2>6 DEF FetchWait
    <3>2. pendedTicks = 0
      BY <3>1, QueueAssumption DEF HoldInv, Holding, Masked
    <3>3. age[t] = 0 /\ ticks[t] = want[t] /\ want[t] \in Nat /\ Clock \in Nat
      BY <2>6, Clocks DEF LeftInv, LeftOf
    <3>4. Begun(t)' = Clock
      BY <3>1 DEF Begun, Now, Clock
    <3>5. ClockOf(t)'
      BY <2>1, <2>2, <2>4, <3>2, <3>3, <3>4 DEF ClockOf
    <3> QED BY <2>3, <3>5 DEF ClockInv
  <2>7. FetchWait(t) /\ entry[t].set => entry'[t] = entry[t]
    BY DEF FetchWait
  <2> QED BY <2>4, <2>5, <2>6, <2>7
<1>8. ASSUME NEW t \in Task, FetchSuspend(t) \/ FetchLock(t) PROVE ClockInv'
  <2>1. UNCHANGED <<ticks, want, entry, age, tick, overflows, pendedTicks>>
    BY <1>8 DEF FetchSuspend, FetchLock, Advance, callVars, timeVars
  <2>2. Clock' = Clock
    BY <2>1 DEF Clock
  <2> QED BY <2>1, <2>2, ClockKept DEF ClockInv
<1>9. ASSUME NEW t \in Task, FetchTimeOut(t) PROVE ClockInv'
  <2>1. UNCHANGED <<tick, overflows, pendedTicks>>
    BY <1>9 DEF FetchTimeOut, Advance, timeVars
  <2>2. Clock' = Clock
    BY <2>1 DEF Clock
  <2>3. ASSUME NEW u \in Task, u # t PROVE ClockOf(u)'
    <3>1. UNCHANGED <<ticks[u], want[u], entry[u]>> /\ age'[u] = age[u]
      BY <1>9, <2>3 DEF FetchTimeOut, Advance, timeVars
    <3> QED BY <2>1, <2>2, <3>1, ClockKept
  <2>4. UNCHANGED <<want, age>>
    BY <1>9 DEF FetchTimeOut, Advance, timeVars
  <2>5. CASE Expired(t)
    <3>1. ticks'[t] = 0
      BY <1>9, <2>5 DEF FetchTimeOut
    <3>2. ClockOf(t)'
      BY <3>1 DEF ClockOf
    <3> QED BY <2>3, <3>2 DEF ClockInv
  <2>6. CASE ~Expired(t) /\ ticks[t] = MaxDelay
    <3>1. UNCHANGED <<ticks, entry>>
      BY <1>9, <2>6 DEF FetchTimeOut
    <3>2. ClockOf(t)'
      BY <2>1, <2>2, <2>4, <3>1, ClockKept
    <3> QED BY <2>3, <3>2 DEF ClockInv
  <2>7. CASE ~Expired(t) /\ ticks[t] # MaxDelay
    <3>1. ticks'[t] = ticks[t] - Elapsed(t) /\ entry'[t] = Now
      BY <1>9, <2>7 DEF FetchTimeOut
    <3>2. /\ Elapsed(t) \in Nat /\ Elapsed(t) < ticks[t]
          /\ age[t] >= pendedTicks + want[t] - (ticks[t] - Elapsed(t))
      BY <1>9, <2>7, TimeUp DEF FetchTimeOut, LeftInv, ClockInv, Setting
    <3>3. /\ age[t] \in Nat /\ ticks[t] \in Nat /\ want[t] \in Nat
          /\ pendedTicks \in Nat /\ Clock \in Nat
      BY Clocks, QueueAssumption
    <3>4. Begun(t)' = Clock
      BY <3>1 DEF Begun, Now, Clock
    <3>5. ClockOf(t)'
      BY <2>1, <2>2, <2>4, <3>1, <3>2, <3>3, <3>4 DEF ClockOf
    <3> QED BY <2>3, <3>5 DEF ClockInv
  <2> QED BY <2>5, <2>6, <2>7
<1>10. ASSUME NEW t \in Task, FetchIsEmpty(t) PROVE ClockInv'
  <2>1. UNCHANGED <<ticks, want, entry, age, tick, overflows, pendedTicks>>
    BY <1>10 DEF FetchIsEmpty, Advance, callVars, timeVars
  <2>2. Clock' = Clock
    BY <2>1 DEF Clock
  <2> QED BY <2>1, <2>2, ClockKept DEF ClockInv
<1>11. ASSUME NEW t \in Task, FetchPlace(t) PROVE ClockInv'
  <2>1. UNCHANGED <<ticks, want, entry, age, tick, overflows, pendedTicks>>
    BY <1>11 DEF FetchPlace, callVars, timeVars
  <2>2. Clock' = Clock
    BY <2>1 DEF Clock
  <2> QED BY <2>1, <2>2, ClockKept DEF ClockInv
<1>12. ASSUME NEW t \in Task, FetchUnlock(t) PROVE ClockInv'
  <2>1. UNCHANGED <<ticks, want, entry, age, tick, overflows, pendedTicks>>
    BY <1>12 DEF FetchUnlock, callVars, timeVars
  <2>2. Clock' = Clock
    BY <2>1 DEF Clock
  <2> QED BY <2>1, <2>2, ClockKept DEF ClockInv
<1>13. ASSUME NEW t \in Task, FetchResume(t) PROVE ClockInv'
  <2>1. UNCHANGED <<ticks, want, entry, age, tick, overflows, pendedTicks>>
    BY <1>13 DEF FetchResume, Resumed, AfterResume, callVars, timeVars
  <2>2. Clock' = Clock
    BY <2>1 DEF Clock
  <2> QED BY <2>1, <2>2, ClockKept DEF ClockInv
<1>14. ASSUME NEW t \in Task, FetchPendedTick(t) PROVE ClockInv'
  <2> SUFFICES ASSUME NEW u \in Task PROVE ClockOf(u)'
    BY DEF ClockInv
  <2>2. ClockOf(u) /\ Clock \in Nat /\ pendedTicks \in Nat
    BY Clocks, QueueAssumption DEF ClockInv
  <2>3. UNCHANGED <<ticks, want, entry, age>> /\ pendedTicks' = pendedTicks - 1
    BY <1>14 DEF FetchPendedTick
  <2>4. pendedTicks > 0
    BY <1>14 DEF FetchPendedTick, HoldInv, Masked
  <2>5. PICK switch \in BOOLEAN : Ticks(switch)
    BY <1>14, PendedShape
  <2>6. Clock' = Clock + 1
    BY <2>5, ClockTicks
  <2>7. /\ Clock' \in Nat /\ pendedTicks' \in Nat /\ Clock' >= Clock
        /\ Clock' + pendedTicks' = Clock + pendedTicks
    BY <2>2, <2>3, <2>4, <2>6
  <2> QED BY <2>2, <2>3, <2>7, ClockFrame
<1>15. ASSUME NEW t \in Task, FetchYield(t) PROVE ClockInv'
  <2>1. UNCHANGED <<ticks, want, entry, age, tick, overflows, pendedTicks>>
    BY <1>15 DEF FetchYield, callVars, timeVars
  <2>2. Clock' = Clock
    BY <2>1 DEF Clock
  <2> QED BY <2>1, <2>2, ClockKept DEF ClockInv
<1>16. CASE UNCHANGED vars
  <2>1. UNCHANGED <<ticks, want, entry, age, tick, overflows, pendedTicks>>
    BY <1>16 DEF vars, callVars, timeVars
  <2>2. Clock' = Clock
    BY <2>1 DEF Clock
  <2> QED BY <2>1, <2>2, ClockKept DEF ClockInv
<1> QED BY <1>1, <1>2, <1>3, <1>4, <1>5, <1>6, <1>7, <1>8, <1>9, <1>10, <1>11,
           <1>12, <1>13, <1>14, <1>15, <1>16 DEF Next, Fetch

\* A step that takes no time and sends nobody to sleep.
LEMMA ExactKept ==
  ASSUME IInv, NEW u \in Task, ExactOf(u),
         UNCHANGED <<tick, overflows, pendedTicks>>,
         UNCHANGED <<ticks[u], want[u], entry[u]>>,
         age'[u] = age[u],
         \/ state'[u] \in {"ready", "away"}
         \/ state'[u] = state[u] /\ wake'[u] = wake[u],
         pc'[u] \in {"empty", "place"} => pc[u] \in {"empty", "place"}
  PROVE  ExactOf(u)'
<1>1. Clock' = Clock /\ Begun(u)' = Begun(u)
  BY DEF Clock, Begun
<1> QED BY <1>1 DEF ExactOf

\* A tick, counted by the wait of task u unless it is made up for.
LEMMA ExactTicks ==
  ASSUME IInv, NEW u \in Task, ExactOf(u),
         NEW switch \in BOOLEAN, Ticks(switch),
         UNCHANGED <<ticks[u], want[u], entry[u]>>, pendedTicks' \in Nat,
         \/ pendedTicks' = pendedTicks - 1 /\ age'[u] = age[u]
         \/ /\ pendedTicks' = pendedTicks
            /\ entry[u].set /\ want[u] # MaxDelay => age'[u] = age[u] + 1,
         pc'[u] \notin {"empty", "place"}
  PROVE  ExactOf(u)'
<1>1. SUFFICES ASSUME entry[u].set, want[u] # MaxDelay, ticks[u] # 0
      PROVE  /\ Begun(u)' >= FirstTick
             /\ age'[u] + Begun(u)' = Clock' + pendedTicks' + want[u] - ticks[u]
             /\ state'[u] = "delayed" =>
                  overflows' * TickMod + wake'[u] = Begun(u)' + ticks[u]
             /\ state'[u] = "overflow" =>
                  overflows' * TickMod + TickMod + wake'[u] = Begun(u)' + ticks[u]
  BY DEF ExactOf
<1>2. Clock' = Clock + 1 /\ Begun(u)' = Begun(u)
  BY ClockTicks DEF IInv, Begun
<1>3. /\ Clock \in Nat /\ Begun(u) \in Nat /\ age[u] \in Nat
      /\ ticks[u] \in Nat
      /\ want[u] \in Nat /\ wake[u] \in Nat /\ overflows \in Nat
      /\ TickMod \in Nat
      /\ overflows * TickMod \in Nat
  BY Clocks DEF IInv
<1>4. pendedTicks \in Nat
  BY QueueAssumption DEF IInv, KernelTypeOK
<1>5. /\ Begun(u) >= FirstTick
      /\ age[u] + Begun(u) = Clock + pendedTicks + want[u] - ticks[u]
      /\ state[u] = "delayed" =>
           overflows * TickMod + wake[u] = Begun(u) + ticks[u]
      /\ state[u] = "overflow" =>
           overflows * TickMod + TickMod + wake[u] = Begun(u) + ticks[u]
  BY <1>1 DEF ExactOf
<1>6. age'[u] + Begun(u)' = Clock' + pendedTicks' + want[u] - ticks[u]
  <2>1. CASE pendedTicks' = pendedTicks - 1 /\ age'[u] = age[u]
    BY <1>2, <1>3, <1>4, <1>5, <2>1
  <2>2. CASE pendedTicks' = pendedTicks /\ age'[u] = age[u] + 1
    BY <1>2, <1>3, <1>4, <1>5, <2>2
  <2> QED BY <1>1, <2>1, <2>2
<1>7. (overflows + 1) * TickMod = overflows * TickMod + TickMod
  BY <1>3
<1>8. state'[u] = "delayed" =>
        overflows' * TickMod + wake'[u] = Begun(u) + ticks[u]
  BY <1>3, <1>5, <1>7 DEF Ticks
<1>9. state'[u] = "overflow" =>
        overflows' * TickMod + TickMod + wake'[u] = Begun(u) + ticks[u]
  BY <1>3, <1>5, <1>7 DEF Ticks
<1> QED BY <1>2, <1>5, <1>6, <1>8, <1>9

\* The clock is as far ahead as there were interrupts.
LEMMA CountedTicks ==
  ASSUME IInv, [Next]_vars, Clock + pendedTicks = FirstTick + interrupts
  PROVE  (Clock + pendedTicks = FirstTick + interrupts)'
<1> USE DEF IInv, KernelTypeOK, CallTypeOK
<1>1. /\ Clock \in Nat /\ pendedTicks \in Nat /\ FirstTick \in Nat
      /\ interrupts \in Nat
  BY Clocks, QueueAssumption
<1>2. CASE SysTick
  <2>1. interrupts' = interrupts + 1
    BY <1>2 DEF SysTick
  <2>2. CASE suspended
    <3>1. Clock' = Clock /\ pendedTicks' = pendedTicks + 1
      BY <1>2, <2>2 DEF SysTick, Clock
    <3> QED BY <1>1, <2>1, <3>1
  <2>3. CASE ~suspended
    <3>1. PICK switch \in BOOLEAN : Ticks(switch) /\ pendedTicks' = pendedTicks
      BY <1>2, <2>3, SysTickShape
    <3>2. Clock' = Clock + 1
      BY <3>1, ClockTicks
    <3> QED BY <1>1, <2>1, <3>1, <3>2
  <2> QED BY <2>2, <2>3
<1>3. ASSUME NEW t \in Task, FetchPendedTick(t)
      PROVE  (Clock + pendedTicks = FirstTick + interrupts)'
  <2>1. PICK switch \in BOOLEAN : Ticks(switch)
    BY <1>3, PendedShape
  <2>2. Clock' = Clock + 1
    BY <2>1, ClockTicks
  <2>3. pendedTicks' = pendedTicks - 1 /\ interrupts' = interrupts
    BY <1>3 DEF FetchPendedTick
  <2> QED BY <1>1, <2>2, <2>3
<1>4. CASE UNCHANGED <<tick, overflows, pendedTicks, interrupts>>
  BY <1>4 DEF Clock
<1>5. ASSUME NEW t \in Task,
             \/ FetchItem(t) \/ FetchNothing(t) \/ FetchWait(t)
             \/ FetchSuspend(t) \/ FetchLock(t) \/ FetchTimeOut(t)
             \/ FetchIsEmpty(t) \/ FetchPlace(t) \/ FetchUnlock(t)
             \/ FetchResume(t) \/ FetchYield(t) \/ FetchExpiredAgain(t)
      PROVE  UNCHANGED <<tick, overflows, pendedTicks, interrupts>>
  BY <1>5 DEF FetchItem, FetchNothing, FetchWait, FetchSuspend, FetchLock,
     FetchTimeOut, FetchIsEmpty, FetchPlace, FetchUnlock, FetchResume,
     FetchYield, FetchExpiredAgain, Advance, timeVars
<1>6. CASE PostFromHandler \/ \E t \in Task : Post(t) \/ TryPost(t)
  BY <1>4, <1>6 DEF PostFromHandler, Post, TryPost, timeVars
<1>7. CASE \E t \in Task : Return(t) \/ GoAway(t)
        \/ \E w \in Waits : StartFetch(t, w)
  BY <1>4, <1>7 DEF Return, GoAway, StartFetch, timeVars
<1>8. CASE UNCHANGED vars \/ \E t \in Task \cup {Idle} : SwitchContext(t)
  BY <1>4, <1>8 DEF vars, SwitchContext, timeVars
<1> QED BY <1>2, <1>3, <1>4, <1>5, <1>6, <1>7, <1>8 DEF Next, Fetch

\* Exactly so, when the tick count does not come all the way round.
LEMMA StepExactInv ==
  ASSUME MaxTicks < TickMod, IInv, ExactInv, [Next]_vars, NEW u \in Task
  PROVE  ExactOf(u)'
<1>0. Clock + pendedTicks = FirstTick + interrupts /\ ExactOf(u)
  BY DEF ExactInv
<1> USE IdleAssumption DEF IInv, KernelTypeOK, CallTypeOK, Runs, Goto
<1>1. CASE SysTick
  <2>1. UNCHANGED <<ticks, want, entry, pc>>
        /\ (entry[u].set /\ want[u] # MaxDelay => age'[u] = age[u] + 1)
    BY <1>1 DEF SysTick, callVars
  <2>2. pendedTicks \in Nat /\ Clock \in Nat
    BY Clocks, QueueAssumption
  <2>3. CASE suspended
    <3>1. /\ UNCHANGED <<tick, overflows, state, wake>>
          /\ pendedTicks' = pendedTicks + 1
      BY <1>1, <2>3 DEF SysTick, taskVars
    <3>2. Clock' = Clock /\ Begun(u)' = Begun(u)
      BY <2>1, <3>1 DEF Clock, Begun
    <3>3. ASSUME entry[u].set, want[u] # MaxDelay, ticks[u] # 0
          PROVE  age'[u] + Begun(u) = Clock + pendedTicks' + want[u] - ticks[u]
      <4>1. /\ age[u] + Begun(u) = Clock + pendedTicks + want[u] - ticks[u]
            /\ age'[u] = age[u] + 1
        BY <1>0, <2>1, <3>3 DEF ExactOf
      <4>2. /\ age[u] \in Nat /\ Begun(u) \in Nat /\ want[u] \in Nat
            /\ ticks[u] \in Nat
        BY Clocks
      <4> DEFINE d == want[u] - ticks[u]
      <4>3. d \in Int /\ age[u] + Begun(u) = (Clock + pendedTicks) + d
        BY <2>2, <4>1, <4>2
      <4>4. age'[u] + Begun(u) = (Clock + pendedTicks') + d
        <5> HIDE DEF d, KernelTypeOK, CallTypeOK
        <5>1. age'[u] + Begun(u) = (age[u] + Begun(u)) + 1
          BY <4>1, <4>2
        <5>2. Clock + pendedTicks' = (Clock + pendedTicks) + 1
          BY <2>2, <3>1
        <5>3. Clock + pendedTicks \in Nat /\ age[u] + Begun(u) \in Nat
          BY <2>2, <4>2
        <5> QED BY <4>3, <5>1, <5>2, <5>3
      <4> QED BY <2>2, <3>1, <4>2, <4>4
    <3> QED BY <1>0, <2>1, <3>1, <3>2, <3>3 DEF ExactOf
  <2>4. CASE ~suspended
    <3>1. PICK switch \in BOOLEAN : Ticks(switch) /\ pendedTicks' = pendedTicks
      BY <1>1, <2>4, SysTickShape
    <3>2. pc'[u] \notin {"empty", "place"}
      BY <2>1, <2>4 DEF HoldInv, Holding
    <3> QED BY <2>1, <2>2, <3>1, <3>2, <1>0, ExactTicks
  <2> QED BY <2>3, <2>4
<1>2. ASSUME NEW t \in Task \cup {Idle}, SwitchContext(t) PROVE ExactOf(u)'
  <2>1. UNCHANGED <<ticks, want, entry, age, tick, overflows, pendedTicks>>
    BY <1>2 DEF SwitchContext, callVars, timeVars
  <2>2. \/ state'[u] \in {"ready", "away"}
        \/ state'[u] = state[u] /\ wake'[u] = wake[u]
    BY <1>2 DEF SwitchContext, taskVars
  <2>3. pc'[u] \in {"empty", "place"} => pc[u] \in {"empty", "place"}
    BY <1>2 DEF SwitchContext, callVars
  <2> QED BY <2>1, <2>2, <2>3, <1>0, ExactKept
<1>3. CASE PostFromHandler \/ \E t \in Task : Post(t) \/ TryPost(t)
  <2>1. UNCHANGED <<timeVars, callVars>>
    BY <1>3, PostShape
  <2>2. UNCHANGED <<ticks, want, entry, age, tick, overflows, pendedTicks, pc>>
    BY <2>1 DEF timeVars, callVars
  <2>3. \/ state'[u] \in {"ready", "away"}
        \/ state'[u] = state[u] /\ wake'[u] = wake[u]
    BY <1>3, PostShape DEF Unheard, Noted, Heard, Roused, taskVars
  <2> QED BY <2>2, <2>3, <1>0, ExactKept
<1>4. ASSUME NEW t \in Task, Return(t) PROVE ExactOf(u)'
  <2>1. UNCHANGED <<ticks, want, entry, age, tick, overflows, pendedTicks>>
    BY <1>4 DEF Return, callVars, timeVars
  <2>2. \/ state'[u] \in {"ready", "away"}
        \/ state'[u] = state[u] /\ wake'[u] = wake[u]
    BY <1>4 DEF Return, taskVars
  <2>3. pc'[u] \in {"empty", "place"} => pc[u] \in {"empty", "place"}
    BY <1>4 DEF Return, callVars
  <2> QED BY <2>1, <2>2, <2>3, <1>0, ExactKept
<1>5. ASSUME NEW t \in Task, GoAway(t) \/ \E w \in Waits : StartFetch(t, w)
      PROVE  ExactOf(u)'
  <2>1. UNCHANGED <<tick, overflows, pendedTicks>>
    BY <1>5 DEF GoAway, StartFetch, timeVars
  <2>2. CASE u # t
    <3>1. /\ UNCHANGED <<ticks[u], want[u], entry[u]>>
          /\ UNCHANGED <<pc[u], state[u], wake[u]>>
          /\ age'[u] = age[u]
      BY <1>5, <2>2 DEF GoAway, StartFetch, taskVars, timeVars, callVars
    <3> QED BY <2>1, <3>1, <1>0, ExactKept
  <2>3. CASE u = t
    <3>1. ~entry[t].set /\ entry' = entry
      BY <1>5 DEF GoAway, StartFetch, callVars, LeftInv, LeftOf
    <3> QED BY <1>0, <2>3, <3>1 DEF ExactOf
  <2> QED BY <2>2, <2>3
<1>6. ASSUME NEW t \in Task, FetchItem(t) \/ FetchNothing(t) PROVE ExactOf(u)'
  <2>1. UNCHANGED <<tick, overflows, pendedTicks>>
    BY <1>6 DEF FetchItem, FetchNothing, Leave, timeVars
  <2>2. CASE u # t
    <3>1. /\ UNCHANGED <<ticks[u], want[u], entry[u]>>
          /\ UNCHANGED <<pc[u], state[u], wake[u]>>
          /\ age'[u] = age[u]
      BY <1>6, <2>2 DEF FetchItem, FetchNothing, Leave, taskVars, timeVars
    <3> QED BY <2>1, <3>1, <1>0, ExactKept
  <2>3. CASE u = t
    <3>1. ~entry'[t].set
      BY <1>6 DEF FetchItem, FetchNothing, Leave, NoEntry
    <3> QED BY <1>0, <2>3, <3>1 DEF ExactOf
  <2> QED BY <2>2, <2>3
<1>7. ASSUME NEW t \in Task, FetchWait(t) \/ FetchExpiredAgain(t)
      PROVE  ExactOf(u)'
  <2>1. UNCHANGED <<tick, overflows, pendedTicks>>
    BY <1>7 DEF FetchWait, FetchExpiredAgain, Advance, timeVars
  <2>2. CASE u # t
    <3>1. /\ UNCHANGED <<ticks[u], want[u], entry[u]>>
          /\ UNCHANGED <<pc[u], state[u], wake[u]>>
          /\ age'[u] = age[u]
      BY <1>7, <2>2 DEF FetchWait, FetchExpiredAgain, Advance, taskVars,
         timeVars
    <3> QED BY <2>1, <3>1, <1>0, ExactKept
  <2>3. CASE u = t /\ entry'[t] = entry[t]
    <3>1. /\ UNCHANGED <<ticks, want, age, state, wake>>
          /\ pc'[t] \notin {"empty", "place"}
      BY <1>7 DEF FetchWait, FetchExpiredAgain, Advance, taskVars, timeVars
    <3> QED BY <2>1, <2>3, <3>1, <1>0, ExactKept
  <2>4. CASE u = t /\ FetchWait(t) /\ ~entry[t].set
    <3>1. /\ entry'[t] = Now /\ cur = t /\ pc[t] = "check" /\ ~pendSV
          /\ UNCHANGED <<ticks, want, age, state>> /\ pc'[t] = "suspend"
      BY <2>4 DEF FetchWait, Advance, taskVars, timeVars
    <3>2. pendedTicks = 0 /\ state[t] = "ready"
      BY <3>1, QueueAssumption DEF HoldInv, Holding, Masked, SleepInv
    <3>3. /\ age[t] = 0 /\ ticks[t] = want[t] /\ want[t] \in Nat
          /\ Clock \in Nat
          /\ FirstTick \in Nat /\ interrupts \in Nat
      BY <2>4, Clocks, QueueAssumption DEF LeftInv, LeftOf
    <3>4. Begun(t)' = Clock /\ Clock' = Clock
      BY <2>1, <3>1 DEF Begun, Now, Clock
    <3>5. Clock >= FirstTick
      BY <1>0, <3>2, <3>3
    <3> QED BY <1>0, <2>1, <2>4, <3>1, <3>2, <3>3, <3>4, <3>5 DEF ExactOf
  <2>5. FetchWait(t) /\ entry[t].set => entry'[t] = entry[t]
    BY DEF FetchWait
  <2>6. FetchExpiredAgain(t) => entry' = entry
    BY DEF FetchExpiredAgain
  <2> QED BY <1>7, <2>2, <2>3, <2>4, <2>5, <2>6
<1>8. ASSUME NEW t \in Task, FetchSuspend(t) \/ FetchLock(t) PROVE ExactOf(u)'
  <2>1. UNCHANGED <<ticks, want, entry, age, tick, overflows, pendedTicks>>
    BY <1>8 DEF FetchSuspend, FetchLock, Advance, callVars, timeVars
  <2>2. \/ state'[u] \in {"ready", "away"}
        \/ state'[u] = state[u] /\ wake'[u] = wake[u]
    BY <1>8 DEF FetchSuspend, FetchLock, Advance, taskVars
  <2>3. pc'[u] \in {"empty", "place"} => pc[u] \in {"empty", "place"}
    BY <1>8 DEF FetchSuspend, FetchLock, Advance, callVars
  <2> QED BY <2>1, <2>2, <2>3, <1>0, ExactKept
<1>9. ASSUME NEW t \in Task, FetchTimeOut(t) PROVE ExactOf(u)'
  <2>1. UNCHANGED <<tick, overflows, pendedTicks>>
    BY <1>9 DEF FetchTimeOut, Advance, timeVars
  <2>2. CASE u # t
    <3>1. /\ UNCHANGED <<ticks[u], want[u], entry[u]>>
          /\ UNCHANGED <<pc[u], state[u], wake[u]>>
          /\ age'[u] = age[u]
      BY <1>9, <2>2 DEF FetchTimeOut, Advance, taskVars, timeVars
    <3> QED BY <2>1, <3>1, <1>0, ExactKept
  <2>3. UNCHANGED <<want, age, state, wake>> /\ state[t] = "ready"
    BY <1>9 DEF FetchTimeOut, Advance, timeVars, taskVars, SleepInv
  <2>4. CASE u = t /\ Expired(t)
    <3>1. ticks'[t] = 0
      BY <1>9, <2>4 DEF FetchTimeOut
    <3> QED BY <1>0, <2>4, <3>1 DEF ExactOf
  <2>5. CASE u = t /\ ~Expired(t) /\ ticks[t] = MaxDelay
    <3>1. UNCHANGED <<ticks, entry>> /\ want[t] = MaxDelay
      BY <1>9, <2>5 DEF FetchTimeOut, LeftInv, LeftOf
    <3> QED BY <1>0, <2>3, <2>5, <3>1 DEF ExactOf
  <2>6. CASE u = t /\ ~Expired(t) /\ ticks[t] # MaxDelay
    <3>1. ticks'[t] = ticks[t] - Elapsed(t) /\ entry'[t] = Now
      BY <1>9, <2>6 DEF FetchTimeOut
    <3>2. /\ want[t] # MaxDelay /\ Elapsed(t) \in Nat /\ Begun(t) <= Clock
          /\ entry[t].set /\ ticks[t] # 0
      BY <1>9, <2>6, TimeUp DEF FetchTimeOut, LeftInv, LeftOf, ClockInv,
         Setting
    <3>3. /\ age[t] \in Nat /\ ticks[t] \in Nat /\ want[t] \in Nat
          /\ pendedTicks \in Nat /\ Clock \in Nat /\ Begun(t) \in Nat
          /\ FirstTick \in Nat /\ interrupts \in Nat /\ interrupts <= MaxTicks
          /\ MaxTicks \in Nat /\ TickMod \in Nat
      BY Clocks, QueueAssumption
    <3>4. /\ Begun(t) >= FirstTick
          /\ age[t] + Begun(t) = Clock + pendedTicks + want[t] - ticks[t]
      BY <1>0, <2>6, <3>2 DEF ExactOf
    <3>5. Clock - Begun(t) = Elapsed(t)
      <4>1. Clock - Begun(t) < TickMod
        BY <1>0, <3>3, <3>4
      <4> QED BY <3>2, <4>1, SinceBegun
    <3>6. Begun(t)' = Clock /\ Clock' = Clock
      BY <2>1, <3>1 DEF Begun, Now, Clock
    <3>7. age[t] + Clock = Clock + pendedTicks + want[t] - (ticks[t] - Elapsed(t))
      <4>1. Clock = Begun(t) + Elapsed(t)
        BY <3>2, <3>3, <3>5
      <4> HIDE DEF KernelTypeOK, CallTypeOK
      <4> QED BY <3>2, <3>3, <3>4, <4>1
    <3>8. Clock >= FirstTick
      BY <3>2, <3>3, <3>4
    <3> QED BY <1>0, <2>1, <2>3, <2>6, <3>1, <3>6, <3>7, <3>8 DEF ExactOf
  <2> QED BY <2>2, <2>4, <2>5, <2>6
<1>10. ASSUME NEW t \in Task, FetchIsEmpty(t) PROVE ExactOf(u)'
  <2>1. UNCHANGED <<ticks, want, entry, age, tick, overflows, pendedTicks>>
    BY <1>10 DEF FetchIsEmpty, Advance, callVars, timeVars
  <2>2. \/ state'[u] \in {"ready", "away"}
        \/ state'[u] = state[u] /\ wake'[u] = wake[u]
    BY <1>10 DEF FetchIsEmpty, Advance, taskVars
  <2>3. pc'[u] \in {"empty", "place"} => pc[u] \in {"empty", "place"}
    BY <1>10 DEF FetchIsEmpty, Advance, callVars
  <2> QED BY <2>1, <2>2, <2>3, <1>0, ExactKept
<1>11. ASSUME NEW t \in Task, FetchPlace(t) PROVE ExactOf(u)'
  <2>1. UNCHANGED <<tick, overflows, pendedTicks>>
    BY <1>11 DEF FetchPlace, timeVars
  <2>2. CASE u # t
    <3>1. /\ UNCHANGED <<ticks[u], want[u], entry[u]>>
          /\ UNCHANGED <<pc[u], state[u], wake[u]>>
          /\ age'[u] = age[u]
      BY <1>11, <2>2 DEF FetchPlace
    <3> QED BY <2>1, <3>1, <1>0, ExactKept
  <2>3. CASE u = t
    <3> DEFINE due == (tick + ticks[t]) % TickMod
    <3>1. /\ UNCHANGED <<ticks, want, entry, age>> /\ pc[t] = "place"
          /\ state'[t] = DelayedList(t, due) /\ pc'[t] = "unlock"
          /\ wake'[t] = IF DelayedList(t, due) = "forever" THEN wake[t]
               ELSE due
      BY <1>11 DEF FetchPlace
    <3>2. due \in Nat
            /\ due = IF tick + ticks[t] < TickMod THEN tick + ticks[t]
                               ELSE (tick + ticks[t]) - TickMod
      BY AddTicks
    <3> HIDE DEF due
    <3>3. Clock' = Clock /\ Begun(t)' = Begun(t)
      BY <2>1, <3>1 DEF Clock, Begun
    <3>4. ASSUME entry[t].set, want[t] # MaxDelay, ticks[t] # 0
          PROVE  /\ state'[t] = "delayed" =>
                      overflows * TickMod + wake'[t] = Begun(t) + ticks[t]
                 /\ state'[t] = "overflow" =>
                      overflows * TickMod + TickMod + wake'[t] = Begun(t) + ticks[t]
      <4>1. Begun(t) = overflows * TickMod + tick
        BY <1>0, <2>3, <3>1, <3>4 DEF ExactOf, Clock
      <4>2. /\ overflows * TickMod \in Nat /\ TickMod \in Nat /\ tick \in Nat
            /\ ticks[t] \in Nat /\ ticks[t] < TickMod /\ tick < TickMod
        BY Clocks
      <4>3. state'[t] = "delayed" => due = tick + ticks[t] /\ wake'[t] = due
        BY <3>1, <3>2, <4>2 DEF DelayedList
      <4>4. state'[t] = "overflow" =>
              due = (tick + ticks[t]) - TickMod /\ wake'[t] = due
        BY <3>1, <3>2, <4>2 DEF DelayedList
      <4> QED BY <4>1, <4>2, <4>3, <4>4
    <3> QED BY <1>0, <2>1, <2>3, <3>1, <3>3, <3>4 DEF ExactOf
  <2> QED BY <2>2, <2>3
<1>12. ASSUME NEW t \in Task, FetchUnlock(t) PROVE ExactOf(u)'
  <2>1. UNCHANGED <<ticks, want, entry, age, tick, overflows, pendedTicks>>
    BY <1>12 DEF FetchUnlock, callVars, timeVars
  <2>2. \/ state'[u] \in {"ready", "away"}
        \/ state'[u] = state[u] /\ wake'[u] = wake[u]
    <3>1. PICK S \in SUBSET Task : Roused(S)
      BY <1>12, UnlockShape
    <3>2. wake' = wake
      BY <1>12 DEF FetchUnlock
    <3> QED BY <3>1, <3>2 DEF Roused
  <2>3. pc'[u] \in {"empty", "place"} => pc[u] \in {"empty", "place"}
    BY <1>12 DEF FetchUnlock, callVars
  <2> QED BY <2>1, <2>2, <2>3, <1>0, ExactKept
<1>13. ASSUME NEW t \in Task, FetchResume(t) PROVE ExactOf(u)'
  <2>1. UNCHANGED <<ticks, want, entry, age, tick, overflows, pendedTicks>>
    BY <1>13 DEF FetchResume, Resumed, AfterResume, callVars, timeVars
  <2>2. \/ state'[u] \in {"ready", "away"}
        \/ state'[u] = state[u] /\ wake'[u] = wake[u]
    BY <1>13 DEF FetchResume, Resumed, AfterResume, taskVars
  <2>3. pc'[u] \in {"empty", "place"} => pc[u] \in {"empty", "place"}
    BY <1>13 DEF FetchResume, Resumed, AfterResume, callVars
  <2> QED BY <2>1, <2>2, <2>3, <1>0, ExactKept
<1>14. ASSUME NEW t \in Task, FetchPendedTick(t) PROVE ExactOf(u)'
  <2>1. UNCHANGED <<ticks, want, entry, age>> /\ pendedTicks' = pendedTicks - 1
    BY <1>14 DEF FetchPendedTick
  <2>2. pendedTicks > 0 /\ pendedTicks \in Nat
    BY <1>14, QueueAssumption DEF FetchPendedTick, HoldInv, Masked
  <2>3. PICK switch \in BOOLEAN : Ticks(switch)
    BY <1>14, PendedShape
  <2>4. pc'[u] \notin {"empty", "place"}
    BY <1>14 DEF FetchPendedTick, Resumed, AfterResume, HoldInv, Holding
  <2> QED BY <2>1, <2>2, <2>3, <2>4, <1>0, ExactTicks
<1>15. ASSUME NEW t \in Task, FetchYield(t) PROVE ExactOf(u)'
  <2>1. UNCHANGED <<ticks, want, entry, age, tick, overflows, pendedTicks>>
    BY <1>15 DEF FetchYield, callVars, timeVars
  <2>2. \/ state'[u] \in {"ready", "away"}
        \/ state'[u] = state[u] /\ wake'[u] = wake[u]
    BY <1>15 DEF FetchYield, taskVars
  <2>3. pc'[u] \in {"empty", "place"} => pc[u] \in {"empty", "place"}
    BY <1>15 DEF FetchYield, callVars
  <2> QED BY <2>1, <2>2, <2>3, <1>0, ExactKept
<1>16. CASE UNCHANGED vars
  <2>1. UNCHANGED <<ticks, want, entry, age, tick, overflows, pendedTicks>>
    BY <1>16 DEF vars, callVars, timeVars
  <2>2. \/ state'[u] \in {"ready", "away"}
        \/ state'[u] = state[u] /\ wake'[u] = wake[u]
    BY <1>16 DEF vars, taskVars
  <2>3. pc'[u] \in {"empty", "place"} => pc[u] \in {"empty", "place"}
    BY <1>16 DEF vars, callVars
  <2> QED BY <2>1, <2>2, <2>3, <1>0, ExactKept
<1> QED BY <1>1, <1>2, <1>3, <1>4, <1>5, <1>6, <1>7, <1>8, <1>9, <1>10, <1>11,
           <1>12, <1>13, <1>14, <1>15, <1>16 DEF Next, Fetch

-----------------------------------------------------------------------------
\* The invariant holds when the queue has been made.
LEMMA InitIInv == Init => IInv
<1> SUFFICES ASSUME Init PROVE IInv
  OBVIOUS
<1> USE IdleAssumption, QueueAssumption DEF Init
<1>1. /\ \A t \in Task : /\ pc[t] = "idle" /\ state[t] = "away"
                        /\ why[t] = "retry" /\ ticks[t] = 0 /\ want[t] = 0
                        /\ entry[t] = NoEntry /\ age[t] = 0
      /\ waiting = <<>> /\ count = 0 /\ txLock = 0 /\ pendReady = {}
      /\ cur = Idle /\ pendedTicks = 0 /\ suspended = FALSE
  OBVIOUS
<1>2. 0 \in Tick /\ MaxDelay \in Tick /\ FirstTick \in Tick
      /\ NoEntry \in [at : Tick, ovf : Nat, set : BOOLEAN]
  BY DEF Tick, MaxDelay, NoEntry
<1>3. KernelTypeOK
  <2>1. 0 \in 0 .. NumberOfTasks + 1 /\ 0 \in 0 .. MaxTicks /\ 0 \in 0 .. 0
    OBVIOUS
  <2>2. tick \in Tick /\ nextUnblock \in Tick /\ overflows \in Nat
    BY <1>2
  <2> QED BY <1>1, <2>1, <2>2 DEF KernelTypeOK
<1>4. CallTypeOK
  BY <1>2 DEF CallTypeOK
<1>5. HoldInv
  BY <1>1 DEF HoldInv, Holding, Locking, Masked
<1>6. SleepInv
  BY <1>1 DEF SleepInv, Asleep
<1>7. ListInv
  BY <1>1 DEF ListInv
<1>8. PostInv
  BY <1>1 DEF PostInv, NoLostWakeup
<1>9. RankInv /\ DelayedAreAhead
  BY <1>1 DEF RankInv, DelayedAreAhead
<1>10. LeftInv
  BY <1>1 DEF LeftInv, LeftOf, Asleep, NoEntry, Setting
<1>11. ClockInv
  BY <1>1 DEF ClockInv, ClockOf, NoEntry
<1> QED BY <1>3, <1>4, <1>5, <1>6, <1>7, <1>8, <1>9, <1>10, <1>11, InitQInv
    DEF IInv

\* Every step preserves it.
LEMMA StepIInv == IInv /\ [Next]_vars => IInv'
<1> SUFFICES ASSUME IInv, [Next]_vars PROVE IInv'
  OBVIOUS
<1>1. QInv'
  BY StepQInv DEF IInv
<1> QED BY <1>1, StepKernelTypeOK, StepCallTypeOK, StepHoldInv, StepSleepInv,
           StepListInv, StepPostInv, StepRankInv, StepDelayedAreAhead,
           StepLeftInv, StepClockInv DEF IInv

\* So it always holds.
LEMMA IInvariant == Spec => []IInv
BY InitIInv, StepIInv, PTL DEF Spec

-----------------------------------------------------------------------------
(* The theorems.                                                           *)

\* Every variable keeps to its type, whatever the tasks and the interrupts do.
THEOREM TypeCorrect == Spec => []TypeOK
<1>1. IInv => TypeOK
  <2> SUFFICES ASSUME IInv PROVE TypeOK
    OBVIOUS
  <2>1. \A n \in 0 .. interrupts : n \in 0 .. MaxTicks
    BY QueueAssumption DEF IInv, KernelTypeOK
  <2>2. pendedTicks \in 0 .. MaxTicks /\ age \in [Task -> 0 .. MaxTicks]
    BY <2>1 DEF IInv, KernelTypeOK, CallTypeOK
  <2> QED BY <2>2 DEF IInv, QInv, StoreTypeOK, StoreInv, KernelTypeOK,
         CallTypeOK, ListInv, TypeOK
<1> QED BY <1>1, IInvariant, PTL

\* A reader that has gone to sleep beside an item is never forgotten: for
\* every number of tasks that prvLockQueue can count, and every order of posts,
\* looks at the queue and entries in its list.
THEOREM NoWakeupLost == Spec => []NoLostWakeup
<1>1. IInv => NoLostWakeup
  BY DEF IInv, PostInv
<1> QED BY <1>1, IInvariant, PTL

\* Whenever no switch is held back, the running task is ready and no ready
\* task has a higher priority.
THEOREM ReadyRuns == Spec => []HighestRuns
<1>1. IInv => HighestRuns
  <2> SUFFICES ASSUME IInv, ~suspended, ~pendSV, ~Masked PROVE HighestRuns
    BY DEF HighestRuns
  <2>1. CASE cur \in Task /\ pc[cur] = "yield"
    BY <2>1, IdleAssumption DEF HighestRuns
  <2>2. CASE ~(cur \in Task /\ pc[cur] = "yield")
    <3>1. \A u \in Task : state[u] = "ready" => prio[u] <= PrioOf(cur)
      BY <2>2 DEF IInv, RankInv
    <3>2. cur \in Task \cup {Idle}
      BY DEF IInv, KernelTypeOK
    <3>3. ASSUME cur \in Task PROVE state[cur] = "ready"
      <4>1. pc[cur] \notin Holding /\ pc[cur] # "pended"
        BY <3>3 DEF IInv, HoldInv, Masked
      <4> QED BY <2>2, <3>3, <4>1 DEF IInv, SleepInv, Holding
    <3> QED BY <3>1, <3>2, <3>3 DEF HighestRuns
  <2> QED BY <2>1, <2>2
<1> QED BY <1>1, IInvariant, PTL

\* The delayed tasks wake before the tick count overflows, those on the other
\* list after it, and none before nextUnblock, for every tick the queue is
\* made at and every timeout.
THEOREM DelayedAhead == Spec => []DelayedAreAhead
<1>1. IInv => DelayedAreAhead
  BY DEF IInv
<1> QED BY <1>1, IInvariant, PTL

\* A call comes to its end in no other step.
LEMMA OnlyLeaves ==
  ASSUME IInv, Next, NEW t \in Task, pc[t] # "idle", pc'[t] = "idle"
  PROVE  FetchItem(t) \/ FetchNothing(t)
<1> USE DEF IInv, CallTypeOK, Goto
<1>1. CASE PostFromHandler \/ \E u \in Task : Post(u) \/ TryPost(u)
  BY <1>1, PostShape DEF callVars
<1>2. CASE SysTick \/ \E u \in Task \cup {Idle} : SwitchContext(u)
  BY <1>2 DEF SysTick, SwitchContext, callVars
<1>3. ASSUME NEW u \in Task,
             Return(u) \/ GoAway(u) \/ \E w \in Waits : StartFetch(u, w)
      PROVE  FALSE
  BY <1>3 DEF Return, GoAway, StartFetch, callVars
<1>4. ASSUME NEW u \in Task,
             \/ FetchWait(u) \/ FetchSuspend(u) \/ FetchLock(u)
             \/ FetchTimeOut(u) \/ FetchIsEmpty(u) \/ FetchPlace(u)
             \/ FetchUnlock(u) \/ FetchYield(u) \/ FetchExpiredAgain(u)
      PROVE  FALSE
  BY <1>4 DEF FetchWait, FetchSuspend, FetchLock, FetchTimeOut, FetchIsEmpty,
     FetchPlace, FetchUnlock, FetchYield, FetchExpiredAgain, Advance
<1>5. ASSUME NEW u \in Task, FetchResume(u) \/ FetchPendedTick(u)
      PROVE  FALSE
  BY <1>5 DEF FetchResume, FetchPendedTick, Resumed, AfterResume
<1>6. ASSUME NEW u \in Task, FetchItem(u) \/ FetchNothing(u)
      PROVE  u = t
  BY <1>6 DEF FetchItem, FetchNothing, Leave
<1> QED BY <1>1, <1>2, <1>3, <1>4, <1>5, <1>6 DEF Next, Fetch

\* A fetch does not give up before all of its timeout has passed, however
\* often it was woken for nothing and wherever the tick count overflowed.
THEOREM NeverEarly == Spec => NoEarlyTimeout
<1> DEFINE A == \A t \in Task :
                  (t \in Fetching /\ t \notin Fetching' /\ fetched' = fetched)
                    => want[t] # MaxDelay /\ age[t] >= want[t]
<1>1. ASSUME IInv, Next PROVE A
  <2> SUFFICES ASSUME NEW t \in Task, pc[t] # "idle", pc'[t] = "idle",
                      fetched' = fetched
               PROVE  want[t] # MaxDelay /\ age[t] >= want[t]
    BY DEF Fetching
  <2>1. ticks[t] = 0
    <3>1. CASE FetchNothing(t)
      BY <1>1, <3>1 DEF FetchNothing, Runs, IInv, LeftInv, LeftOf
    <3>2. CASE FetchItem(t)
      <4>1. fetched \in Seq(Item)
        BY <1>1 DEF IInv, QInv, StoreTypeOK
      <4>2. PICK x : fetched' = Append(fetched, x)
        BY <3>2 DEF FetchItem
      <4> QED BY <4>1, <4>2
    <3> QED BY <1>1, <3>1, <3>2, OnlyLeaves
  <2> QED BY <1>1, <2>1 DEF IInv, LeftInv, LeftOf
<1>2. ASSUME IInv, UNCHANGED vars PROVE A
  BY <1>2 DEF vars, callVars, Fetching
<1>3. IInv /\ [Next]_vars => [A]_vars
  BY <1>1, <1>2
<1>4. Spec => [][A]_vars
  BY <1>3, IInvariant, PTL DEF Spec
<1> QED BY <1>4 DEF NoEarlyTimeout

\* The exact account of time always holds within a round of the tick count.
LEMMA ExactInvariant == MaxTicks < TickMod => (Spec => [](IInv /\ ExactInv))
<1> SUFFICES ASSUME MaxTicks < TickMod PROVE Spec => [](IInv /\ ExactInv)
  OBVIOUS
<1>1. Init => IInv /\ ExactInv
  <2> SUFFICES ASSUME Init PROVE IInv /\ ExactInv
    OBVIOUS
  <2>1. IInv
    BY InitIInv
  <2>2. Clock + pendedTicks = FirstTick + interrupts
    BY QueueAssumption DEF Init, Clock, MaxDelay
  <2>3. \A t \in Task : ~entry[t].set
    BY DEF Init, NoEntry
  <2> QED BY <2>1, <2>2, <2>3 DEF ExactInv, ExactOf
<1>2. (IInv /\ ExactInv) /\ [Next]_vars => (IInv /\ ExactInv)'
  <2> SUFFICES ASSUME IInv, ExactInv, [Next]_vars PROVE (IInv /\ ExactInv)'
    OBVIOUS
  <2>1. IInv'
    BY StepIInv
  <2>2. (Clock + pendedTicks = FirstTick + interrupts)'
    BY CountedTicks DEF ExactInv
  <2>3. \A t \in Task : ExactOf(t)'
    BY StepExactInv
  <2> QED BY <2>1, <2>2, <2>3 DEF ExactInv
<1> QED BY <1>1, <1>2, PTL DEF Spec

\* A reader whose time is over does not go on sleeping, as long as the tick
\* count has not come all the way round since the queue was made: whatever
\* tick it was made at, across an overflow and with ticks made up for.
THEOREM WokenInTime == MaxTicks < TickMod => (Spec => []WokenOnTime)
<1> SUFFICES ASSUME MaxTicks < TickMod PROVE Spec => []WokenOnTime
  OBVIOUS
<1>1. IInv /\ ExactInv => WokenOnTime
  <2> SUFFICES ASSUME IInv, ExactInv, NEW t \in Task,
                      state[t] \in {"delayed", "overflow"}
               PROVE  age[t] < want[t] + pendedTicks
    BY DEF WokenOnTime
  <2>1. entry[t].set /\ want[t] # MaxDelay /\ ticks[t] # 0
    BY DEF IInv, LeftInv, LeftOf, SleepInv, Asleep
  <2>2. /\ age[t] + Begun(t) = Clock + pendedTicks + want[t] - ticks[t]
        /\ state[t] = "delayed" =>
             overflows * TickMod + wake[t] = Begun(t) + ticks[t]
        /\ state[t] = "overflow" =>
             overflows * TickMod + TickMod + wake[t] = Begun(t) + ticks[t]
    BY <2>1 DEF ExactInv, ExactOf
  <2>3. state[t] = "delayed" => wake[t] > tick
    BY DEF IInv, DelayedAreAhead
  <2>4. /\ Clock \in Nat /\ tick \in Nat /\ tick < TickMod /\ TickMod \in Nat
        /\ overflows * TickMod \in Nat /\ wake[t] \in Nat /\ Begun(t) \in Nat
        /\ age[t] \in Nat /\ want[t] \in Nat /\ ticks[t] \in Nat
        /\ pendedTicks \in Nat
    BY Clocks, QueueAssumption DEF IInv, KernelTypeOK
  <2>5. Clock = overflows * TickMod + tick
    BY DEF Clock
  <2>6. Clock < Begun(t) + ticks[t]
    BY <2>2, <2>3, <2>4, <2>5
  <2>7. age[t] = (Clock - (Begun(t) + ticks[t])) + (pendedTicks + want[t])
    BY <2>2, <2>4
  <2> QED BY <2>4, <2>6, <2>7
<1> QED BY <1>1, ExactInvariant, PTL

-----------------------------------------------------------------------------
(* The order of the waiting list.                                          *)

\* A set of places that has with a place all before it is an interval.
LEMMA Prefix ==
  ASSUME NEW m \in Nat, NEW A \in SUBSET (1 .. m),
         \A i \in A : \A j \in 1 .. i : j \in A
  PROVE  A = 1 .. Cardinality(A)
<1> DEFINE B == (1 .. m + 1) \ A
<1>1. B \in SUBSET Nat /\ B # {}
  BY m + 1 \in B
<1>2. PICK k \in B : \A j \in B : k <= j
  BY <1>1, LeastExists
<1>3. \A j \in 1 .. k - 1 : j \in A
  BY <1>2
<1>4. \A j \in A : j < k
  BY <1>2
<1>5. k \in 1 .. m + 1
  BY <1>2
<1> HIDE DEF B
<1>6. A = 1 .. k - 1
  <2>1. \A j \in A : j \in Nat /\ 1 <= j /\ j <= k - 1
    BY <1>4, <1>5
  <2>2. \A j \in A : j \in 1 .. k - 1
    BY <1>5, <2>1
  <2> QED BY <1>3, <2>2
<1>7. Cardinality(1 .. k - 1) = k - 1
  BY <1>5, FS_Interval
<1> QED BY <1>6, <1>7

\* Taking away leaves the others in the order they were in.
Thinned(S) ==
  /\ Waiters' \subseteq Waiters
  /\ \A t, u : Ahead(t, u)' => Ahead(t, u)
  /\ \A t, u : Ahead(t, u) /\ t \notin S /\ u \notin S => Ahead(t, u)'

\* Adding t does so too, and t goes before those it outranks only.
Entered(t) ==
  /\ Waiters' \subseteq Waiters \cup {t}
  /\ \A u, v : Ahead(u, v) => Ahead(u, v)'
  /\ \A u \in Waiters : prio[u] >= prio[t] => Ahead(u, t)'
  /\ \A u, v : Ahead(u, v)' =>
       \/ Ahead(u, v)
       \/ v = t /\ u \in Waiters /\ prio[u] >= prio[t]
       \/ u = t /\ v \in Waiters /\ ~(prio[v] >= prio[t])

\* xTaskRemoveFromEventList: nobody before one that is woken sleeps on.
LEMMA FirstGo ==
  ASSUME ListInv, NEW n \in 0 .. Len(waiting), RemoveFromEventList(n)
  PROVE  \E S : /\ Thinned(S)
                /\ \A t \in S : t \notin Waiters'
                /\ \A t, u : Ahead(t, u) /\ u \in S => t \in S
<1>1. waiting \in Seq(Task) /\ DOMAIN waiting = 1 .. Len(waiting)
      /\ Len(waiting) \in Nat
      /\ \A i \in 1 .. Len(waiting) : waiting[i] \in Task
  BY DEF ListInv
<1>2. /\ Len(waiting') = Len(waiting) - n
      /\ waiting' \in Seq(Task)
      /\ Waiters' \subseteq Waiters \ First(n)
  BY FirstShape
<1>3. \A i \in 1 .. Len(waiting) - n : waiting'[i] = waiting[n + i]
  <2> DEFINE k == Len(waiting)
             w == SubSeq(waiting, n + 1, k)
  <2>1. k \in Nat /\ n \in 0 .. k /\ \A i \in n + 1 .. k : waiting[i] \in Task
    BY <1>1
  <2>2. w = waiting'
    BY DEF RemoveFromEventList
  <2> HIDE DEF k
  <2>3. \A i \in 1 .. k - n : w[i] = waiting[n + i]
    BY <2>1, SubSeqProperties
  <2> QED BY <2>2, <2>3 DEF k
<1>4. DOMAIN waiting' = 1 .. Len(waiting) - n
  BY <1>1, <1>2
<1>5. \A i \in DOMAIN waiting : waiting[i] \in First(n) <=> i <= n
  BY <1>1 DEF First, ListInv
<1>6. ASSUME NEW t, NEW u, Ahead(t, u)' PROVE Ahead(t, u)
  <2>1. PICK i, j \in DOMAIN waiting' :
          i < j /\ waiting'[i] = t /\ waiting'[j] = u
    BY <1>6 DEF Ahead
  <2>2. /\ n + i \in DOMAIN waiting /\ n + j \in DOMAIN waiting
        /\ n + i < n + j /\ waiting[n + i] = t /\ waiting[n + j] = u
    BY <1>1, <1>3, <1>4, <2>1
  <2> QED BY <2>2 DEF Ahead
<1>7. ASSUME NEW t, NEW u, Ahead(t, u), t \notin First(n), u \notin First(n)
      PROVE  Ahead(t, u)'
  <2>1. PICK i, j \in DOMAIN waiting :
          i < j /\ waiting[i] = t /\ waiting[j] = u
    BY <1>7 DEF Ahead
  <2>2. i > n /\ j > n /\ i \in 1 .. Len(waiting) /\ j \in 1 .. Len(waiting)
    BY <1>1, <1>5, <1>7, <2>1
  <2>3. /\ i - n \in DOMAIN waiting' /\ j - n \in DOMAIN waiting'
        /\ i - n < j - n /\ waiting'[i - n] = t /\ waiting'[j - n] = u
    <3>1. i - n \in 1 .. Len(waiting) - n /\ j - n \in 1 .. Len(waiting) - n
          /\ n + (i - n) = i /\ n + (j - n) = j
      BY <1>1, <2>2
    <3> QED BY <1>1, <1>3, <1>4, <2>1, <2>2, <3>1
  <2> QED BY <2>3 DEF Ahead
<1>8. ASSUME NEW t, NEW u, Ahead(t, u), u \in First(n)
      PROVE  t \in First(n)
  <2>1. PICK i, j \in DOMAIN waiting :
          i < j /\ waiting[i] = t /\ waiting[j] = u
    BY <1>8 DEF Ahead
  <2> QED BY <1>1, <1>5, <1>8, <2>1
<1> QED BY <1>2, <1>6, <1>7, <1>8 DEF Thinned

\* The tasks whose time is over are taken out wherever they are.
LEMMA DueGo ==
  ASSUME ListInv, NEW S, waiting' \in Without(S)
  PROVE  Thinned(S)
<1> DEFINE stay == {i \in DOMAIN waiting : waiting[i] \notin S}
           n == Cardinality(stay)
<1>1. waiting \in Seq(Task) /\ DOMAIN waiting = 1 .. Len(waiting)
      /\ Len(waiting) \in Nat
  BY DEF ListInv
<1>2. IsFiniteSet(stay) /\ n \in Nat
  <2>1. stay \in SUBSET (1 .. Len(waiting))
    BY <1>1
  <2>2. IsFiniteSet(1 .. Len(waiting))
    BY <1>1, FS_Interval
  <2> HIDE DEF stay
  <2> QED BY <2>1, <2>2, FS_Subset, FS_CardinalityType
<1>3. PICK f \in [1 .. n -> stay] :
        /\ \A j, k \in 1 .. n : j < k => f[j] < f[k]
        /\ waiting' = [k \in 1 .. n |-> waiting[f[k]]]
  BY DEF Without
<1>4. \A i \in stay : i \in DOMAIN waiting /\ i \in Nat
  BY <1>1
<1>5. \A i \in DOMAIN waiting : waiting[i] \notin S => i \in stay
  OBVIOUS
<1> HIDE DEF stay, n
<1>6. DOMAIN waiting' = 1 .. n /\ \A k \in 1 .. n : waiting'[k] = waiting[f[k]]
  BY <1>3
<1>7. \A i \in stay : \E k \in 1 .. n : f[k] = i
  <2>1. f \in Injection(1 .. n, stay)
    <3>1. ASSUME NEW j \in 1 .. n, NEW k \in 1 .. n, f[j] = f[k] PROVE j = k
      <4>1. f[j] \in Nat /\ f[k] \in Nat
        BY <1>3, <1>4
      <4>2. ~(j < k) /\ ~(k < j)
        BY <1>3, <3>1, <4>1
      <4> QED BY <1>2, <4>2
    <3> QED BY <1>3, <3>1 DEF Injection, IsInjective
  <2>2. Cardinality(1 .. n) = Cardinality(stay)
    BY <1>2, FS_Interval DEF n
  <2>3. f \in Surjection(1 .. n, stay)
    BY <1>2, <2>1, <2>2, FS_Injection
  <2> QED BY <2>3 DEF Surjection
<1>8. Waiters' \subseteq Waiters
  <2> SUFFICES ASSUME NEW k \in 1 .. n PROVE waiting'[k] \in Waiters
    BY <1>6 DEF Waiters
  <2>1. f[k] \in DOMAIN waiting /\ waiting'[k] = waiting[f[k]]
    BY <1>3, <1>4, <1>6
  <2> QED BY <2>1 DEF Waiters
<1>9. ASSUME NEW t, NEW u, Ahead(t, u)' PROVE Ahead(t, u)
  <2>1. PICK i, j \in 1 .. n : i < j /\ waiting'[i] = t /\ waiting'[j] = u
    BY <1>6, <1>9 DEF Ahead
  <2>2. /\ f[i] \in DOMAIN waiting /\ f[j] \in DOMAIN waiting /\ f[i] < f[j]
        /\ waiting[f[i]] = t /\ waiting[f[j]] = u
    BY <1>3, <1>4, <1>6, <2>1
  <2> QED BY <2>2 DEF Ahead
<1>10. ASSUME NEW t, NEW u, Ahead(t, u), t \notin S, u \notin S
       PROVE  Ahead(t, u)'
  <2>1. PICK i, j \in DOMAIN waiting :
          i < j /\ waiting[i] = t /\ waiting[j] = u
    BY <1>10 DEF Ahead
  <2>2. i \in stay /\ j \in stay
    BY <1>5, <1>10, <2>1
  <2>3. PICK k \in 1 .. n : f[k] = i
    BY <1>7, <2>2
  <2>4. PICK l \in 1 .. n : f[l] = j
    BY <1>7, <2>2
  <2>5. k < l
    <3>1. ~(l < k) /\ l # k
      BY <1>1, <1>3, <2>1, <2>3, <2>4
    <3> QED BY <1>2, <3>1
  <2>6. waiting'[k] = t /\ waiting'[l] = u
    BY <1>6, <2>1, <2>3, <2>4
  <2> QED BY <1>6, <2>5, <2>6 DEF Ahead
<1> QED BY <1>8, <1>9, <1>10 DEF Thinned

\* vListInsert into a list in the order of priorities.
LEMMA EnterShape ==
  ASSUME CallTypeOK, ListInv, HighestFirst, prio \in [Task -> Priorities],
         NEW t \in Task, t \notin Waiters, waiting' = InsertWaiting(t)
  PROVE  Entered(t)
<1> DEFINE m == Len(waiting)
           n == Cardinality(Over(t))
           g(i) == IF i <= n THEN i ELSE i + 1
<1>1. /\ waiting \in Seq(Task) /\ DOMAIN waiting = 1 .. m /\ m \in Nat
      /\ \A i \in 1 .. m : waiting[i] \in Task
  BY DEF ListInv
<1>2. \A u \in Task : prio[u] \in Nat
  BY QueueAssumption
<1>3. Over(t) = 1 .. n
  <2>1. Over(t) \in SUBSET (1 .. m)
    BY <1>1 DEF Over
  <2>2. ASSUME NEW i \in Over(t), NEW j \in 1 .. i PROVE j \in Over(t)
    <3>1. i \in 1 .. m /\ j \in 1 .. m /\ (j < i \/ j = i)
      BY <1>1, <2>1
    <3>2. prio[waiting[i]] >= prio[t]
      BY DEF Over
    <3>3. j < i => prio[waiting[j]] >= prio[waiting[i]]
      BY <1>1, <3>1 DEF HighestFirst, Ahead
    <3>4. prio[waiting[j]] >= prio[t]
      BY <1>1, <1>2, <3>1, <3>2, <3>3
    <3> QED BY <1>1, <3>1, <3>4 DEF Over
  <2> HIDE DEF m
  <2> QED BY <1>1, <2>1, <2>2, Prefix
<1>4. /\ n \in 0 .. m
      /\ waiting' \in Seq(Task) /\ DOMAIN waiting' = 1 .. m + 1
      /\ \A i \in 1 .. m + 1 :
           waiting'[i] = IF i <= n THEN waiting[i]
                         ELSE IF i = n + 1 THEN t ELSE waiting[i - 1]
  <2>1. /\ n \in 0 .. m
        /\ waiting' \in Seq(Task) /\ Len(waiting') = m + 1
        /\ \A i \in 1 .. m + 1 :
             waiting'[i] = IF i <= n THEN waiting[i]
                           ELSE IF i = n + 1 THEN t ELSE waiting[i - 1]
    BY InsertAt
  <2> HIDE DEF m, n
  <2> QED BY <2>1
<1>5. \A i \in 1 .. m : i <= n <=> prio[waiting[i]] >= prio[t]
  <2>1. \A i \in 1 .. m : i \in Over(t) <=> prio[waiting[i]] >= prio[t]
    BY <1>1 DEF Over
  <2> HIDE DEF m, n
  <2> QED BY <1>3, <1>4, <2>1
<1> HIDE DEF m, n
<1>6. ASSUME NEW i \in 1 .. m
      PROVE  g(i) \in 1 .. m + 1 /\ waiting'[g(i)] = waiting[i]
  <2>1. CASE i <= n
    BY <1>1, <1>4, <2>1
  <2>2. CASE i > n
    <3>1. g(i) = i + 1 /\ i + 1 \in 1 .. m + 1 /\ ~(i + 1 <= n)
          /\ i + 1 # n + 1 /\ (i + 1) - 1 = i
      BY <1>1, <1>4, <2>2
    <3> QED BY <1>4, <3>1
  <2> QED BY <1>1, <1>4, <2>1, <2>2
<1>7. \A i, j \in 1 .. m : i < j => g(i) < g(j)
  BY <1>1, <1>4
<1>8. n + 1 \in 1 .. m + 1 /\ waiting'[n + 1] = t
  BY <1>1, <1>4
<1>9. ASSUME NEW k \in 1 .. m + 1, k # n + 1
      PROVE  \E i \in 1 .. m : k = g(i)
  <2>1. CASE k <= n
    BY <1>1, <1>4, <2>1
  <2>2. CASE k > n + 1
    <3>1. k - 1 \in 1 .. m /\ g(k - 1) = k
      BY <1>1, <1>4, <2>2
    <3> QED BY <3>1
  <2> QED BY <1>1, <1>4, <1>9, <2>1, <2>2
<1>10. \A i \in 1 .. m :
         /\ i <= n => g(i) < n + 1
         /\ ~(i <= n) => n + 1 < g(i)
  BY <1>1, <1>4
<1>11. \A i, j \in 1 .. m : g(i) < g(j) => i < j
  BY <1>1, <1>4
<1> HIDE DEF g
<1>12. Waiters' \subseteq Waiters \cup {t}
  <2> SUFFICES ASSUME NEW k \in 1 .. m + 1
               PROVE  waiting'[k] \in Waiters \cup {t}
    BY <1>4 DEF Waiters
  <2>1. CASE k = n + 1
    BY <1>8, <2>1
  <2>2. CASE k # n + 1
    <3>1. PICK i \in 1 .. m : k = g(i)
      BY <1>9, <2>2
    <3>2. waiting'[k] = waiting[i] /\ i \in DOMAIN waiting
      BY <1>1, <1>6, <3>1
    <3> QED BY <3>2 DEF Waiters
  <2> QED BY <2>1, <2>2
<1>13. ASSUME NEW u, NEW v, Ahead(u, v) PROVE Ahead(u, v)'
  <2>1. PICK i, j \in 1 .. m : i < j /\ waiting[i] = u /\ waiting[j] = v
    BY <1>1, <1>13 DEF Ahead
  <2>2. /\ g(i) \in DOMAIN waiting' /\ g(j) \in DOMAIN waiting'
        /\ g(i) < g(j) /\ waiting'[g(i)] = u /\ waiting'[g(j)] = v
    BY <1>4, <1>6, <1>7, <2>1
  <2> QED BY <2>2 DEF Ahead
<1>14. ASSUME NEW u \in Waiters, prio[u] >= prio[t] PROVE Ahead(u, t)'
  <2>1. PICK i \in 1 .. m : waiting[i] = u
    BY <1>1 DEF Waiters
  <2>2. i <= n
    BY <1>5, <1>14, <2>1
  <2>3. g(i) \in 1 .. m + 1 /\ waiting'[g(i)] = u
    BY <1>6, <2>1
  <2>4. g(i) < n + 1
    BY <1>10, <2>2
  <2>5. g(i) \in DOMAIN waiting' /\ n + 1 \in DOMAIN waiting'
    BY <1>4, <1>8, <2>3
  <2> QED BY <1>8, <2>3, <2>4, <2>5 DEF Ahead
<1>15. ASSUME NEW u, NEW v, Ahead(u, v)'
       PROVE  \/ Ahead(u, v)
              \/ v = t /\ u \in Waiters /\ prio[u] >= prio[t]
              \/ u = t /\ v \in Waiters /\ ~(prio[v] >= prio[t])
  <2>1. PICK k, l \in 1 .. m + 1 :
          k < l /\ waiting'[k] = u /\ waiting'[l] = v
    BY <1>4, <1>15 DEF Ahead
  <2>2. CASE k # n + 1 /\ l # n + 1
    <3>1. PICK i \in 1 .. m : k = g(i)
      BY <1>9, <2>2
    <3>2. PICK j \in 1 .. m : l = g(j)
      BY <1>9, <2>2
    <3>3. /\ i \in DOMAIN waiting /\ j \in DOMAIN waiting /\ i < j
          /\ waiting[i] = u /\ waiting[j] = v
      BY <1>1, <1>6, <1>11, <2>1, <3>1, <3>2
    <3> QED BY <3>3 DEF Ahead
  <2>3. CASE l = n + 1
    <3>1. k # n + 1 /\ v = t
      BY <1>1, <1>8, <2>1, <2>3
    <3>2. PICK i \in 1 .. m : k = g(i)
      BY <1>9, <3>1
    <3>3. i \in DOMAIN waiting /\ waiting[i] = u
      BY <1>1, <1>6, <2>1, <3>2
    <3>4. i <= n
      <4>1. ~(n + 1 < g(i))
        BY <1>1, <1>4, <2>1, <2>3, <3>2
      <4> QED BY <1>10, <4>1
    <3>5. u \in Waiters /\ prio[u] >= prio[t]
      BY <1>5, <3>3, <3>4 DEF Waiters
    <3> QED BY <3>1, <3>5
  <2>4. CASE k = n + 1
    <3>1. l # n + 1 /\ u = t
      BY <1>1, <1>8, <2>1, <2>4
    <3>2. PICK i \in 1 .. m : l = g(i)
      BY <1>9, <3>1
    <3>3. i \in DOMAIN waiting /\ waiting[i] = v
      BY <1>1, <1>6, <2>1, <3>2
    <3>4. ~(i <= n)
      <4>1. ~(g(i) < n + 1)
        BY <1>1, <1>4, <2>1, <2>4, <3>2
      <4> QED BY <1>10, <4>1
    <3>5. v \in Waiters /\ ~(prio[v] >= prio[t])
      BY <1>5, <3>3, <3>4 DEF Waiters
    <3> QED BY <3>1, <3>5
  <2> QED BY <2>2, <2>3, <2>4
<1> QED BY <1>12, <1>13, <1>14, <1>15 DEF Entered

\* What a step does to the waiting list.
Moves ==
  \/ \E S : /\ Thinned(S) /\ \A t \in S : t \notin Waiters'
            /\ \/ \A t, u : Ahead(t, u) /\ u \in S => t \in S
               \/ tick' # tick
  \/ \E t \in Task : t \notin Waiters /\ Entered(t)

LEMMA SameMoves == ASSUME waiting' = waiting PROVE Moves
<1>1. Thinned({})
  BY DEF Thinned, Ahead, Waiters
<1> QED BY <1>1 DEF Moves

LEMMA TickMoves ==
  ASSUME KernelTypeOK, ListInv, NEW switch \in BOOLEAN, IncrementTick(switch)
  PROVE  Moves
<1>1. PICK S : waiting' \in Without(S)
  BY DEF IncrementTick
<1>2. Thinned(S)
  BY <1>1, DueGo
<1>3. \A t \in S : t \notin Waiters'
  BY <1>1, WithoutShape DEF Waiters
<1>4. tick' # tick
  <2>1. tick' = (tick + 1) % TickMod
    BY DEF IncrementTick
  <2>2. tick \in 0 .. TickMod - 1
    BY DEF KernelTypeOK, Tick
  <2>3. CASE tick + 1 = TickMod
    BY <2>1, <2>2, <2>3, QueueAssumption
  <2>4. CASE tick + 1 # TickMod
    BY <2>1, <2>2, <2>4, QueueAssumption
  <2> QED BY <2>3, <2>4
<1> QED BY <1>2, <1>3, <1>4 DEF Moves

LEMMA RemoveMoves ==
  ASSUME ListInv, NEW n \in 0 .. Len(waiting), RemoveFromEventList(n)
  PROVE  Moves
BY FirstGo DEF Moves

LEMMA ListMoves ==
  ASSUME IInv, HighestFirst, [Next]_vars
  PROVE  prio' = prio /\ Moves
<1> USE DEF IInv
<1>1. CASE SysTick
  <2>1. prio' = prio
    BY <1>1 DEF SysTick
  <2>2. CASE suspended
    BY <1>1, <2>1, <2>2, SameMoves DEF SysTick, taskVars
  <2>3. CASE ~suspended
    BY <1>1, <2>1, <2>3, TickMoves DEF SysTick
  <2> QED BY <2>2, <2>3
<1>2. CASE PostFromHandler \/ \E t \in Task : Post(t) \/ TryPost(t)
  <2>1. prio' = prio
    BY <1>2 DEF PostFromHandler, Post, TryPost
  <2>2. UNCHANGED taskVars \/ WakeReceiver
    BY <1>2 DEF PostFromHandler, Post, TryPost, SendFromISR, Send, QueueFull
  <2>3. CASE UNCHANGED taskVars
    BY <2>1, <2>3, SameMoves DEF taskVars
  <2>4. CASE WakeReceiver
    <3>1. Len(waiting) \in Nat /\ (waiting # <<>> => 1 <= Len(waiting))
      BY DEF ListInv
    <3>2. PICK n \in 0 .. Len(waiting) : RemoveFromEventList(n)
      BY <2>4, <3>1 DEF WakeReceiver
    <3> QED BY <2>1, <3>2, RemoveMoves
  <2> QED BY <2>2, <2>3, <2>4
<1>3. ASSUME NEW t \in Task, FetchUnlock(t) PROVE prio' = prio /\ Moves
  <2> DEFINE n == IF txLock - 1 < Len(waiting) THEN txLock - 1 ELSE Len(waiting)
  <2>1. RemoveFromEventList(n) /\ prio' = prio
    BY <1>3 DEF FetchUnlock
  <2>2. Len(waiting) \in Nat /\ txLock \in Nat /\ txLock > 0
    BY <1>3, QueueAssumption
    DEF ListInv, KernelTypeOK, HoldInv, FetchUnlock, Runs, Locking
  <2>3. n \in 0 .. Len(waiting)
    BY <2>2
  <2> HIDE DEF n
  <2> QED BY <2>1, <2>3, RemoveMoves
<1>4. ASSUME NEW t \in Task, FetchPlace(t) PROVE prio' = prio /\ Moves
  <2>1. t \notin Waiters
    <3>1. state[t] = "ready"
      BY <1>4 DEF FetchPlace, Runs, SleepInv
    <3> QED BY <3>1 DEF ListInv, Waiters, Asleep
  <2>2. waiting' = InsertWaiting(t) /\ prio' = prio
    BY <1>4 DEF FetchPlace
  <2>3. Entered(t)
    BY <2>1, <2>2, EnterShape DEF KernelTypeOK, CallTypeOK
  <2> QED BY <2>1, <2>2, <2>3 DEF Moves
<1>5. ASSUME NEW t \in Task, FetchPendedTick(t) PROVE prio' = prio /\ Moves
  BY <1>5, TickMoves DEF FetchPendedTick
<1>6. ASSUME NEW t \in Task \cup {Idle}, SwitchContext(t)
      PROVE  prio' = prio /\ Moves
  BY <1>6, SameMoves DEF SwitchContext, taskVars
<1>7. ASSUME NEW t \in Task,
             Return(t) \/ GoAway(t) \/ \E w \in Waits : StartFetch(t, w)
      PROVE  prio' = prio /\ Moves
  BY <1>7, SameMoves DEF Return, GoAway, StartFetch, taskVars
<1>8. ASSUME NEW t \in Task, FetchItem(t) \/ FetchNothing(t)
      PROVE  prio' = prio /\ Moves
  BY <1>8, SameMoves DEF FetchItem, FetchNothing, Leave
<1>9. ASSUME NEW t \in Task,
             \/ FetchWait(t) \/ FetchSuspend(t) \/ FetchLock(t)
             \/ FetchTimeOut(t) \/ FetchIsEmpty(t) \/ FetchExpiredAgain(t)
             \/ FetchResume(t) \/ FetchYield(t)
      PROVE  prio' = prio /\ Moves
  BY <1>9, SameMoves
  DEF FetchWait, FetchSuspend, FetchLock, FetchTimeOut, FetchIsEmpty,
      FetchExpiredAgain, FetchResume, FetchYield, Advance, taskVars
<1>10. CASE UNCHANGED vars
  BY <1>10, SameMoves DEF vars, taskVars
<1> QED BY <1>1, <1>2, <1>3, <1>4, <1>5, <1>6, <1>7, <1>8, <1>9, <1>10
        DEF Next, Fetch

LEMMA StepHighestFirst ==
  IInv /\ HighestFirst /\ [Next]_vars => HighestFirst'
<1> SUFFICES ASSUME IInv, HighestFirst, [Next]_vars PROVE HighestFirst'
  OBVIOUS
<1>1. prio' = prio /\ Moves
  BY ListMoves
<1>2. Waiters \subseteq Task /\ \A t \in Task : prio[t] \in Nat
  <2>1. Waiters \subseteq Task
    BY DEF IInv, ListInv, Waiters
  <2>2. prio \in [Task -> Priorities] /\ Priorities \subseteq Nat \ {0}
    BY QueueAssumption DEF IInv, KernelTypeOK, CallTypeOK
  <2> QED BY <2>1, <2>2
<1> SUFFICES ASSUME NEW t \in Task, NEW u \in Task, Ahead(t, u)'
             PROVE  prio[t] >= prio[u]
  BY <1>1 DEF HighestFirst
<1>3. Ahead(t, u) => prio[t] >= prio[u]
  BY DEF HighestFirst
<1>4. ASSUME NEW S, Thinned(S) PROVE prio[t] >= prio[u]
  BY <1>3, <1>4 DEF Thinned
<1>5. ASSUME NEW e \in Task, Entered(e) PROVE prio[t] >= prio[u]
  BY <1>2, <1>3, <1>5 DEF Entered
<1> QED BY <1>1, <1>4, <1>5 DEF Moves

LEMMA OrderInvariant == Spec => [](IInv /\ HighestFirst)
<1>1. Init => HighestFirst
  BY DEF Init, HighestFirst, Ahead
<1> QED BY <1>1, IInvariant, StepHighestFirst, PTL DEF Spec

\* The list of waiting readers is in the order of their priorities, for any
\* number of readers: a post wakes one of the highest.
THEOREM HighestWaitsFirst == Spec => []HighestFirst
BY OrderInvariant, PTL

\* No reader is woken before one that waits in front of it, and none that
\* comes later with the same priority gets in front, for any number of
\* readers, timeouts and posts while the queue is locked.
THEOREM NobodyOvertakes == Spec => WokenInOrder
<1> DEFINE A == \A t, u \in Task :
                  t \in Waiters /\ t \in Waiters' /\ prio[t] >= prio[u] =>
                    /\ Ahead(t, u) => \/ Ahead(t, u)'
                                      \/ u \notin Waiters' /\ tick' # tick
                    /\ u \in Waiters' \ Waiters => Ahead(t, u)'
<1>1. ASSUME IInv, HighestFirst, [Next]_vars PROVE A
  <2>1. Moves
    BY <1>1, ListMoves
  <2> SUFFICES ASSUME NEW t \in Task, NEW u \in Task,
                      t \in Waiters, t \in Waiters', prio[t] >= prio[u]
               PROVE  /\ Ahead(t, u) => \/ Ahead(t, u)'
                                        \/ u \notin Waiters' /\ tick' # tick
                      /\ u \in Waiters' \ Waiters => Ahead(t, u)'
    OBVIOUS
  <2>2. ASSUME NEW S, Thinned(S), \A v \in S : v \notin Waiters',
               \/ \A v, w : Ahead(v, w) /\ w \in S => v \in S
               \/ tick' # tick
        PROVE  /\ Ahead(t, u) => \/ Ahead(t, u)'
                                 \/ u \notin Waiters' /\ tick' # tick
               /\ u \in Waiters' \ Waiters => Ahead(t, u)'
    BY <2>2 DEF Thinned
  <2>3. ASSUME NEW e \in Task, e \notin Waiters, Entered(e)
        PROVE  /\ Ahead(t, u) => Ahead(t, u)'
               /\ u \in Waiters' \ Waiters => Ahead(t, u)'
    BY <2>3 DEF Entered
  <2> QED BY <2>1, <2>2, <2>3 DEF Moves
<1>2. IInv /\ HighestFirst /\ [Next]_vars => [A]_vars
  BY <1>1
<1>3. Spec => [][A]_vars
  BY <1>2, OrderInvariant, PTL DEF Spec
<1> QED BY <1>3 DEF WokenInOrder

=============================================================================
