-------------------------- MODULE RtosQueue_proofs --------------------------
(***************************************************************************)
(* Proofs about the queue, for any tasks, priorities and length, any       *)
(* timeouts and any width of the tick count.                               *)
(***************************************************************************)
EXTENDS RtosQueue, SequenceTheorems, TLAPS

\* The slot the next item is read from.
Oldest == NextSlot(readFrom)

\* k slots further round the storage area, for k up to one full circle.
Forward(i, k) == IF i + k < Length THEN i + k ELSE i + k - Length

\* How far slot i is from slot o, going round.
Distance(o, i) == IF i >= o THEN i - o ELSE i - o + Length

StoreTypeOK ==
  /\ kind \in {"mbox", "sem"}
  /\ store \in [Slot -> Item]
  /\ writeTo \in Slot /\ readFrom \in Slot
  /\ posted \in Seq(Item) /\ fetched \in Seq(Item)
  /\ posts \in 0 .. MaxPosts

\* The count is what was posted and not fetched; in a mailbox the slots from
\* the oldest on hold just these items, and the write position follows them.
StoreInv ==
  /\ count \in 0 .. Length /\ Len(posted) = Len(fetched) + count
  /\ kind = "mbox" =>
       /\ writeTo = Forward(Oldest, count)
       /\ \A s \in Slot : Distance(Oldest, s) < count =>
            store[s] = posted[Len(fetched) + Distance(Oldest, s) + 1]
  /\ kind = "sem" => \A i \in 1 .. Len(posted) : posted[i] = 0

QInv == StoreTypeOK /\ StoreInv

-----------------------------------------------------------------------------
\* Following the ring of slots.
LEMMA SlotsRound ==
  ASSUME NEW o \in Slot, NEW u \in 0 .. Length
  PROVE  /\ NextSlot(o) \in Slot /\ Forward(o, u) \in Slot
         /\ Distance(o, o) = 0
         /\ \A s \in Slot : Distance(o, s) \in 0 .. Length - 1
         /\ u < Length =>
              /\ Forward(o, u + 1) = NextSlot(Forward(o, u))
              /\ \A s \in Slot : Distance(o, s) = u <=> s = Forward(o, u)
         /\ u > 0 => Forward(NextSlot(o), u - 1) = Forward(o, u)
         /\ \A s \in Slot \ {o} : Distance(NextSlot(o), s) = Distance(o, s) - 1
         /\ Distance(NextSlot(o), o) = Length - 1
BY QueueAssumption DEF Slot, Forward, Distance, NextSlot

\* Three things a step may do to the queue's own state.
Stays == UNCHANGED queueVars /\ posts' \in 0 .. MaxPosts

Accepts ==
  /\ count < Length /\ posts' \in 0 .. MaxPosts
  /\ \E x \in Item : (kind = "sem" => x = 0) /\ CopyToQueue(x)

HandsOut ==
  /\ count > 0 /\ count' = count - 1
  /\ readFrom' = IF kind = "mbox" THEN NextSlot(readFrom) ELSE readFrom
  /\ fetched' = Append(fetched, IF kind = "mbox" THEN store[NextSlot(readFrom)]
                                ELSE 0)
  /\ UNCHANGED <<kind, store, writeTo, posted, posts>>

\* Each of the three ways of posting accepts one item or leaves the queue as
\* it is.
LEMMA Posting ==
  ASSUME QInv, Attempt, SendFromISR \/ Send
  PROVE  Stays \/ Accepts
<1>1. posts' \in 0 .. MaxPosts /\ posts' \in Item /\ 0 \in Item
  BY QueueAssumption DEF Attempt, QInv, StoreTypeOK, Item
<1>2. CASE QueueFull
  BY <1>1, <1>2 DEF QueueFull, Stays
<1>3. CASE count < Length /\ CopyToQueue(Message)
  <2>1. Message \in Item /\ (kind = "sem" => Message = 0)
    BY <1>1 DEF Message
  <2> QED BY <1>1, <1>3, <2>1 DEF Accepts
<1> QED BY <1>2, <1>3 DEF SendFromISR, Send

\* No other step of the kernel or of a call touches it.
LEMMA Effects == QInv /\ [Next]_vars => Stays \/ Accepts \/ HandsOut
<1> SUFFICES ASSUME QInv, [Next]_vars PROVE Stays \/ Accepts \/ HandsOut
  OBVIOUS
<1>p. posts \in 0 .. MaxPosts
  BY DEF QInv, StoreTypeOK
<1>1. CASE SysTick \/ \E t \in Task \cup {Idle} : SwitchContext(t)
  BY <1>p, <1>1 DEF SysTick, SwitchContext, Stays
<1>2. CASE PostFromHandler
  BY <1>2, Posting DEF PostFromHandler
<1>3. ASSUME NEW t \in Task, Post(t) \/ TryPost(t) PROVE Stays \/ Accepts
  BY <1>3, Posting DEF Post, TryPost
<1>4. ASSUME NEW t \in Task,
             Return(t) \/ GoAway(t) \/ \E w \in Waits : StartFetch(t, w)
      PROVE  Stays
  BY <1>p, <1>4 DEF Return, GoAway, StartFetch, Stays
<1>5. ASSUME NEW t \in Task, FetchItem(t) PROVE HandsOut
  BY <1>5 DEF FetchItem, HandsOut
<1>6. ASSUME NEW t \in Task, Fetch(t), ~FetchItem(t) PROVE Stays
  <2>1. CASE FetchNothing(t)
    BY <1>p, <2>1 DEF FetchNothing, Stays
  <2>2. CASE FetchWait(t) \/ FetchSuspend(t) \/ FetchLock(t) \/ FetchTimeOut(t)
             \/ FetchIsEmpty(t) \/ FetchExpiredAgain(t)
    BY <1>p, <2>2
    DEF FetchWait, FetchSuspend, FetchLock, FetchTimeOut, FetchIsEmpty,
        FetchExpiredAgain, Advance, Stays
  <2>3. CASE FetchPlace(t) \/ FetchUnlock(t)
    BY <1>p, <2>3 DEF FetchPlace, FetchUnlock, Stays
  <2>4. CASE FetchResume(t) \/ FetchPendedTick(t) \/ FetchYield(t)
    BY <1>p, <2>4 DEF FetchResume, FetchPendedTick, FetchYield, Stays
  <2> QED BY <1>6, <2>1, <2>2, <2>3, <2>4 DEF Fetch
<1>7. CASE UNCHANGED vars
  BY <1>p, <1>7 DEF vars, Stays
<1> QED BY <1>1, <1>2, <1>3, <1>4, <1>5, <1>6, <1>7 DEF Next

-----------------------------------------------------------------------------
LEMMA InitQInv == Init => QInv
<1> SUFFICES ASSUME Init PROVE QInv
  OBVIOUS
<1>1. StoreTypeOK
  BY QueueAssumption DEF Init, StoreTypeOK, Slot, Item
<1>2. Oldest = 0
  BY QueueAssumption DEF Init, Oldest, NextSlot
<1>3. \A s \in Slot : ~(Distance(Oldest, s) < 0)
  BY <1>2, QueueAssumption DEF Slot, Distance
<1>4. Forward(Oldest, 0) = 0 /\ Len(posted) = 0 /\ Len(fetched) = 0
  BY <1>2, QueueAssumption DEF Init, Forward
<1>5. StoreInv
  BY <1>3, <1>4, QueueAssumption DEF Init, StoreInv
<1> QED BY <1>1, <1>5 DEF QInv

\* An item comes in behind the last one.
LEMMA AcceptKeeps == QInv /\ Accepts => QInv'
<1> SUFFICES ASSUME QInv, count < Length, posts' \in 0 .. MaxPosts,
                    NEW x \in Item, kind = "sem" => x = 0, CopyToQueue(x)
             PROVE  QInv'
  BY DEF Accepts
<1>t. StoreTypeOK /\ StoreInv
  BY DEF QInv
<1>1. /\ count' = count + 1 /\ posted' = Append(posted, x)
      /\ UNCHANGED <<kind, readFrom, fetched>> /\ Oldest' = Oldest
  BY DEF CopyToQueue, Oldest
<1>2. /\ Len(posted') = Len(posted) + 1 /\ posted'[Len(posted) + 1] = x
      /\ \A i \in 1 .. Len(posted) : posted'[i] = posted[i]
      /\ posted' \in Seq(Item) /\ Len(posted) \in Nat /\ Len(fetched) \in Nat
  BY <1>1, <1>t DEF StoreTypeOK
<1>3. /\ Oldest \in Slot /\ NextSlot(writeTo) \in Slot
      /\ count \in 0 .. Length /\ count + 1 \in 0 .. Length
  BY <1>t, SlotsRound, QueueAssumption DEF StoreTypeOK, StoreInv, Oldest
<1>4. StoreTypeOK'
  BY <1>1, <1>2, <1>3, <1>t DEF StoreTypeOK, CopyToQueue
<1>5. ASSUME kind = "mbox"
      PROVE  /\ writeTo' = Forward(Oldest, count + 1)
             /\ \A s \in Slot : Distance(Oldest, s) < count + 1 =>
                  store'[s] = posted'[Len(fetched) + Distance(Oldest, s) + 1]
  <2>1. store' = [store EXCEPT ![writeTo] = x] /\ writeTo' = NextSlot(writeTo)
    BY <1>5 DEF CopyToQueue
  <2>2. /\ writeTo = Forward(Oldest, count)
        /\ Forward(Oldest, count + 1) = NextSlot(Forward(Oldest, count))
        /\ \A s \in Slot : Distance(Oldest, s) = count <=> s = writeTo
    <3>1. writeTo = Forward(Oldest, count)
      BY <1>5, <1>t DEF StoreInv
    <3>2. /\ Forward(Oldest, count + 1) = NextSlot(Forward(Oldest, count))
          /\ \A s \in Slot :
               Distance(Oldest, s) = count <=> s = Forward(Oldest, count)
      BY <1>3, SlotsRound
    <3> QED BY <3>1, <3>2
  <2>3. ASSUME NEW s \in Slot, Distance(Oldest, s) < count + 1
        PROVE  store'[s] = posted'[Len(fetched) + Distance(Oldest, s) + 1]
    <3>1. CASE s = writeTo
      BY <1>2, <1>t, <2>1, <2>2, <3>1 DEF StoreTypeOK, StoreInv
    <3>2. CASE s # writeTo
      <4>1. Distance(Oldest, s) \in Nat /\ Distance(Oldest, s) < count
        <5>1. Distance(Oldest, s) \in 0 .. Length - 1
          BY <1>3, <2>3, SlotsRound
        <5>2. Distance(Oldest, s) # count
          BY <2>2, <2>3, <3>2
        <5> QED BY <1>3, <2>3, <5>1, <5>2, QueueAssumption
      <4>2. Len(fetched) + Distance(Oldest, s) + 1 \in 1 .. Len(posted)
        BY <1>2, <1>3, <1>t, <4>1 DEF StoreInv
      <4>3. store[s] = posted[Len(fetched) + Distance(Oldest, s) + 1]
        BY <1>5, <1>t, <4>1 DEF StoreInv
      <4> QED BY <1>2, <1>t, <2>1, <3>2, <4>2, <4>3 DEF StoreTypeOK
    <3> QED BY <3>1, <3>2
  <2> QED BY <2>1, <2>2, <2>3
<1>6. kind = "sem" => \A i \in 1 .. Len(posted') : posted'[i] = 0
  BY <1>2, <1>t DEF StoreInv
<1>7. StoreInv'
  <2>1. count' \in 0 .. Length /\ Len(posted') = Len(fetched') + count'
    <3>1. Len(posted) = Len(fetched) + count
      BY <1>t DEF StoreInv
    <3>2. Len(posted') = Len(fetched) + (count + 1)
      BY <1>2, <1>3, <3>1, QueueAssumption
    <3> QED BY <1>1, <1>3, <3>2
  <2>2. kind' = "mbox" =>
          /\ writeTo' = Forward(Oldest', count')
          /\ \A s \in Slot : Distance(Oldest', s) < count' =>
               store'[s] = posted'[Len(fetched') + Distance(Oldest', s) + 1]
    BY <1>1, <1>5
  <2> QED BY <1>1, <1>6, <2>1, <2>2 DEF StoreInv
<1> QED BY <1>4, <1>7 DEF QInv

\* The item handed out is the oldest one.
LEMMA HandOutKeeps ==
  ASSUME QInv, HandsOut
  PROVE  QInv' /\ fetched' = Append(fetched, posted[Len(fetched) + 1])
<1>t. StoreTypeOK /\ StoreInv
  BY DEF QInv
<1>1. /\ count > 0 /\ count' = count - 1 /\ count \in 1 .. Length
      /\ UNCHANGED <<kind, store, writeTo, posted, posts>>
      /\ Oldest \in Slot
  BY <1>t, SlotsRound, QueueAssumption
  DEF HandsOut, StoreInv, StoreTypeOK, Oldest
<1>2. Len(posted) \in Nat /\ Len(fetched) \in Nat
  BY <1>t DEF StoreTypeOK
<1>3. fetched' = Append(fetched, posted[Len(fetched) + 1])
  <2>1. CASE kind = "mbox"
    <3>1. Distance(Oldest, Oldest) = 0
      BY <1>1, SlotsRound, QueueAssumption
    <3>2. store[Oldest] = posted[Len(fetched) + 1]
      BY <1>1, <1>2, <1>t, <2>1, <3>1 DEF StoreInv
    <3> QED BY <2>1, <3>2 DEF HandsOut, Oldest
  <2>2. CASE kind = "sem"
    <3>1. Len(fetched) + 1 \in 1 .. Len(posted)
      BY <1>1, <1>2, <1>t DEF StoreInv
    <3> QED BY <1>t, <2>2, <3>1 DEF HandsOut, StoreInv
  <2> QED BY <1>t, <2>1, <2>2 DEF StoreTypeOK
<1>4. /\ posted[Len(fetched) + 1] \in Item
      /\ fetched' \in Seq(Item) /\ Len(fetched') = Len(fetched) + 1
  <2>1. posted[Len(fetched) + 1] \in Item
    BY <1>1, <1>2, <1>t DEF StoreInv, StoreTypeOK
  <2> QED BY <1>3, <1>t, <2>1 DEF StoreTypeOK
<1>5. readFrom' \in Slot
  BY <1>t, SlotsRound, QueueAssumption DEF HandsOut, StoreTypeOK
<1>6. StoreTypeOK'
  BY <1>1, <1>4, <1>5, <1>t DEF StoreTypeOK
<1>7. ASSUME kind = "mbox"
      PROVE  /\ writeTo = Forward(Oldest', count - 1)
             /\ \A s \in Slot : Distance(Oldest', s) < count - 1 =>
                  store[s] = posted[Len(fetched) + 1 + Distance(Oldest', s) + 1]
  <2>1. Oldest' = NextSlot(Oldest)
    BY <1>7 DEF HandsOut, Oldest
  <2>2. Forward(NextSlot(Oldest), count - 1) = Forward(Oldest, count)
    BY <1>1, SlotsRound
  <2>3. ASSUME NEW s \in Slot, Distance(Oldest', s) < count - 1
        PROVE  store[s] = posted[Len(fetched) + 1 + Distance(Oldest', s) + 1]
    <3>1. s # Oldest
      BY <1>1, <2>1, <2>3, SlotsRound, QueueAssumption
    <3>2. /\ Distance(Oldest', s) = Distance(Oldest, s) - 1
          /\ Distance(Oldest, s) \in Nat
      BY <1>1, <2>1, <3>1, SlotsRound, QueueAssumption
    <3>3. /\ Distance(Oldest, s) < count
          /\ Len(fetched) + 1 + Distance(Oldest', s) + 1
               = Len(fetched) + Distance(Oldest, s) + 1
      BY <1>1, <1>2, <2>3, <3>2
    <3> QED BY <1>7, <1>t, <3>3 DEF StoreInv
  <2> QED BY <1>7, <1>t, <2>1, <2>2, <2>3 DEF StoreInv
<1>8. StoreInv'
  <2>1. count' \in 0 .. Length /\ Len(posted') = Len(fetched') + count'
    <3>1. Len(posted) = Len(fetched) + count /\ Len(posted') = Len(posted)
      BY <1>1, <1>t DEF StoreInv
    <3> QED BY <1>1, <1>2, <1>4, <3>1, QueueAssumption
  <2> QED BY <1>1, <1>4, <1>7, <1>t, <2>1 DEF StoreInv
<1> QED BY <1>3, <1>6, <1>8 DEF QInv

LEMMA StepQInv == QInv /\ [Next]_vars => QInv'
<1>1. QInv /\ Stays => QInv'
  BY DEF Stays, queueVars, QInv, StoreTypeOK, StoreInv, Oldest
<1> QED BY <1>1, Effects, AcceptKeeps, HandOutKeeps

LEMMA QInvariant == Spec => []QInv
BY InitQInv, StepQInv, PTL DEF Spec

\* Whatever the scheduler does between their steps, the ways of posting and
\* fetching act on the queue as insertions into and removals from a bounded
\* fifo: no message is lost, doubled, reordered or overwritten.
THEOREM QueueRefinesFifo == Spec => IsFifo
<1>1. Init => Fifo!Init
  BY DEF Init, Fifo!Init
<1>2. QInv /\ [Next]_vars => [Fifo!Next]_<<posted, fetched>>
  <2> SUFFICES ASSUME QInv, [Next]_vars
               PROVE  Fifo!Next \/ UNCHANGED <<posted, fetched>>
    OBVIOUS
  <2>0. /\ Len(posted) = Len(fetched) + count /\ count \in 0 .. Length
        /\ Len(posted) \in Nat /\ Len(fetched) \in Nat
    BY DEF QInv, StoreInv, StoreTypeOK
  <2>1. CASE Stays
    BY <2>1 DEF Stays, queueVars
  <2>2. ASSUME count < Length, NEW x \in Item, CopyToQueue(x)
        PROVE  Fifo!Next
    <3>1. Fifo!Put(x)
      BY <2>0, <2>2, QueueAssumption DEF CopyToQueue, Fifo!Put, Fifo!Inside
    <3> QED BY <3>1 DEF Fifo!Next
  <2>3. CASE HandsOut
    <3>1. fetched' = Append(fetched, posted[Len(fetched) + 1])
      BY <2>3, HandOutKeeps
    <3>2. count > 0 /\ posted' = posted
      BY <2>3 DEF HandsOut
    <3>3. Fifo!Take
      BY <2>0, <3>1, <3>2 DEF Fifo!Take, Fifo!Inside
    <3> QED BY <3>3 DEF Fifo!Next
  <2> QED BY <2>1, <2>2, <2>3, Effects DEF Accepts
<1> QED BY <1>1, <1>2, QInvariant, PTL DEF Spec, IsFifo, Fifo!Spec
=============================================================================
