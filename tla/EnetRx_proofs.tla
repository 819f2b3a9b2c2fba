---------------------------- MODULE EnetRx_proofs ----------------------------
(***************************************************************************)
(* Proofs about the receive path, for every ring length, any number of     *)
(* frames, and whether or not the device keeps RDSR and the NVIC delivers  *)
(* the interrupt.                                                          *)
(***************************************************************************)
EXTENDS EnetRx, SequenceTheorems, FiniteSetTheorems, TLAPS

Last == RxBdCount - 1
NextSlot(i) == IF i = Last THEN 0 ELSE i + 1

\* k slots further round the ring, for k up to one full circle.
Forward(i, k) == IF i + k < RxBdCount THEN i + k ELSE i + k - RxBdCount

\* How far slot i is from slot o, going round.
Distance(o, i) == IF i >= o THEN i - o ELSE i - o + RxBdCount

\* The handler has taken a packet out, but not given its descriptor back.
Holding == isr \in {"clearLength", "giveBack"}

\* The handler is at work on the descriptor at tail.
Working == isr \in {"length", "copy", "clearLength", "giveBack"}

\* Packets given back so far.
Returned == Len(consumed) - (IF Holding THEN 1 ELSE 0)

\* The program counters.
PcInv ==
  /\ task = "off" => dev = "idle" /\ ~rdsr
  /\ eimrRxf => task = "up"
  /\ isr # "idle" => task = "up"
  /\ dev # "idle" => cur \in Frame
  /\ Working \/ isr = "advance" => processed < RxBdCount

\* Exactly the last descriptor carries W, in memory and in the snapshot.
WrapInv ==
  /\ task # "off" => \A i \in Slot : bd[i].w <=> i = Last
  /\ Working \/ isr = "advance" => (status.w <=> tail = Last)

\* The CPU owns Unread descriptors from Oldest on; rx_curr comes after them.
RingInv ==
  /\ Unread \in 0 .. RxBdCount /\ Returned \in Nat
  /\ rxCurr = Forward(Oldest, Unread)
  /\ task = "off" => Unread = 0 /\ tail = 0
  /\ task # "off" =>
       \A i \in Slot : ~bd[i].e <=> Distance(Oldest, i) < Unread
  /\ dev \in {"copy", "write"} => bd[rxCurr].e
  /\ Working => Unread > 0

\* The descriptors the CPU owns hold the packets received last, in order;
\* but the length of the one the handler is giving back may be gone.
ContentInv ==
  /\ \A i \in Slot :
       Distance(Oldest, i) < Unread /\ (Holding => i # tail) =>
         LET p == received[Returned + Distance(Oldest, i) + 1]
         IN  bd[i].len = p.len /\ buf[i] = p.data
  /\ isr = "copy" => length = received[Returned + 1].len

IInv == TypeOK /\ PcInv /\ WrapInv /\ RingInv /\ ContentInv /\ ConsumedAsReceived

-----------------------------------------------------------------------------
(* Lemmas about the operators.                                             *)

\* Following W stays on the ring, and the device's modulus never bites.
LEMMA NextSlotStays ==
  ASSUME NEW i \in Slot, NEW b, b.w <=> i = Last
  PROVE  /\ NextSlot(i) \in Slot
         /\ After(i, b) = NextSlot(i)
         /\ NextBdIndex(i, b) = NextSlot(i)
<1>1. CASE i = Last
  BY <1>1, RxAssumption DEF Slot, Last, NextSlot, After, NextBdIndex
<1>2. CASE i # Last
  <2>1. i + 1 \in Slot /\ i + 1 < RxRingSize
    BY <1>2, RxAssumption DEF Slot, Last
  <2>2. (i + 1) % RxRingSize = i + 1
    BY <2>1, RxAssumption DEF Slot
  <2> QED
    BY <1>2, <2>1, <2>2 DEF NextSlot, After, NextBdIndex
<1> QED BY <1>1, <1>2

\* The slot u steps from o is at distance u, and the next one follows it.
LEMMA ForwardDistance ==
  ASSUME NEW o \in Slot, NEW u \in 0 .. RxBdCount
  PROVE  /\ Forward(o, u) \in Slot
         /\ \A i \in Slot : Distance(o, i) \in 0 .. RxBdCount - 1
         /\ u < RxBdCount =>
              /\ Forward(o, u + 1) = NextSlot(Forward(o, u))
              /\ \A i \in Slot : Distance(o, i) = u <=> i = Forward(o, u)
BY RxAssumption DEF Slot, Forward, Distance, NextSlot, Last

\* Moving the origin one slot on brings every other slot one step closer.
LEMMA NextOrigin ==
  ASSUME NEW o \in Slot
  PROVE  /\ Distance(o, o) = 0
         /\ Distance(NextSlot(o), o) = RxBdCount - 1
         /\ \A i \in Slot \ {o} :
              Distance(NextSlot(o), i) = Distance(o, i) - 1
         /\ \A u \in 1 .. RxBdCount :
              Forward(NextSlot(o), u - 1) = Forward(o, u)
BY RxAssumption DEF Slot, Forward, Distance, NextSlot, Last

\* The histories, entry by entry.
LEMMA Histories ==
  ASSUME TypeOK
  PROVE  /\ Len(received) \in Nat /\ Len(consumed) \in Nat
         /\ \A i \in 1 .. Len(received) : received[i] \in Packet
         /\ \A i \in 1 .. Len(consumed) : consumed[i] \in Packet
<1>1. received \in Seq(Packet) /\ consumed \in Seq(Packet)
  BY DEF TypeOK
<1> QED BY <1>1

\* Oldest is a slot of the ring.
LEMMA OldestStays ==
  ASSUME TypeOK, WrapInv
  PROVE  /\ Oldest \in Slot
         /\ Oldest = IF isr = "advance" THEN NextSlot(tail) ELSE tail
<1>1. CASE isr = "advance"
  BY <1>1, NextSlotStays DEF Oldest, TypeOK, WrapInv
<1>2. CASE isr # "advance"
  BY <1>2 DEF Oldest, TypeOK
<1> QED BY <1>1, <1>2

-----------------------------------------------------------------------------
LEMMA InitIInv == Init => IInv
<1> SUFFICES ASSUME Init PROVE IInv
  OBVIOUS
<1>1. TypeOK
  <2>1. 0 \in Slot /\ 0 \in Content
    BY RxAssumption DEF Slot, Content
  <2>2. bd \in [Slot -> RxBd] /\ buf \in [Slot -> Content]
    BY <2>1 DEF Init, RxBd
  <2>3. /\ queue \in Seq(Frame) /\ input \in Seq(Packet)
        /\ received \in Seq(Packet) /\ consumed \in Seq(Packet)
    BY DEF Init
  <2>4. status \in [e : BOOLEAN, w : BOOLEAN]
    BY DEF Init
  <2>5. /\ rxCurr \in Slot /\ tail \in Slot /\ cur \in Content
        /\ length \in Content
        /\ arrived \in 0 .. MaxFrames /\ processed \in 0 .. RxBdCount
    BY <2>1, RxAssumption DEF Init
  <2>6. /\ rdsr \in BOOLEAN /\ mrbr \in BOOLEAN /\ rxf \in BOOLEAN
        /\ rxb \in BOOLEAN /\ eimrRxf \in BOOLEAN
        /\ disabled \in BOOLEAN /\ flushing \in BOOLEAN
    BY DEF Init
  <2> QED BY <2>2, <2>3, <2>4, <2>5, <2>6 DEF Init, TypeOK
<1>2. PcInv /\ WrapInv
  BY DEF Init, PcInv, WrapInv, Working
<1>3. Unread = 0 /\ Oldest = 0
  BY DEF Init, Unread, Oldest
<1>4. RingInv
  <2>1. Returned = 0
    BY DEF Init, Returned, Holding
  <2> QED
    BY <1>3, <2>1, RxAssumption DEF Init, RingInv, Working, Forward
<1>5. ContentInv
  <2>1. ASSUME NEW i \in Slot PROVE ~(Distance(Oldest, i) < Unread)
    BY <1>3, ForwardDistance, RxAssumption DEF Slot, Distance
  <2> QED BY <2>1 DEF ContentInv, Init
<1>6. ConsumedAsReceived
  BY DEF Init, ConsumedAsReceived
<1> QED BY <1>1, <1>2, <1>4, <1>5, <1>6 DEF IInv

-----------------------------------------------------------------------------
LEMMA StepTypeOK == IInv /\ [Next]_vars => TypeOK'
<1> SUFFICES ASSUME IInv, [Next]_vars PROVE TypeOK'
  OBVIOUS
<1>t. TypeOK
  BY DEF IInv
<1> USE DEF TypeOK
<1>1. CASE InitBdRings
  BY <1>1, <1>t, RxAssumption DEF InitBdRings, netVars, RxBd, Content, Slot
<1>2. CASE InitMrbr \/ InitClearEir \/ InitEimr
  <2>1. CASE InitMrbr
    BY <2>1, <1>t DEF InitMrbr, netVars, inputVars
  <2>2. CASE InitClearEir
    <3>1. rxf' \in BOOLEAN /\ rxb' \in BOOLEAN
      BY <2>2 DEF InitClearEir
    <3> QED BY <2>2, <1>t, <3>1 DEF InitClearEir, netVars, inputVars
  <2>3. CASE InitEimr
    BY <2>3, <1>t DEF InitEimr, netVars, inputVars
  <2> QED BY <1>2, <2>1, <2>2, <2>3
<1>3. CASE ArriveOffered
  BY <1>3, <1>t, RxAssumption DEF ArriveOffered, inputVars, Content
<1>4. CASE ArriveQueued
  BY <1>4, <1>t, RxAssumption DEF ArriveQueued, inputVars, macVars, Frame
<1>5. CASE ReceiveRefuse
  <2>1. cur \in Frame
    BY <1>5 DEF IInv, PcInv, ReceiveRefuse
  <2>2. queue' \in Seq(Frame)
    <3>1. <<cur>> \in Seq(Frame)
      BY <2>1
    <3>2. <<cur>> \o queue \in Seq(Frame)
      BY <3>1, <1>t, ConcatProperties
    <3>3. Append(queue, cur) \in Seq(Frame)
      BY <2>1, <1>t, AppendProperties
    <3> QED BY <1>5, <3>2, <3>3 DEF ReceiveRefuse
  <2>3. /\ rxb' \in BOOLEAN /\ disabled' \in BOOLEAN
        /\ flushing' \in BOOLEAN /\ cur' \in Content
    <3>1. rxb' \in BOOLEAN
      BY <1>5, Zenon DEF ReceiveRefuse
    <3>2. 0 \in Content
      BY RxAssumption DEF Content
    <3> QED BY <1>5, <3>1, <3>2 DEF ReceiveRefuse
  <2> QED BY <1>5, <1>t, <2>2, <2>3 DEF ReceiveRefuse, inputVars
<1>6. CASE ReceiveAccept \/ ReceiveCopy
  <2>1. CASE ReceiveAccept
    BY <2>1, <1>t DEF ReceiveAccept, inputVars, netVars
  <2>2. CASE ReceiveCopy
    BY <2>2, <1>t DEF ReceiveCopy, inputVars, netVars
  <2> QED BY <1>6, <2>1, <2>2
<1>7. CASE ReceiveWrite
  <2>1. rxCurr' \in Slot
    <3>1. bd[rxCurr].w <=> rxCurr = Last
      BY <1>7, <1>t DEF IInv, PcInv, WrapInv, ReceiveWrite
    <3> QED BY <1>7, <1>t, <3>1, NextSlotStays DEF ReceiveWrite
  <2>2. received' \in Seq(Packet)
    BY <1>7, <1>t DEF ReceiveWrite, Packet
  <2>3. bd' \in [Slot -> RxBd]
    <3> DEFINE e == [bd[rxCurr] EXCEPT !.e = FALSE, !.len = cur]
    <3>1. bd[rxCurr] \in RxBd /\ cur \in Content
      BY <1>t
    <3>2. e \in RxBd
      BY <3>1 DEF RxBd
    <3>3. bd' = [bd EXCEPT ![rxCurr] = e]
      BY <1>7 DEF ReceiveWrite
    <3> HIDE DEF e
    <3> QED BY <1>t, <3>2, <3>3
  <2>4. queue' \in Seq(Frame) /\ cur' \in Content
    <3>1. CASE queue = <<>>
      BY <1>7, <1>t, <3>1, RxAssumption DEF ReceiveWrite, Content
    <3>2. CASE queue # <<>>
      <4>1. Head(queue) \in Frame /\ Tail(queue) \in Seq(Frame)
        BY <1>t, <3>2, HeadTailProperties
      <4>2. cur' = Head(queue) /\ queue' = Tail(queue)
        BY <1>7, <3>2 DEF ReceiveWrite
      <4>3. Head(queue) \in Content
        BY <4>1, RxAssumption DEF Content, Frame
      <4> QED BY <4>1, <4>2, <4>3
    <3> QED BY <3>1, <3>2
  <2> QED BY <1>7, <1>t, <2>1, <2>2, <2>3, <2>4 DEF ReceiveWrite, inputVars
<1>8. CASE IsrEnter
  BY <1>8, <1>t, RxAssumption DEF IsrEnter, macVars, netVars
<1>9. CASE InputStatus
  BY <1>9, <1>t DEF InputStatus, macVars, netVars, RxBd
<1>10. CASE InputFullCircle \/ IsrClear
  <2>1. CASE InputFullCircle
    BY <2>1, <1>t DEF InputFullCircle, macVars, netVars
  <2>2. CASE IsrClear
    <3>1. rxf' \in BOOLEAN
      BY <2>2 DEF IsrClear
    <3> QED BY <2>2, <1>t, <3>1 DEF IsrClear, netVars
  <2> QED BY <1>10, <2>1, <2>2
<1>11. CASE InputLength
  BY <1>11, <1>t DEF InputLength, macVars, netVars, RxBd
<1>12. CASE InputCopy
  <2>1. [data |-> buf[tail], len |-> length] \in Packet
    BY <1>t DEF Packet
  <2>2. consumed' \in Seq(Packet) /\ input' \in Seq(Packet)
    <3> DEFINE p == [data |-> buf[tail], len |-> length]
    <3>1. /\ Append(consumed, p) \in Seq(Packet)
          /\ Append(input, p) \in Seq(Packet)
      BY <1>t, <2>1, AppendProperties
    <3>2. consumed' = Append(consumed, p) /\ input' \in {Append(input, p), input}
      BY <1>12 DEF InputCopy
    <3> QED BY <1>t, <3>1, <3>2
  <2> QED BY <1>12, <1>t, <2>2 DEF InputCopy, macVars, netVars
<1>13. CASE InputClearLength
  <2>1. bd' \in [Slot -> RxBd]
    <3>1. 0 \in Content
      BY RxAssumption DEF Content
    <3> DEFINE e == [bd[tail] EXCEPT !.len = 0]
    <3>2. bd[tail] \in RxBd
      BY <1>t
    <3>3. e \in RxBd
      BY <3>1, <3>2 DEF RxBd
    <3>4. bd' = [bd EXCEPT ![tail] = e]
      BY <1>13 DEF InputClearLength
    <3> HIDE DEF e
    <3> QED BY <1>t, <3>3, <3>4
  <2> QED BY <1>13, <1>t, <2>1 DEF InputClearLength, macVars, netVars
<1>14. CASE InputGiveBack
  <2>1. bd' \in [Slot -> RxBd]
    <3> DEFINE e == [bd[tail] EXCEPT !.e = TRUE, !.w = status.w]
    <3>1. bd[tail] \in RxBd /\ status.w \in BOOLEAN
      BY <1>t
    <3>2. e \in RxBd
      BY <3>1 DEF RxBd
    <3>3. bd' = [bd EXCEPT ![tail] = e]
      BY <1>14 DEF InputGiveBack
    <3> HIDE DEF e
    <3> QED BY <1>t, <3>2, <3>3
  <2> QED BY <1>14, <1>t, <2>1 DEF InputGiveBack, macVars, netVars
<1>15. CASE InputAdvance
  <2>1. tail' \in Slot
    BY <1>15, <1>t, NextSlotStays DEF InputAdvance, IInv, WrapInv
  <2>2. processed' \in 0 .. RxBdCount
    BY <1>15, <1>t, RxAssumption DEF InputAdvance, IInv, PcInv
  <2> QED BY <1>15, <1>t, <2>1, <2>2 DEF InputAdvance, macVars, netVars
<1>16. CASE UNCHANGED vars
  BY <1>16, <1>t DEF vars, macVars, netVars, inputVars
<1> QED
  BY <1>1, <1>2, <1>3, <1>4, <1>5, <1>6, <1>7, <1>8, <1>9, <1>10, <1>11,
     <1>12, <1>13, <1>14, <1>15, <1>16 DEF Next, Driver, Network, Mac, Handler

\* The task's, the MAC's and the handler's places.
LEMMA StepPcInv == IInv /\ [Next]_vars => PcInv'
<1> SUFFICES ASSUME IInv, [Next]_vars PROVE PcInv'
  OBVIOUS
<1>t. TypeOK /\ PcInv
  BY DEF IInv
<1> USE DEF PcInv, Working
<1>1. CASE InitBdRings
  BY <1>1, <1>t, RxAssumption DEF InitBdRings, macVars, netVars, inputVars,
     Unlocked, Frame
<1>2. CASE InitMrbr
  BY <1>2, <1>t, RxAssumption DEF InitMrbr, macVars, netVars, inputVars,
     Unlocked, Frame
<1>3. CASE InitClearEir
  BY <1>3, <1>t, RxAssumption DEF InitClearEir, macVars, netVars, inputVars,
     Unlocked, Frame
<1>4. CASE InitEimr
  BY <1>4, <1>t, RxAssumption DEF InitEimr, macVars, netVars, inputVars,
     Unlocked, Frame
<1>5. CASE ArriveOffered
  BY <1>5, <1>t, RxAssumption
  DEF ArriveOffered, CanReceive, inputVars, TypeOK, Frame
<1>6. CASE ArriveQueued
  BY <1>6, <1>t, RxAssumption DEF ArriveQueued, macVars, netVars, inputVars,
     Unlocked, Frame
<1>7. CASE ReceiveRefuse
  BY <1>7, <1>t, RxAssumption DEF ReceiveRefuse, macVars, netVars, inputVars,
     Unlocked, Frame
<1>8. CASE ReceiveAccept
  BY <1>8, <1>t, RxAssumption DEF ReceiveAccept, macVars, netVars, inputVars,
     Unlocked, Frame
<1>9. CASE ReceiveCopy
  BY <1>9, <1>t, RxAssumption DEF ReceiveCopy, macVars, netVars, inputVars,
     Unlocked, Frame
<1>10. CASE ReceiveWrite
  <2>1. task # "off" /\ UNCHANGED <<eimrRxf, task, inputVars>>
    BY <1>10, <1>t DEF ReceiveWrite
  <2>2. dev' # "idle" => cur' \in Frame
    <3>1. queue # <<>> => Head(queue) \in Frame
      BY <1>t, HeadTailProperties DEF TypeOK
    <3> QED BY <1>10, <3>1 DEF ReceiveWrite
  <2> QED BY <1>t, <2>1, <2>2 DEF inputVars
<1>11. CASE IsrEnter
  BY <1>11, <1>t DEF IsrEnter, Irq, macVars
<1>12. CASE InputStatus
  BY <1>12, <1>t DEF InputStatus, Budget, macVars
<1>13. CASE InputFullCircle
  BY <1>13, <1>t, RxAssumption DEF InputFullCircle, macVars, netVars, inputVars,
     Unlocked, Frame
<1>14. CASE InputLength
  BY <1>14, <1>t, RxAssumption DEF InputLength, macVars, netVars, inputVars,
     Unlocked, Frame
<1>15. CASE InputCopy
  BY <1>15, <1>t, RxAssumption DEF InputCopy, macVars, netVars, inputVars,
     Unlocked, Frame
<1>16. CASE InputClearLength
  BY <1>16, <1>t, RxAssumption DEF InputClearLength, macVars, netVars,
     inputVars, Unlocked, Frame
<1>17. CASE InputGiveBack
  BY <1>17, <1>t, RxAssumption DEF InputGiveBack, macVars, netVars, inputVars,
     Unlocked, Frame
<1>18. CASE InputAdvance
  BY <1>18, <1>t, RxAssumption DEF InputAdvance, macVars, netVars, inputVars,
     Unlocked, Frame
<1>19. CASE IsrClear
  BY <1>19, <1>t, RxAssumption DEF IsrClear, macVars, netVars, inputVars,
     Unlocked, Frame
<1>20. CASE UNCHANGED vars
  BY <1>20, <1>t DEF vars, macVars, netVars, inputVars
<1> QED
  BY <1>1, <1>2, <1>3, <1>4, <1>5, <1>6, <1>7, <1>8, <1>9, <1>10, <1>11, <1>12,
     <1>13, <1>14, <1>15, <1>16, <1>17, <1>18, <1>19, <1>20
  DEF Next, Driver, Network, Mac, Handler

\* W stays where the driver put it.
LEMMA StepWrapInv == IInv /\ [Next]_vars => WrapInv'
<1> SUFFICES ASSUME IInv, [Next]_vars PROVE WrapInv'
  OBVIOUS
<1>t. TypeOK /\ PcInv /\ WrapInv
  BY DEF IInv
<1> USE DEF WrapInv, PcInv, Working
<1>1. CASE InitBdRings
  BY <1>1, <1>t DEF InitBdRings, Last
<1>2. CASE InitMrbr
  BY <1>2, <1>t DEF InitMrbr, inputVars
<1>3. CASE InitClearEir
  BY <1>3, <1>t DEF InitClearEir, inputVars
<1>4. CASE InitEimr
  BY <1>4, <1>t DEF InitEimr, inputVars
<1>5. CASE ArriveOffered
  BY <1>5, <1>t DEF ArriveOffered, inputVars
<1>6. CASE ArriveQueued
  BY <1>6, <1>t DEF ArriveQueued, inputVars
<1>7. CASE ReceiveRefuse
  BY <1>7, <1>t DEF ReceiveRefuse, inputVars
<1>8. CASE ReceiveAccept
  BY <1>8, <1>t DEF ReceiveAccept, inputVars
<1>9. CASE ReceiveCopy
  BY <1>9, <1>t DEF ReceiveCopy, inputVars
<1>10. CASE ReceiveWrite
  BY <1>10, <1>t DEF ReceiveWrite, inputVars, TypeOK, RxBd
<1>11. CASE IsrEnter
  BY <1>11, <1>t DEF IsrEnter
<1>12. CASE InputStatus
  BY <1>12, <1>t DEF InputStatus, TypeOK
<1>13. CASE InputFullCircle
  BY <1>13, <1>t DEF InputFullCircle
<1>14. CASE InputLength
  BY <1>14, <1>t DEF InputLength
<1>15. CASE InputCopy
  BY <1>15, <1>t DEF InputCopy
<1>16. CASE InputClearLength
  BY <1>16, <1>t DEF InputClearLength, TypeOK, RxBd
<1>17. CASE InputGiveBack
  BY <1>17, <1>t DEF InputGiveBack, TypeOK, RxBd
<1>18. CASE InputAdvance
  BY <1>18, <1>t DEF InputAdvance
<1>19. CASE IsrClear
  BY <1>19, <1>t DEF IsrClear
<1>20. CASE UNCHANGED vars
  BY <1>20, <1>t DEF vars, inputVars
<1> QED
  BY <1>1, <1>2, <1>3, <1>4, <1>5, <1>6, <1>7, <1>8, <1>9, <1>10, <1>11, <1>12,
     <1>13, <1>14, <1>15, <1>16, <1>17, <1>18, <1>19, <1>20
  DEF Next, Driver, Network, Mac, Handler

\* While the ring and the driver's place in it stay as they are.
LEMMA RingUntouched ==
  ASSUME IInv, task' = "off" => task = "off", task = "off" => task' = "off",
         UNCHANGED <<bd, buf, rxCurr, received, inputVars>>,
         dev' \in {"copy", "write"} => bd[rxCurr].e
  PROVE  RingInv' /\ ContentInv' /\ ConsumedAsReceived'
<1>1. RingInv /\ ContentInv /\ ConsumedAsReceived
  BY DEF IInv
<1>2. /\ Unread' = Unread /\ Oldest' = Oldest /\ Returned' = Returned
      /\ Holding' = Holding /\ Working' = Working
  BY DEF Unread, Oldest, Returned, Holding, Working, After, inputVars
<1>3. RingInv'
  BY <1>1, <1>2 DEF RingInv, inputVars
<1>4. ContentInv'
  BY <1>1, <1>2 DEF ContentInv, inputVars
<1>5. ConsumedAsReceived'
  BY <1>1 DEF ConsumedAsReceived, inputVars
<1> QED BY <1>3, <1>4, <1>5

\* The ring and its contents, one action at a time.
LEMMA StepRing ==
  IInv /\ [Next]_vars => RingInv' /\ ContentInv' /\ ConsumedAsReceived'
<1> SUFFICES ASSUME IInv, [Next]_vars
             PROVE  RingInv' /\ ContentInv' /\ ConsumedAsReceived'
  OBVIOUS
<1>t. /\ TypeOK /\ PcInv /\ WrapInv
      /\ RingInv /\ ContentInv /\ ConsumedAsReceived
  BY DEF IInv
<1> DEFINE o == Oldest
           u == Unread
<1>o. /\ o \in Slot /\ u \in 0 .. RxBdCount /\ rxCurr = Forward(o, u)
      /\ o = IF isr = "advance" THEN NextSlot(tail) ELSE tail
      /\ tail \in Slot
  BY <1>t, OldestStays DEF RingInv, TypeOK
<1>h. /\ Len(received) \in Nat /\ Len(consumed) \in Nat
      /\ Returned \in Nat /\ Returned + u = Len(received)
      /\ Returned = IF Holding THEN Len(consumed) - 1 ELSE Len(consumed)
  BY <1>t, Histories DEF Unread, Returned, Holding, RingInv
<1>1. CASE InitBdRings
  <2>1. /\ isr = "idle" /\ isr' = "idle" /\ dev = "idle"
        /\ UNCHANGED <<received, consumed, rxCurr, dev>>
        /\ u = 0 /\ o = 0
    BY <1>1, <1>t, <1>o DEF InitBdRings, RingInv, PcInv, Unlocked
  <2>2. Oldest' = 0 /\ Unread' = 0 /\ Returned' = Returned /\ rxCurr = 0
    <3>1. Len(received) = Len(consumed)
      BY <1>h, <2>1 DEF Holding
    <3>2. rxCurr = 0
      BY <1>o, <2>1, RxAssumption DEF Forward
    <3> QED
      BY <1>1, <1>h, <2>1, <3>1, <3>2
      DEF InitBdRings, Oldest, Unread, Returned, Holding
  <2>3. \A i \in Slot : bd'[i].e /\ ~(Distance(0, i) < 0)
    BY <1>1, RxAssumption DEF InitBdRings, Distance, Slot
  <2>4. RingInv'
    BY <1>1, <1>h, <2>1, <2>2, <2>3, RxAssumption
    DEF InitBdRings, RingInv, Forward, Working
  <2>5. ContentInv'
    BY <2>1, <2>2, <2>3 DEF ContentInv
  <2>6. ConsumedAsReceived'
    BY <1>t, <2>1 DEF ConsumedAsReceived
  <2> QED BY <2>4, <2>5, <2>6
<1>2. CASE InitMrbr \/ InitClearEir \/ InitEimr
  BY <1>2, <1>t, RingUntouched
  DEF InitMrbr, InitClearEir, InitEimr, RingInv, Unlocked
<1>3. CASE Network
  BY <1>3, <1>t, RingUntouched
  DEF Network, ArriveOffered, ArriveQueued, macVars, Unlocked
<1>4. CASE ReceiveRefuse \/ ReceiveAccept
  BY <1>4, <1>t, RingUntouched
  DEF ReceiveRefuse, ReceiveAccept, Accepts
<1>5. CASE ReceiveCopy
  <2>1. /\ UNCHANGED <<bd, rxCurr, received, task, inputVars>>
        /\ dev' = "write" /\ bd[rxCurr].e
        /\ \A i \in Slot \ {rxCurr} : buf'[i] = buf[i]
    BY <1>5, <1>t DEF ReceiveCopy, TypeOK, RingInv
  <2>2. /\ Unread' = Unread /\ Oldest' = Oldest /\ Returned' = Returned
        /\ Holding' = Holding /\ Working' = Working
    BY <2>1 DEF Unread, Oldest, Returned, Holding, Working, After, inputVars
  <2>3. RingInv'
    BY <1>t, <2>1, <2>2 DEF RingInv, inputVars
  <2>4. \A i \in Slot : Distance(o, i) < u => i # rxCurr
    BY <1>t, <1>5, <2>1 DEF RingInv, PcInv, ReceiveCopy
  <2>5. ContentInv'
    BY <1>t, <2>1, <2>2, <2>4 DEF ContentInv, inputVars
  <2>6. ConsumedAsReceived'
    BY <1>t, <2>1 DEF ConsumedAsReceived, inputVars
  <2> QED BY <2>3, <2>5, <2>6
<1>6. CASE ReceiveWrite
  <2> DEFINE p == [data |-> buf[rxCurr], len |-> cur]
  <2>1. /\ UNCHANGED <<buf, task, inputVars>>
        /\ received' = Append(received, p)
        /\ task # "off" /\ rxCurr \in Slot /\ bd[rxCurr].e
        /\ dev' \in {"idle", "offered"}
    BY <1>6, <1>t DEF ReceiveWrite, TypeOK, PcInv, RingInv
  <2>2. /\ \A i \in Slot \ {rxCurr} : bd'[i] = bd[i]
        /\ ~bd'[rxCurr].e /\ bd'[rxCurr].len = cur
    BY <1>6, <1>t DEF ReceiveWrite, TypeOK, RxBd
  <2>3. u < RxBdCount
    <3>1. u = RxBdCount => rxCurr = o
      BY <1>o, RxAssumption DEF Forward, Slot
    <3>2. Distance(o, o) = 0
      BY <1>o, NextOrigin
    <3> QED BY <1>t, <1>o, <2>1, <3>1, <3>2, RxAssumption DEF RingInv
  <2>4. rxCurr' = Forward(o, u + 1)
    <3>1. rxCurr' = NextSlot(rxCurr)
      BY <1>6, <1>t, <2>1, NextSlotStays DEF ReceiveWrite, WrapInv
    <3> QED BY <1>o, <2>3, <3>1, ForwardDistance
  <2>5. /\ Len(received') = Len(received) + 1
        /\ received'[Len(received) + 1] = p
        /\ \A k \in 1 .. Len(received) : received'[k] = received[k]
    BY <1>t, <2>1 DEF TypeOK
  <2>6. /\ Unread' = u + 1 /\ Oldest' = o /\ Returned' = Returned
        /\ Holding' = Holding /\ Working' = Working
    BY <1>h, <2>1, <2>5
    DEF Unread, Oldest, Returned, Holding, Working, After, inputVars
  <2>7. \A i \in Slot : /\ Distance(o, i) \in 0 .. RxBdCount - 1
                        /\ Distance(o, i) = u <=> i = rxCurr
    BY <1>o, <2>3, ForwardDistance
  <2>8. RingInv'
    <3>1. \A i \in Slot : ~bd'[i].e <=> Distance(o, i) < u + 1
      BY <1>t, <1>o, <2>1, <2>2, <2>7, RxAssumption DEF RingInv
    <3> QED
      BY <1>t, <1>o, <2>1, <2>3, <2>4, <2>6, <3>1, RxAssumption
      DEF RingInv, inputVars
  <2>9. ContentInv'
    <3>1. ASSUME NEW i \in Slot, Distance(o, i) < u + 1, Holding => i # tail
          PROVE  LET q == received'[Returned + Distance(o, i) + 1]
                 IN  bd'[i].len = q.len /\ buf[i] = q.data
      <4>1. CASE i = rxCurr
        BY <1>h, <2>2, <2>5, <2>7, <4>1
      <4>2. CASE i # rxCurr
        <5>1. /\ Distance(o, i) < u
              /\ Returned + Distance(o, i) + 1 \in 1 .. Len(received)
          <6>1. Distance(o, i) \in Nat /\ Distance(o, i) < u
            BY <1>o, <2>7, <3>1, <4>2, RxAssumption
          <6> QED BY <1>o, <1>h, <6>1
        <5> QED BY <1>t, <2>2, <2>5, <3>1, <4>2, <5>1 DEF ContentInv
      <4> QED BY <4>1, <4>2
    <3>2. isr = "copy" => length = received'[Returned + 1].len
      <4>1. isr = "copy" => Returned + 1 \in 1 .. Len(received)
        BY <1>t, <1>o, <1>h, RxAssumption DEF RingInv, Working, Holding
      <4> QED BY <1>t, <2>5, <4>1 DEF ContentInv
    <3> QED BY <2>1, <2>6, <3>1, <3>2 DEF ContentInv, inputVars
  <2>10. ConsumedAsReceived'
    BY <1>t, <1>h, <2>1, <2>5 DEF ConsumedAsReceived, inputVars
  <2> QED BY <2>8, <2>9, <2>10
<1>7. CASE IsrEnter \/ InputStatus \/ InputFullCircle \/ InputLength \/ IsrClear
  <2>1. /\ UNCHANGED <<bd, buf, rxCurr, dev, received, task, tail, consumed>>
        /\ isr # "advance" /\ isr' # "advance"
        /\ ~Holding /\ ~Holding'
    BY <1>7
    DEF IsrEnter, InputStatus, InputFullCircle, InputLength, IsrClear, Holding,
        macVars
  <2>2. Unread' = Unread /\ Oldest' = Oldest /\ Returned' = Returned
    BY <2>1 DEF Unread, Oldest, Returned, Holding
  <2>3. Working' => Unread > 0
    <3>1. CASE InputStatus
      <4>1. Oldest = tail /\ Distance(tail, tail) = 0 /\ task # "off"
        BY <1>t, <1>o, <2>1, <3>1, NextOrigin DEF InputStatus, PcInv
      <4>2. Working' => ~bd[tail].e
        BY <3>1 DEF InputStatus, Working
      <4> QED BY <1>t, <1>o, <4>1, <4>2 DEF RingInv
    <3>2. CASE InputLength
      BY <1>t, <3>2 DEF InputLength, Working, RingInv
    <3>3. CASE IsrEnter \/ InputFullCircle \/ IsrClear
      BY <3>3 DEF IsrEnter, InputFullCircle, IsrClear, Working
    <3> QED BY <1>7, <3>1, <3>2, <3>3
  <2>4. RingInv'
    BY <1>t, <2>1, <2>2, <2>3 DEF RingInv
  <2>5. isr' = "copy" => length' = received[Returned + 1].len
    <3>1. SUFFICES ASSUME InputLength
                   PROVE  length' = received[Returned + 1].len
      BY <1>7 DEF IsrEnter, InputStatus, InputFullCircle, IsrClear
    <3>2. length' = bd[tail].len /\ Working
      BY <3>1 DEF InputLength, Working
    <3>3. Oldest = tail /\ Distance(tail, tail) = 0 /\ Unread > 0
      BY <1>t, <1>o, <2>1, <3>2, NextOrigin DEF RingInv
    <3> QED BY <1>t, <1>o, <1>h, <2>1, <3>2, <3>3 DEF ContentInv
  <2>6. ContentInv'
    BY <1>t, <2>1, <2>2, <2>5 DEF ContentInv
  <2>7. ConsumedAsReceived'
    BY <1>t, <2>1 DEF ConsumedAsReceived
  <2> QED BY <2>4, <2>6, <2>7
<1>8. CASE InputCopy
  <2> DEFINE p == [data |-> buf[tail], len |-> length]
  <2>1. /\ UNCHANGED <<bd, buf, rxCurr, dev, received, task, tail>>
        /\ isr = "copy" /\ isr' = "clearLength" /\ consumed' = Append(consumed, p)
    BY <1>8 DEF InputCopy, macVars
  <2>2. ~Holding /\ Holding' /\ Working
    BY <2>1 DEF Holding, Working
  <2>3. /\ Len(consumed') = Len(consumed) + 1
        /\ consumed'[Len(consumed) + 1] = p
        /\ \A k \in 1 .. Len(consumed) : consumed'[k] = consumed[k]
    BY <1>t, <2>1 DEF TypeOK
  <2>4. Unread' = Unread /\ Oldest' = Oldest /\ Returned' = Returned
    BY <1>h, <2>1, <2>2, <2>3 DEF Unread, Oldest, Returned, Holding
  <2>5. RingInv'
    BY <1>t, <2>1, <2>2, <2>4 DEF RingInv
  <2>6. ContentInv'
    BY <1>t, <2>1, <2>2, <2>4 DEF ContentInv
  <2>7. ConsumedAsReceived'
    <3>1. Oldest = tail /\ Distance(tail, tail) = 0 /\ Unread > 0
      BY <1>t, <1>o, <2>1, <2>2, NextOrigin DEF RingInv
    <3>2. Len(consumed) + 1 \in 1 .. Len(received)
      BY <1>o, <1>h, <2>2, <3>1
    <3>3. p.data = received[Len(consumed) + 1].data
      BY <1>t, <1>o, <1>h, <2>2, <3>1 DEF ContentInv
    <3>4. p.len = received[Len(consumed) + 1].len
      BY <1>t, <1>h, <2>1, <2>2 DEF ContentInv
    <3>5. received[Len(consumed) + 1] = p
      BY <1>t, <3>2, <3>3, <3>4, Histories DEF Packet
    <3> QED BY <1>t, <1>h, <2>1, <2>3, <3>2, <3>5 DEF ConsumedAsReceived
  <2> QED BY <2>5, <2>6, <2>7
<1>9. CASE InputClearLength
  <2>1. /\ UNCHANGED <<buf, rxCurr, dev, received, task, tail, consumed>>
        /\ isr = "clearLength" /\ isr' = "giveBack"
        /\ \A i \in Slot : bd'[i].e = bd[i].e
        /\ \A i \in Slot \ {tail} : bd'[i] = bd[i]
    BY <1>9, <1>t DEF InputClearLength, macVars, TypeOK, RxBd
  <2>2. Holding /\ Holding' /\ Working
    BY <2>1 DEF Holding, Working
  <2>3. Unread' = Unread /\ Oldest' = Oldest /\ Returned' = Returned
    BY <2>1, <2>2 DEF Unread, Oldest, Returned, Holding
  <2>4. RingInv'
    <3>1. rxCurr \in Slot
      BY <1>t DEF TypeOK
    <3> QED BY <1>t, <2>1, <2>2, <2>3, <3>1 DEF RingInv
  <2>5. ContentInv'
    BY <1>t, <2>1, <2>2, <2>3 DEF ContentInv
  <2>6. ConsumedAsReceived'
    BY <1>t, <2>1 DEF ConsumedAsReceived
  <2> QED BY <2>4, <2>5, <2>6
<1>10. CASE InputGiveBack
  <2>1. /\ UNCHANGED <<buf, rxCurr, dev, received, task, tail, consumed>>
        /\ isr = "giveBack" /\ isr' = "advance" /\ status' = status
        /\ bd'[tail].e
        /\ \A i \in Slot \ {tail} : bd'[i] = bd[i]
    BY <1>10, <1>t DEF InputGiveBack, macVars, TypeOK, RxBd
  <2>2. Holding /\ ~Holding' /\ Working /\ ~Working'
    BY <2>1 DEF Holding, Working
  <2>3. u > 0 /\ task # "off" /\ o = tail
    BY <1>t, <1>o, <2>1, <2>2 DEF RingInv, PcInv
  <2>4. /\ Unread' = u - 1 /\ Returned' = Returned + 1
        /\ Oldest' = NextSlot(tail)
    <3>1. After(tail, status) = NextSlot(tail)
      BY <1>t, <1>o, <2>2, NextSlotStays DEF WrapInv
    <3> QED
      BY <1>h, <2>1, <2>2, <3>1 DEF Unread, Oldest, Returned, Holding, After
  <2>5. /\ Distance(NextSlot(tail), tail) = RxBdCount - 1
        /\ \A i \in Slot \ {tail} :
             Distance(NextSlot(tail), i) = Distance(tail, i) - 1
        /\ Distance(tail, tail) = 0
        /\ Forward(NextSlot(tail), u - 1) = rxCurr
    BY <1>o, <2>3, NextOrigin
  <2>6. \A i \in Slot : Distance(tail, i) \in 0 .. RxBdCount - 1
    BY <1>o, <2>3, ForwardDistance
  <2>7. RingInv'
    <3>1. \A i \in Slot : ~bd'[i].e <=> Distance(NextSlot(tail), i) < u - 1
      BY <1>t, <1>o, <2>1, <2>3, <2>5, <2>6, RxAssumption DEF RingInv
    <3>2. dev \in {"copy", "write"} => bd'[rxCurr].e
      BY <1>t, <2>1 DEF RingInv, TypeOK
    <3> QED
      BY <1>t, <1>o, <2>1, <2>2, <2>3, <2>4, <2>5, <3>1, <3>2, RxAssumption
      DEF RingInv
  <2>8. ContentInv'
    <3>1. ASSUME NEW i \in Slot, Distance(NextSlot(tail), i) < u - 1
          PROVE  LET q == received[Returned + 1 + Distance(NextSlot(tail), i) + 1]
                 IN  bd'[i].len = q.len /\ buf[i] = q.data
      <4>1. i # tail
        BY <1>o, <2>5, <3>1, RxAssumption
      <4>2. Distance(NextSlot(tail), i) = Distance(tail, i) - 1
        BY <2>5, <4>1
      <4>3. /\ Distance(tail, i) < u
            /\ Returned + 1 + Distance(NextSlot(tail), i) + 1
                 = Returned + Distance(tail, i) + 1
        <5>1. Distance(tail, i) \in Nat /\ Distance(tail, i) < u
          BY <1>o, <2>6, <3>1, <4>2, RxAssumption
        <5>2. Returned \in Nat
          BY <1>h
        <5> QED BY <4>2, <5>1, <5>2
      <4> QED BY <1>t, <2>1, <2>3, <4>1, <4>3 DEF ContentInv
    <3> QED BY <2>1, <2>4, <3>1 DEF ContentInv
  <2>9. ConsumedAsReceived'
    BY <1>t, <2>1 DEF ConsumedAsReceived
  <2> QED BY <2>7, <2>8, <2>9
<1>11. CASE InputAdvance
  <2>1. /\ UNCHANGED <<bd, buf, rxCurr, dev, received, task, consumed, status>>
        /\ isr = "advance" /\ isr' = "status" /\ tail' = After(tail, status)
    BY <1>11 DEF InputAdvance, macVars
  <2>2. ~Holding /\ ~Holding' /\ ~Working /\ ~Working'
    BY <2>1 DEF Holding, Working
  <2>3. Unread' = Unread /\ Oldest' = Oldest /\ Returned' = Returned
    BY <2>1, <2>2 DEF Unread, Oldest, Returned, Holding
  <2>4. RingInv' /\ ContentInv' /\ ConsumedAsReceived'
    <3>1. task # "off"
      BY <1>t, <2>1 DEF PcInv
    <3> QED
      BY <1>t, <2>1, <2>2, <2>3, <3>1
      DEF RingInv, ContentInv, ConsumedAsReceived
  <2> QED BY <2>4
<1>12. CASE UNCHANGED vars
  BY <1>12, <1>t, RingUntouched DEF vars, macVars, RingInv
<1> QED
  BY <1>1, <1>2, <1>3, <1>4, <1>5, <1>6, <1>7, <1>8, <1>9, <1>10, <1>11, <1>12
  DEF Next, Driver, Mac, Handler

-----------------------------------------------------------------------------
LEMMA Invariant == Spec => []IInv
<1>1. IInv /\ [Next]_vars => IInv'
  BY StepTypeOK, StepPcInv, StepWrapInv, StepRing DEF IInv
<1> QED BY InitIInv, <1>1, PTL DEF Spec

\* The state keeps its types: no index leaves the ring, for any ring length.
THEOREM TypeCorrect == Spec => []TypeOK
<1>1. IInv => TypeOK
  BY DEF IInv
<1> QED BY <1>1, Invariant, PTL

\* The driver takes out exactly what the MAC put in, in order, however the
\* two interleave on the shared descriptors.
THEOREM ReceivedInOrder == Spec => []ConsumedAsReceived
<1>1. IInv => ConsumedAsReceived
  BY DEF IInv
<1> QED BY <1>1, Invariant, PTL

\* Going round the ring is addition modulo its length.
LEMMA ForwardIsModulo ==
  ASSUME NEW o \in Slot, NEW u \in 0 .. RxBdCount
  PROVE  (o + u) % RxBdCount = Forward(o, u)
<1>1. CASE o + u < RxBdCount
  <2>1. o + u \in 0 .. RxBdCount - 1
    BY <1>1, RxAssumption DEF Slot
  <2> QED BY <1>1, <2>1, RxAssumption DEF Forward
<1>2. CASE o + u >= RxBdCount
  <2>1. o + u - RxBdCount \in 0 .. RxBdCount - 1
    BY <1>2, RxAssumption DEF Slot
  <2>2. o + u = RxBdCount + (o + u - RxBdCount)
    BY RxAssumption DEF Slot
  <2>3. \A y \in 0 .. RxBdCount - 1 : (RxBdCount + y) % RxBdCount = y
    BY RxAssumption
  <2> QED BY <1>2, <2>1, <2>2, <2>3, RxAssumption DEF Forward, Slot
<1> QED BY <1>1, <1>2, RxAssumption DEF Slot

\* The positions of the firmware and of the device enclose what the CPU owns.
THEOREM WindowConsistent == Spec => []RingWindow
<1>1. ASSUME IInv, task # "off" PROVE RingWindow
  <2> DEFINE o == Oldest
             u == Unread
  <2>1. o \in Slot /\ u \in 0 .. RxBdCount /\ rxCurr = Forward(o, u)
    BY <1>1, OldestStays DEF IInv, RingInv
  <2>2. rxCurr = (o + u) % RxBdCount
    BY <2>1, ForwardIsModulo
  <2>3. ASSUME NEW i \in Slot
        PROVE  ~bd[i].e <=> \E k \in 0 .. u - 1 : i = (o + k) % RxBdCount
    <3>1. ~bd[i].e <=> Distance(o, i) < u
      BY <1>1 DEF IInv, RingInv
    <3>2. \A k \in 0 .. u - 1 : (o + k) % RxBdCount = Forward(o, k)
      BY <2>1, ForwardIsModulo, RxAssumption
    <3>3. \A k \in 0 .. u - 1 : Distance(o, i) = k <=> i = Forward(o, k)
      BY <2>1, ForwardDistance, RxAssumption
    <3>4. Distance(o, i) \in 0 .. RxBdCount - 1
      BY <2>1, ForwardDistance
    <3> QED BY <2>1, <3>1, <3>2, <3>3, <3>4, RxAssumption
  <2>4. \A k \in 0 .. u - 1 : (o + k) % RxBdCount \in Slot
    BY <2>1, ForwardIsModulo, ForwardDistance, RxAssumption
  <2>5. {i \in Slot : ~bd[i].e} = {(o + k) % RxBdCount : k \in 0 .. u - 1}
    BY <2>3, <2>4
  <2> QED BY <2>2, <2>5 DEF RingWindow
<1>2. IInv => RingWindow
  BY <1>1 DEF RingWindow
<1> QED BY <1>2, Invariant, PTL

-----------------------------------------------------------------------------
(* The ring implements a bounded first-in first-out buffer.                *)

\* Where the MAC has found E set there is room for one more packet.
LEMMA MacHasRoom ==
  ASSUME IInv, dev = "write"
  PROVE  Len(received) - Len(consumed) < RxBdCount
<1>1. /\ Oldest \in Slot /\ Unread \in 0 .. RxBdCount
      /\ rxCurr = Forward(Oldest, Unread)
      /\ task # "off" /\ bd[rxCurr].e
  BY OldestStays DEF IInv, PcInv, RingInv
<1>2. Unread = RxBdCount => rxCurr = Oldest
  BY <1>1, RxAssumption DEF Forward, Slot
<1>3. Distance(Oldest, Oldest) = 0
  BY <1>1, NextOrigin
<1>4. Unread # RxBdCount
  BY <1>1, <1>2, <1>3, RxAssumption DEF IInv, RingInv
<1>5. Unread < RxBdCount
  BY <1>1, <1>4, RxAssumption
<1>6. Len(received) \in Nat /\ Len(consumed) \in Nat
  BY Histories DEF IInv
<1>7. Unread >= Len(received) - Len(consumed)
  BY <1>6 DEF Unread
<1> QED BY <1>1, <1>5, <1>6, <1>7, RxAssumption

LEMMA StepFifo ==
  IInv /\ IInv' /\ [Next]_vars => [Fifo!Next]_<<received, consumed>>
<1> SUFFICES ASSUME IInv, IInv', [Next]_vars
             PROVE  Fifo!Next \/ UNCHANGED <<received, consumed>>
  OBVIOUS
<1>h. /\ Len(received) \in Nat /\ Len(consumed) \in Nat
      /\ received \in Seq(Packet) /\ consumed \in Seq(Packet)
  BY Histories DEF IInv, TypeOK
<1>1. CASE ReceiveWrite
  <2> DEFINE p == [data |-> buf[rxCurr], len |-> cur]
  <2>1. p \in Packet
    BY DEF IInv, TypeOK, Packet
  <2>2. received' = Append(received, p) /\ consumed' = consumed
    BY <1>1 DEF ReceiveWrite, inputVars
  <2>3. Len(received) - Len(consumed) < RxBdCount
    BY <1>1, MacHasRoom DEF ReceiveWrite
  <2>4. Fifo!Put(p)
    BY <2>2, <2>3 DEF Fifo!Put, Fifo!Inside
  <2> QED BY <2>1, <2>4 DEF Fifo!Next
<1>2. CASE InputCopy
  <2> DEFINE p == [data |-> buf[tail], len |-> length]
  <2>1. consumed' = Append(consumed, p) /\ received' = received
    BY <1>2 DEF InputCopy, macVars
  <2>2. /\ Len(consumed') = Len(consumed) + 1
        /\ consumed'[Len(consumed) + 1] = p
    BY <1>h, <2>1
  <2>3. /\ Len(consumed) < Len(received)
        /\ p = received[Len(consumed) + 1]
    BY <1>h, <2>1, <2>2 DEF IInv, ConsumedAsReceived
  <2>4. Fifo!Take
    BY <1>h, <2>1, <2>3 DEF Fifo!Take, Fifo!Inside
  <2> QED BY <2>4 DEF Fifo!Next
<1>3. CASE UNCHANGED vars
  BY <1>3 DEF vars, macVars, inputVars
<1>4. CASE Driver \/ Network
  BY <1>4
  DEF Driver, InitBdRings, InitMrbr, InitClearEir, InitEimr, Network,
      ArriveOffered, ArriveQueued, macVars, inputVars
<1>5. CASE ReceiveRefuse \/ ReceiveAccept \/ ReceiveCopy
  BY <1>5 DEF ReceiveRefuse, ReceiveAccept, ReceiveCopy, inputVars
<1>6. CASE Handler /\ ~InputCopy
  BY <1>6
  DEF Handler, IsrEnter, InputStatus, InputFullCircle, InputLength,
      InputClearLength, InputGiveBack, InputAdvance, IsrClear, macVars
<1> QED BY <1>1, <1>2, <1>3, <1>4, <1>5, <1>6 DEF Next, Mac

\* Whatever the MAC and the driver interleave on the shared descriptors, the
\* ring behaves as a buffer of RxBdCount packets with whole insertions and
\* removals.
THEOREM RingRefinesFifo == Spec => RingIsFifo
<1>1. Init => Fifo!Init
  BY DEF Init, Fifo!Init
<1> QED
  BY <1>1, Invariant, StepFifo, PTL DEF Spec, RingIsFifo, Fifo!Spec

-----------------------------------------------------------------------------
(* A frame that is refused.                                                *)

\* The net layer offers nothing once it has been refused a frame.
QuietInv == disabled => dev = "idle"

LEMMA StepQuietInv == QuietInv /\ [Next]_vars =>
  QuietInv' /\ (disabled => disabled' /\ UNCHANGED received)
<1> SUFFICES ASSUME QuietInv, [Next]_vars
             PROVE  QuietInv' /\ (disabled => disabled' /\ UNCHANGED received)
  OBVIOUS
<1>1. CASE Network
  BY <1>1 DEF Network, ArriveOffered, ArriveQueued, QuietInv, macVars
<1>2. CASE Mac
  BY <1>2
  DEF Mac, ReceiveRefuse, ReceiveAccept, ReceiveCopy, ReceiveWrite, QuietInv,
      netVars
<1>3. CASE Driver
  BY <1>3
  DEF Driver, InitBdRings, InitMrbr, InitClearEir, InitEimr, netVars, QuietInv
<1>4. CASE Handler
  BY <1>4
  DEF Handler, IsrEnter, InputStatus, InputFullCircle, InputLength, InputCopy,
      InputClearLength, InputGiveBack, InputAdvance, IsrClear, macVars, netVars,
      QuietInv
<1>5. CASE UNCHANGED vars
  BY <1>5 DEF vars, macVars, netVars, QuietInv
<1> QED BY <1>1, <1>2, <1>3, <1>4, <1>5 DEF Next

\* Refusing one frame, oversized or finding the ring full, ends reception:
\* nothing gets into the ring any more, whatever the driver frees.
THEOREM RefusalIsFinal ==
  Spec => [][disabled => disabled' /\ UNCHANGED received]_vars
<1>1. Init => QuietInv
  BY DEF Init, QuietInv
<1> QED BY <1>1, StepQuietInv, PTL DEF Spec

-----------------------------------------------------------------------------
(* The program as it is: the device does not keep what is written to RDSR. *)

\* Nothing is in the ring or has been; every frame that has arrived waits in
\* the net layer's queue, in order.
AllWait ==
  /\ received = <<>> /\ consumed = <<>> /\ input = <<>>
  /\ Len(queue) = arrived
  /\ \A i \in 1 .. arrived : queue[i] = i

DeafInv ==
  /\ AllWait
  /\ arrived \in Nat /\ queue \in Seq(Nat)
  /\ rdsr = FALSE /\ dev = "idle" /\ isr = "idle" /\ rxf = FALSE

\* If the device ignores the store to RDSR, no frame is ever received, for any
\* ring, any number of frames and whether or not the NVIC delivers the
\* interrupt: each of them goes on waiting.
THEOREM DeafWithoutRdsr == ~RdsrLatched => (Spec => []AllWait)
<1> SUFFICES ASSUME ~RdsrLatched PROVE Spec => []AllWait
  OBVIOUS
<1> USE DEF AllWait, DeafInv
<1>1. Init => DeafInv
  BY DEF Init
<1>2. DeafInv /\ [Next]_vars => DeafInv'
  <2> SUFFICES ASSUME DeafInv, [Next]_vars PROVE DeafInv'
    OBVIOUS
  <2>1. CASE Driver
    BY <2>1, RxAssumption
    DEF Driver, InitBdRings, InitMrbr, InitClearEir, InitEimr, netVars,
        inputVars
  <2>2. CASE ArriveQueued
    <3>1. queue' = Append(queue, arrived + 1) /\ arrived' = arrived + 1
      BY <2>2 DEF ArriveQueued
    <3>2. /\ queue' \in Seq(Nat) /\ Len(queue') = arrived'
          /\ \A i \in 1 .. arrived' : queue'[i] = i
      BY <3>1
    <3> QED BY <2>2, <3>1, <3>2 DEF ArriveQueued, macVars, inputVars
  <2>3. ~ArriveOffered /\ ~Mac /\ ~Handler
    BY DEF ArriveOffered, CanReceive, Mac, ReceiveRefuse, ReceiveAccept,
           ReceiveCopy, ReceiveWrite, Handler, IsrEnter, Irq, InputStatus,
           InputFullCircle, InputLength, InputCopy, InputClearLength,
           InputGiveBack, InputAdvance, IsrClear
  <2>4. CASE UNCHANGED vars
    BY <2>4 DEF vars, macVars, netVars, inputVars
  <2> QED BY <2>1, <2>2, <2>3, <2>4 DEF Next, Network
<1>3. DeafInv => AllWait
  OBVIOUS
<1> QED BY <1>1, <1>2, <1>3, PTL DEF Spec
=============================================================================
