---------------------------- MODULE EnetTx_proofs ----------------------------
(***************************************************************************)
(* Proofs about the transmit path, for every ring length, every bound on   *)
(* the number of frames and of initialisations, with and without the       *)
(* interrupt handler.                                                      *)
(***************************************************************************)
EXTENDS EnetTx, SequenceTheorems, TLAPS

Last == TxBdCount - 1
NextSlot(i) == IF i = Last THEN 0 ELSE i + 1

\* k slots further round the ring, for k up to one full circle.
Forward(i, k) == IF i + k < TxBdCount THEN i + k ELSE i + k - TxBdCount

Scanning == {"store", "advance"}
InHandler == {"read", "store", "advance", "clear"}

\* Call in progress whose frame is not on the wire: before and after its
\* descriptor is handed to the device.
Preparing == {"read", "store", "advance", "check", "copy", "length", "ready"}
Quiet == Preparing \union {"off", "initIrq", "idle"}

DeviceOwns(S) == \A i \in Slot : bd[i].r <=> i \in S

Sending == pc["task"] = "dma" /\ bd[txCurr].r

\* The contexts' program counters and the handler's guards.
PcInv ==
  /\ pc["task"] # "clear"
  /\ pc["isr"] \in InHandler \union {"idle"}
  /\ pc["isr"] # "idle" => NvicEnabled /\ pc["task"] \notin {"off", "dma"}
  /\ pc["task"] = "off" => ~eimrTxf /\ inits = 0 /\ ~linkUp
  /\ pc["task"] # "off" => tdsr /\ inits > 0
  /\ pc["task"] \notin {"off", "initIrq", "idle"} => calls > 0
  /\ NvicEnabled => inits <= 1

\* Exactly the last descriptor carries W, in memory and in the snapshots.
WrapInv ==
  /\ pc["task"] # "off" => \A i \in Slot : bd[i].w <=> i = Last
  /\ \A c \in Context :
       pc[c] \in Scanning => (status[c].w <=> slot[c] = Last)

\* The handler, preempting the task's scan, goes round once and leaves tail
\* where the task's scan had it.
TailInv ==
  /\ \A c \in Context : pc[c] \in Scanning => count[c] < TxBdCount
  /\ \A c \in Context : pc[c] = "store" => ~bd[slot[c]].r
  /\ pc["isr"] \in Scanning => tail = slot["isr"]
  /\ pc["task"] \in Scanning =>
       tail = IF pc["isr"] \in {"idle", "clear"}
              THEN slot["task"]
              ELSE Forward(slot["task"], count["isr"])

\* Who owns which descriptor, and that head and tx_curr agree.
OwnInv ==
  inits <= 1 =>
    /\ pc["task"] = "off" => head = 0 /\ txCurr = 0
    /\ pc["task"] \in Quiet => DeviceOwns({}) /\ head = txCurr
    /\ pc["task"] = "head" => DeviceOwns({head}) /\ head = txCurr
    /\ pc["task"] = "tdar" => DeviceOwns({txCurr}) /\ head = NextSlot(txCurr)
    /\ pc["task"] = "dma" =>
         \/ DeviceOwns({txCurr}) /\ head = NextSlot(txCurr) /\ iter > 0
         \/ DeviceOwns({}) /\ head = txCurr

\* What the buffer and the length of the frame in progress hold.
Prepared(i) == buf[i] = Current /\ bd[i].len \in {0, Current}

FrameInv ==
  inits <= 1 =>
    /\ pc["task"] = "length" => buf[head] = Current
    /\ pc["task"] \in {"ready", "head"} => Prepared(head)
    /\ pc["task"] = "tdar" => Prepared(txCurr)
    /\ Sending => Prepared(txCurr)

\* Frames on the wire belong to calls made, the current one's only at the end.
WireInv ==
  inits <= 1 =>
    /\ SentInOrderOnce
    /\ \A i \in 1 .. Len(wire) : wire[i].len <= Current
    /\ pc["task"] \in Preparing \union {"head", "tdar"} \/ Sending =>
         \A i \in 1 .. Len(wire) : wire[i].len < Current

\* The invariant that is inductive.
IInv ==
  TypeOK /\ PcInv /\ WrapInv /\ TailInv /\ OwnInv /\ FrameInv /\ WireInv

\* Without the handler no length is cleared behind output's back, so the
\* wire has the accepted frames and, between DMA and return, the current one.
Matched == \A i \in 1 .. Len(accepted) : wire[i].data = accepted[i]

AcceptInv ==
  /\ pc["task"] \in {"ready", "head"} => bd[head].len = Current
  /\ pc["task"] = "tdar" \/ Sending => bd[txCurr].len = Current
  /\ Matched
  /\ IF pc["task"] = "dma" /\ ~bd[txCurr].r
     THEN /\ Len(wire) = Len(accepted) + 1
          /\ wire[Len(wire)].data = Current
     ELSE Len(wire) = Len(accepted)

-----------------------------------------------------------------------------
(* Any number of initialisations, without the handler.  k is the number of *)
(* descriptors, from 0 on, that wait for the device to come round.         *)

OwnsBelow(k, S) == \A i \in Slot : bd[i].r <=> i < k \/ i \in S

\* head goes from k to tx_curr: it fills descriptors that nobody looks at, or
\* has caught up and goes along with the device.
HeadBehind(k) == k <= head /\ head <= txCurr /\ (head = k \/ head = txCurr)

Behind(k) == OwnsBelow(k, {}) /\ HeadBehind(k)

\* The frame in progress is where the device looks.
Handed(k) == OwnsBelow(k, {txCurr}) /\ k <= txCurr /\ head = NextSlot(txCurr)

\* Past the last descriptor, the device sends what has waited.
Flushing(k) ==
  /\ head = 0
  /\ \A i \in Slot : bd[i].r <=> txCurr <= i /\ i < k
  /\ k <= txCurr + iter

WaitingFrom(k) ==
  /\ pc["task"] \in Quiet => Behind(k)
  /\ pc["task"] = "head" => OwnsBelow(k, {head}) /\ HeadBehind(k)
  /\ pc["task"] = "tdar" => Behind(k) \/ Handed(k)
  /\ pc["task"] = "dma" =>
       Behind(k) \/ (Handed(k) /\ iter > TxRingSize) \/ Flushing(k)

WaitInv == \E k \in Slot : WaitingFrom(k)

\* What waits is whole, none of it twice and none of it sent yet.
PendingInv ==
  /\ \A i \in Slot : bd[i].r =>
       buf[i] = bd[i].len /\ 0 < bd[i].len /\ bd[i].len <= Current
  /\ \A i, j \in Slot :
       bd[i].r /\ bd[j].r /\ i # j => bd[i].len # bd[j].len
  /\ \A i \in Slot : \A n \in 1 .. Len(wire) :
       bd[i].r => wire[n].data # bd[i].len

\* The call in progress is later than all that waits and all that is sent.
LaterInv ==
  /\ \A n \in 1 .. Len(wire) : wire[n].data <= Current
  /\ pc["task"] \in Preparing =>
       /\ \A i \in Slot : bd[i].r => bd[i].len < Current
       /\ \A n \in 1 .. Len(wire) : wire[n].data < Current
  /\ pc["task"] \in {"length", "ready"} => buf[head] = Current
  /\ pc["task"] = "ready" => bd[head].len = Current

AgainInv == WaitInv /\ PendingInv /\ LaterInv /\ SentWholeOnce

-----------------------------------------------------------------------------
(* Lemmas about the operators.                                             *)

\* A store to one field of a descriptor leaves a descriptor.
LEMMA BdStores ==
  ASSUME NEW b \in TxBd, NEW v \in Content
  PROVE  /\ [b EXCEPT !.len = v] \in TxBd
         /\ [b EXCEPT !.r = TRUE] \in TxBd
         /\ [b EXCEPT !.r = FALSE] \in TxBd
BY DEF TxBd

\* Following W from a descriptor of the ring stays on the ring, and the
\* device's own modulus never bites.
LEMMA NextSlotStays ==
  ASSUME NEW i \in Slot, NEW b, b.w <=> i = Last
  PROVE  /\ NextSlot(i) \in Slot
         /\ After(i, b) = NextSlot(i)
         /\ NextBdIndex(i, b) = NextSlot(i)
<1>1. CASE i = Last
  BY <1>1, TxAssumption DEF Slot, Last, NextSlot, After, NextBdIndex
<1>2. CASE i # Last
  <2>1. i + 1 \in Slot /\ i + 1 < TxRingSize
    BY <1>2, TxAssumption DEF Slot, Last
  <2>2. (i + 1) % TxRingSize = i + 1
    BY <2>1, TxAssumption DEF Slot
  <2>3. QED
    BY <1>2, <2>1, <2>2 DEF NextSlot, After, NextBdIndex
<1>3. QED
  BY <1>1, <1>2

\* A scan that has gone round once is back where it began.
LEMMA ForwardRing ==
  ASSUME NEW i \in Slot
  PROVE  /\ Forward(i, 0) = i
         /\ Forward(i, TxBdCount) = i
         /\ \A k \in 0 .. TxBdCount - 1 :
              Forward(i, k + 1) = NextSlot(Forward(i, k))
BY TxAssumption DEF Slot, Forward, NextSlot, Last

\* The entries of the wire, typed one by one.
LEMMA WireEntries ==
  ASSUME TypeOK
  PROVE  /\ Len(wire) \in Nat
         /\ \A i \in 1 .. Len(wire) :
              wire[i].data \in Nat /\ wire[i].len \in Nat
<1>1. wire \in Seq(Packet)
  BY DEF TypeOK
<1>2. \A i \in 1 .. Len(wire) : wire[i] \in Packet
  BY <1>1, ElementOfSeq
<1>3. Content \subseteq Nat /\ Frame \subseteq Nat
  BY TxAssumption DEF Content, Frame
<1>4. \A p \in Packet : p.data \in Content /\ p.len \in Frame
  BY DEF Packet
<1>5. Len(wire) \in Nat
  BY <1>1
<1>6. ASSUME NEW i \in 1 .. Len(wire)
      PROVE  wire[i].data \in Nat /\ wire[i].len \in Nat
  <2>1. wire[i] \in Packet
    BY <1>2
  <2>2. QED
    BY <2>1, <1>3, <1>4
<1>7. QED
  BY <1>5, <1>6

\* A new call is later than everything on the wire.
LEMMA CallsGrow ==
  ASSUME TypeOK, WireInv, wire' = wire, inits' = inits, calls' = calls + 1
  PROVE  WireInv'
<1>1. calls \in Nat /\ \A i \in 1 .. Len(wire) : wire[i].len \in Nat
  BY WireEntries DEF TypeOK
<1>2. inits <= 1 => \A i \in 1 .. Len(wire) : wire[i].len < calls + 1
  BY <1>1 DEF WireInv, Current
<1>3. inits <= 1 => SentInOrderOnce'
  BY DEF WireInv, SentInOrderOnce
<1>4. QED
  BY <1>1, <1>2, <1>3 DEF WireInv, Current

-----------------------------------------------------------------------------
(* The invariant is inductive.                                             *)

LEMMA InitIInv == Init => IInv
<1> SUFFICES ASSUME Init PROVE IInv
  OBVIOUS
<1> USE TxAssumption DEF Init, Slot, Context
<1>1. TypeOK
  <2>1. bd \in [Slot -> TxBd] /\ buf \in [Slot -> Content]
    BY DEF TxBd, Content
  <2>2. accepted \in Seq(Frame) /\ wire \in Seq(Packet)
    OBVIOUS
  <2>3. pc \in [Context -> {"off", "idle"}]
    OBVIOUS
  <2>4. slot \in [Context -> Slot] /\ count \in [Context -> 0 .. TxBdCount]
    OBVIOUS
  <2>5. status \in [Context -> [r : BOOLEAN, w : BOOLEAN]]
    OBVIOUS
  <2>6. 0 \in Slot /\ 0 \in 0 .. MaxFrames /\ 0 \in 0 .. MaxInits
    OBVIOUS
  <2>7. 0 \in 0 .. TxRingSize + 1
    OBVIOUS
  <2>8. QED
    BY <2>1, <2>2, <2>3, <2>4, <2>5, <2>6, <2>7, Zenon DEF TypeOK
<1>2. PcInv /\ WrapInv /\ TailInv
  BY DEF PcInv, WrapInv, TailInv, Scanning, InHandler
<1>3. OwnInv /\ FrameInv /\ WireInv
  BY DEF OwnInv, FrameInv, WireInv, DeviceOwns, Quiet, Preparing, Sending,
         SentInOrderOnce
<1>4. QED
  BY <1>1, <1>2, <1>3 DEF IInv

LEMMA StepIInv == IInv /\ [Next]_vars => IInv'
<1> SUFFICES ASSUME IInv, [Next]_vars PROVE IInv'
  OBVIOUS
<1> USE TxAssumption DEF Context, Goto, At, May, deviceVars, reclaimVars,
                         callVars
<1>types. TypeOK /\ PcInv /\ WrapInv /\ TailInv /\ OwnInv /\ FrameInv /\ WireInv
  BY DEF IInv
<1>wire. /\ Len(wire) \in Nat
         /\ \A i \in 1 .. Len(wire) :
              wire[i].data \in Nat /\ wire[i].len \in Nat
  BY <1>types, WireEntries
<1>1. CASE InitBdRings
  <2>1. TypeOK'
    <3>1. bd' \in [Slot -> TxBd]
      BY <1>1 DEF InitBdRings, TxBd, Content
    <3>2. 0 \in Slot /\ inits' \in 0 .. MaxInits
      BY <1>1, <1>types DEF InitBdRings, TypeOK, Slot
    <3>3. QED
      BY <1>1, <3>1, <3>2, <1>types DEF InitBdRings, TypeOK
  <2>2. PcInv'
    BY <1>1, <1>types DEF InitBdRings, TypeOK, PcInv, InHandler
  <2>3. WrapInv'
    BY <1>1, <1>types DEF InitBdRings, TypeOK, PcInv, WrapInv, Scanning, Last,
       Slot, TxBd
  <2>4. TailInv'
    BY <1>1 DEF InitBdRings, TailInv, Scanning
  <2>5. OwnInv'
    BY <1>1, <1>types DEF InitBdRings, TypeOK, PcInv, OwnInv, DeviceOwns
  <2>6. FrameInv'
    BY <1>1 DEF InitBdRings, FrameInv, Sending
  <2>7. WireInv'
    BY <1>1, <1>types DEF InitBdRings, TypeOK, WireInv, Preparing, Sending,
       Current, SentInOrderOnce
  <2>8. QED
    BY <2>1, <2>2, <2>3, <2>4, <2>5, <2>6, <2>7 DEF IInv
<1>2. CASE InitInterrupts
  <2>1. TypeOK'
    BY <1>2, <1>types DEF InitInterrupts, TypeOK, PcInv, Slot, Content, Frame, TxBd
  <2>2. PcInv'
    BY <1>2, <1>types DEF InitInterrupts, TypeOK, PcInv, InHandler
  <2>3. WrapInv'
    BY <1>2, <1>types DEF InitInterrupts, WrapInv, Scanning
  <2>4. TailInv'
    BY <1>2 DEF InitInterrupts, TailInv, Scanning
  <2>5. OwnInv'
    BY <1>2, <1>types DEF InitInterrupts, OwnInv, DeviceOwns, Quiet
  <2>6. FrameInv'
    BY <1>2 DEF InitInterrupts, FrameInv, Sending
  <2>7. WireInv'
    BY <1>2, <1>types DEF InitInterrupts, WireInv, Preparing, Sending, Current,
       SentInOrderOnce
  <2>8. QED
    BY <2>1, <2>2, <2>3, <2>4, <2>5, <2>6, <2>7 DEF IInv
<1>3. CASE OutputLinkDown
  <2>1. TypeOK'
    <3>1. calls' \in 0 .. MaxFrames
      BY <1>3, <1>types DEF OutputLinkDown, TypeOK
    <3>2. QED
      BY <1>3, <3>1, <1>types DEF OutputLinkDown, TypeOK
  <2>2. PcInv'
    BY <1>3, <1>types DEF OutputLinkDown, TypeOK, PcInv, InHandler
  <2>3. WrapInv'
    BY <1>3, <1>types DEF OutputLinkDown, WrapInv
  <2>4. TailInv'
    BY <1>3, <1>types DEF OutputLinkDown, TailInv
  <2>5. OwnInv'
    BY <1>3, <1>types DEF OutputLinkDown, OwnInv, DeviceOwns, Quiet
  <2>6. FrameInv'
    BY <1>3, <1>types DEF OutputLinkDown, TypeOK, PcInv, OwnInv, DeviceOwns,
       FrameInv, Quiet, Preparing, Sending, Prepared, Current, Slot, TxBd,
       Content
  <2>7. WireInv'
    BY <1>3, <1>types, CallsGrow DEF OutputLinkDown
  <2>8. QED
    BY <2>1, <2>2, <2>3, <2>4, <2>5, <2>6, <2>7 DEF IInv
<1>4. CASE OutputCall
  <2>1. TypeOK'
    <3>1. calls' \in 0 .. MaxFrames /\ 0 \in 0 .. TxBdCount
      BY <1>4, <1>types DEF OutputCall, TypeOK
    <3>2. QED
      BY <1>4, <3>1, <1>types DEF OutputCall, TypeOK
  <2>2. PcInv'
    BY <1>4, <1>types DEF OutputCall, TypeOK, PcInv, InHandler
  <2>3. WrapInv'
    BY <1>4, <1>types DEF OutputCall, WrapInv, Scanning
  <2>4. TailInv'
    BY <1>4 DEF OutputCall, TailInv, Scanning
  <2>5. OwnInv'
    BY <1>4, <1>types DEF OutputCall, OwnInv, DeviceOwns, Quiet
  <2>6. FrameInv'
    BY <1>4 DEF OutputCall, FrameInv, Sending
  <2>7. WireInv'
    BY <1>4, <1>types, CallsGrow DEF OutputCall
  <2>8. QED
    BY <2>1, <2>2, <2>3, <2>4, <2>5, <2>6, <2>7 DEF IInv
<1>5. CASE OutputCheck
  <2>1. TypeOK'
    BY <1>5, <1>types DEF OutputCheck, TypeOK, PcInv, Slot, Content, Frame, TxBd
  <2>2. PcInv'
    BY <1>5, <1>types DEF OutputCheck, TypeOK, PcInv, InHandler
  <2>3. WrapInv'
    BY <1>5, <1>types DEF OutputCheck, WrapInv, Scanning
  <2>4. TailInv'
    BY <1>5 DEF OutputCheck, TailInv, Scanning
  <2>5. OwnInv'
    BY <1>5, <1>types DEF OutputCheck, OwnInv, DeviceOwns, Quiet, Preparing
  <2>6. FrameInv'
    BY <1>5 DEF OutputCheck, FrameInv, Sending
  <2>7. WireInv'
    BY <1>5, <1>types DEF OutputCheck, WireInv, Preparing, Current, SentInOrderOnce
  <2>8. QED
    BY <2>1, <2>2, <2>3, <2>4, <2>5, <2>6, <2>7 DEF IInv
<1>6. CASE OutputCopy
  <2>1. TypeOK'
    <3>1. Current \in Content
      BY <1>types DEF TypeOK, Current, Content
    <3>2. buf' \in [Slot -> Content]
      BY <1>6, <3>1, <1>types DEF OutputCopy, TypeOK
    <3>3. QED
      BY <1>6, <3>2, <1>types DEF OutputCopy, TypeOK
  <2>2. PcInv'
    BY <1>6, <1>types DEF OutputCopy, TypeOK, PcInv, InHandler
  <2>3. WrapInv'
    BY <1>6, <1>types DEF OutputCopy, WrapInv, Scanning
  <2>4. TailInv'
    BY <1>6 DEF OutputCopy, TailInv, Scanning
  <2>5. OwnInv'
    BY <1>6, <1>types DEF OutputCopy, OwnInv, DeviceOwns, Quiet, Preparing
  <2>6. FrameInv'
    BY <1>6, <1>types DEF OutputCopy, TypeOK, FrameInv, Sending, Current
  <2>7. WireInv'
    BY <1>6, <1>types DEF OutputCopy, WireInv, Preparing, Current, SentInOrderOnce
  <2>8. QED
    BY <2>1, <2>2, <2>3, <2>4, <2>5, <2>6, <2>7 DEF IInv
<1>7. CASE OutputTooLong
  <2>1. TypeOK'
    <3>1. buf' \in [Slot -> Content]
      BY <1>7, <1>types DEF OutputTooLong, TypeOK, Content
    <3>2. QED
      BY <1>7, <3>1, <1>types DEF OutputTooLong, TypeOK
  <2>2. PcInv'
    BY <1>7, <1>types DEF OutputTooLong, TypeOK, PcInv, InHandler
  <2>3. WrapInv'
    BY <1>7, <1>types DEF OutputTooLong, WrapInv, Scanning
  <2>4. TailInv'
    BY <1>7 DEF OutputTooLong, TailInv, Scanning
  <2>5. OwnInv'
    BY <1>7, <1>types DEF OutputTooLong, OwnInv, DeviceOwns, Quiet, Preparing
  <2>6. FrameInv'
    BY <1>7 DEF OutputTooLong, FrameInv, Sending
  <2>7. WireInv'
    BY <1>7, <1>types DEF OutputTooLong, WireInv, Preparing, Current,
       SentInOrderOnce
  <2>8. QED
    BY <2>1, <2>2, <2>3, <2>4, <2>5, <2>6, <2>7 DEF IInv
<1>8. CASE OutputLength
  <2>1. TypeOK'
    <3>1. Current \in Content
      BY <1>types DEF TypeOK, Current, Content
    <3>2. bd' \in [Slot -> TxBd]
      <4> DEFINE e == [bd[head] EXCEPT !.len = Current]
      <4>1. e \in TxBd
        BY <3>1, <1>types, BdStores DEF TypeOK
      <4>2. bd' = [bd EXCEPT ![head] = e]
        BY <1>8 DEF OutputLength
      <4> HIDE DEF e
      <4>3. QED
        BY <4>1, <4>2, <1>types DEF TypeOK
    <3>3. QED
      BY <1>8, <3>2, <1>types DEF OutputLength, TypeOK
  <2>2. PcInv'
    BY <1>8, <1>types DEF OutputLength, TypeOK, PcInv, InHandler
  <2>3. WrapInv'
    BY <1>8, <1>types DEF OutputLength, TypeOK, WrapInv, Scanning, TxBd
  <2>4. TailInv'
    BY <1>8 DEF OutputLength, TailInv, Scanning
  <2>5. OwnInv'
    BY <1>8, <1>types DEF OutputLength, OwnInv, DeviceOwns, Quiet, Preparing
  <2>6. FrameInv'
    BY <1>8, <1>types DEF OutputLength, TypeOK, FrameInv, Sending, Prepared, Current
  <2>7. WireInv'
    BY <1>8, <1>types DEF OutputLength, WireInv, Preparing, Current, SentInOrderOnce
  <2>8. QED
    BY <2>1, <2>2, <2>3, <2>4, <2>5, <2>6, <2>7 DEF IInv
<1>9. CASE OutputReady
  <2>1. TypeOK'
    <3> DEFINE e == [bd[head] EXCEPT !.r = TRUE]
    <3>1. e \in TxBd
      BY <1>types, BdStores DEF TypeOK, Content
    <3>2. bd' = [bd EXCEPT ![head] = e]
      BY <1>9 DEF OutputReady
    <3> HIDE DEF e
    <3>3. bd' \in [Slot -> TxBd]
      BY <3>1, <3>2, <1>types DEF TypeOK
    <3>4. QED
      BY <1>9, <3>3, <1>types DEF OutputReady, TypeOK
  <2>2. PcInv'
    BY <1>9, <1>types DEF OutputReady, TypeOK, PcInv, InHandler
  <2>3. WrapInv'
    <3>1. \A i \in Slot : bd'[i].w = bd[i].w
      BY <1>9, <1>types DEF OutputReady, TypeOK, TxBd
    <3>2. QED
      BY <1>9, <3>1, <1>types DEF OutputReady, TypeOK, WrapInv, Scanning
  <2>4. TailInv'
    BY <1>9 DEF OutputReady, TailInv, Scanning
  <2>5. OwnInv'
    BY <1>9, <1>types DEF OutputReady, TypeOK, OwnInv, DeviceOwns, Quiet, Preparing
  <2>6. FrameInv'
    BY <1>9, <1>types DEF OutputReady, FrameInv, Sending, Prepared, Current
  <2>7. WireInv'
    BY <1>9, <1>types DEF OutputReady, WireInv, Preparing, Current, SentInOrderOnce
  <2>8. QED
    BY <2>1, <2>2, <2>3, <2>4, <2>5, <2>6, <2>7 DEF IInv
<1>10. CASE OutputHead
  <2>0. head' = NextSlot(head) /\ head' \in Slot
    <3>1. head \in Slot /\ (bd[head].w <=> head = Last)
      BY <1>10, <1>types DEF OutputHead, TypeOK, WrapInv
    <3>2. head' = After(head, bd[head])
      BY <1>10 DEF OutputHead
    <3>3. QED
      BY <3>1, <3>2, NextSlotStays
  <2>1. TypeOK'
    BY <1>10, <2>0, <1>types DEF OutputHead, TypeOK
  <2>2. PcInv'
    BY <1>10, <1>types DEF OutputHead, TypeOK, PcInv, InHandler
  <2>3. WrapInv'
    BY <1>10, <1>types DEF OutputHead, WrapInv, Scanning
  <2>4. TailInv'
    BY <1>10 DEF OutputHead, TailInv, Scanning
  <2>5. OwnInv'
    BY <1>10, <2>0, <1>types DEF OutputHead, TypeOK, PcInv, OwnInv, DeviceOwns,
       Quiet, Preparing
  <2>6. FrameInv'
    BY <1>10, <1>types DEF OutputHead, TypeOK, OwnInv, FrameInv, Prepared, Current
  <2>7. WireInv'
    BY <1>10, <1>types DEF OutputHead, WireInv, Current, SentInOrderOnce
  <2>8. QED
    BY <2>1, <2>2, <2>3, <2>4, <2>5, <2>6, <2>7 DEF IInv
<1>11. CASE WriteTdar
  <2>1. TypeOK'
    <3>1. iter' \in 0 .. TxRingSize + 1
      BY <1>11 DEF WriteTdar
    <3>2. QED
      BY <1>11, <3>1, <1>types DEF WriteTdar, TypeOK
  <2>2. PcInv'
    BY <1>11, <1>types DEF WriteTdar, TypeOK, PcInv, InHandler
  <2>3. WrapInv'
    BY <1>11, <1>types DEF WriteTdar, WrapInv, Scanning
  <2>4. TailInv'
    BY <1>11 DEF WriteTdar, TailInv, Scanning
  <2>5. OwnInv'
    BY <1>11, <1>types DEF WriteTdar, OwnInv, DeviceOwns, Quiet, Preparing
  <2>6. FrameInv'
    BY <1>11, <1>types DEF WriteTdar, FrameInv, Prepared, Current
  <2>7. WireInv'
    BY <1>11, <1>types DEF WriteTdar, WireInv, Current, SentInOrderOnce
  <2>8. QED
    BY <2>1, <2>2, <2>3, <2>4, <2>5, <2>6, <2>7 DEF IInv
<1>12. CASE DoTxBd
  <2>0. txCurr' = NextSlot(txCurr) /\ txCurr' \in Slot
    <3>1. txCurr \in Slot /\ (bd[txCurr].w <=> txCurr = Last)
      BY <1>12, <1>types DEF DoTxBd, TypeOK, WrapInv
    <3>2. txCurr' = NextBdIndex(txCurr, bd[txCurr])
      BY <1>12 DEF DoTxBd
    <3>3. QED
      BY <3>1, <3>2, NextSlotStays
  <2>a. /\ wire' \in Seq(Packet)
        /\ bd[txCurr].len = 0 => wire' = wire
        /\ bd[txCurr].len # 0 =>
             /\ Len(wire') = Len(wire) + 1
             /\ \A i \in 1 .. Len(wire) : wire'[i] = wire[i]
             /\ wire'[Len(wire) + 1].data = buf[txCurr]
             /\ wire'[Len(wire) + 1].len = bd[txCurr].len
    <3>1. CASE bd[txCurr].len = 0
      BY <3>1, <1>12, <1>types DEF DoTxBd, TypeOK
    <3>2. CASE bd[txCurr].len # 0
      <4> DEFINE p == [data |-> buf[txCurr], len |-> bd[txCurr].len]
      <4>1. bd[txCurr].len \in Frame /\ buf[txCurr] \in Content
        <5>1. bd[txCurr] \in TxBd /\ buf[txCurr] \in Content
          BY <1>types DEF TypeOK
        <5>2. bd[txCurr].len \in Content
          BY <5>1 DEF TxBd
        <5>3. QED
          BY <3>2, <5>1, <5>2 DEF Content, Frame
      <4>2. p \in Packet /\ p.data = buf[txCurr] /\ p.len = bd[txCurr].len
        BY <4>1 DEF Packet
      <4>3. wire' = Append(wire, p) /\ wire \in Seq(Packet)
        BY <3>2, <1>12, <1>types DEF DoTxBd, TypeOK
      <4> HIDE DEF p
      <4>4. QED
        BY <3>2, <4>2, <4>3, AppendProperties
    <3>3. QED
      BY <3>1, <3>2
  <2>b. bd' \in [Slot -> TxBd]
    <3> DEFINE e == [bd[txCurr] EXCEPT !.r = FALSE]
    <3>1. e \in TxBd
      BY <1>types, BdStores DEF TypeOK, Content
    <3>2. bd' = [bd EXCEPT ![txCurr] = e]
      BY <1>12 DEF DoTxBd
    <3> HIDE DEF e
    <3>3. QED
      BY <3>1, <3>2, <1>types DEF TypeOK
  <2>1. TypeOK'
    BY <1>12, <2>0, <2>a, <2>b, <1>types DEF DoTxBd, TypeOK
  <2>2. PcInv'
    BY <1>12, <1>types DEF DoTxBd, TypeOK, PcInv, InHandler
  <2>3. WrapInv'
    <3>1. \A i \in Slot : bd'[i].w = bd[i].w
      BY <1>12, <1>types DEF DoTxBd, TypeOK, TxBd
    <3>2. QED
      BY <1>12, <3>1, <1>types DEF DoTxBd, WrapInv
  <2>4. TailInv'
    BY <1>12, <1>types DEF DoTxBd, TypeOK, PcInv, TailInv, OwnInv, DeviceOwns,
       InHandler, Quiet, Preparing, Scanning, Forward, Slot
  <2>c. inits <= 1 => DeviceOwns({txCurr}) /\ head = NextSlot(txCurr)
    BY <1>12, <1>types DEF DoTxBd, TypeOK, OwnInv, DeviceOwns
  <2>d. \A i \in Slot : bd'[i].r <=> bd[i].r /\ i # txCurr
    BY <1>12, <1>types DEF DoTxBd, TypeOK, TxBd
  <2>5. OwnInv'
    BY <1>12, <2>0, <2>c, <2>d, <1>types DEF DoTxBd, TypeOK, PcInv, OwnInv,
       DeviceOwns, Quiet, Preparing
  <2>6. FrameInv'
    BY <1>12, <2>0, <2>c, <2>d, <1>types DEF DoTxBd, FrameInv, DeviceOwns, Sending
  <2>7. WireInv'
    <3>1. inits <= 1 => ~Sending'
      BY <1>12, <2>0, <2>c, <2>d DEF DeviceOwns, Sending
    <3>2. Sending /\ pc'["task"] = "dma" /\ UNCHANGED <<inits, calls>>
      BY <1>12 DEF DoTxBd, Sending
    <3>3. CASE bd[txCurr].len = 0
      BY <3>1, <3>2, <3>3, <2>a, <1>types
         DEF WireInv, SentInOrderOnce, Current, Preparing
    <3>4. CASE bd[txCurr].len # 0
      <4>1. inits <= 1 => bd[txCurr].len = calls /\ buf[txCurr] = calls
        BY <3>2, <3>4, <1>types DEF FrameInv, Prepared, Current
      <4>2. \A i \in 1 .. Len(wire') : i \in 1 .. Len(wire) \/ i = Len(wire) + 1
        BY <3>4, <2>a, <1>wire
      <4>3. inits <= 1 => SentInOrderOnce'
        <5>1. inits <= 1 => \A i \in 1 .. Len(wire) : wire[i].len < calls
          BY <3>2, <1>types DEF WireInv, Current
        <5>2. inits <= 1 => SentInOrderOnce
          BY <1>types DEF WireInv
        <5>3. inits <= 1 =>
                \A i \in 1 .. Len(wire') : wire'[i].data = wire'[i].len
          BY <5>2, <3>4, <4>1, <4>2, <2>a DEF SentInOrderOnce
        <5>4. ASSUME inits <= 1,
                     NEW i \in 1 .. Len(wire'), NEW j \in 1 .. Len(wire'), i < j
              PROVE  wire'[i].data < wire'[j].data
          <6>1. i \in 1 .. Len(wire)
            BY <5>4, <4>2, <1>wire
          <6>2. CASE j \in 1 .. Len(wire)
            BY <6>1, <6>2, <5>2, <5>4, <3>4, <2>a DEF SentInOrderOnce
          <6>3. CASE j = Len(wire) + 1
            BY <6>1, <6>3, <5>1, <5>2, <5>4, <3>4, <4>1, <2>a
               DEF SentInOrderOnce
          <6>4. QED
            BY <6>2, <6>3, <4>2
        <5>5. QED
          BY <5>3, <5>4 DEF SentInOrderOnce
      <4>4. inits <= 1 => \A i \in 1 .. Len(wire') : wire'[i].len <= calls
        <5>1. calls \in Nat
          BY <1>types DEF TypeOK
        <5>2. inits <= 1 => \A i \in 1 .. Len(wire) : wire[i].len <= calls
          BY <1>types DEF WireInv, Current
        <5>3. QED
          BY <5>1, <5>2, <3>4, <4>1, <4>2, <2>a
      <4>5. QED
        BY <3>1, <3>2, <4>3, <4>4 DEF WireInv, Current, Preparing
    <3>5. QED
      BY <3>3, <3>4
  <2>8. QED
    BY <2>1, <2>2, <2>3, <2>4, <2>5, <2>6, <2>7 DEF IInv
<1>13. CASE TdarDone
  <2>0. accepted' \in Seq(Frame)
    <3>1. Current \in Frame
      BY <1>13, <1>types DEF TdarDone, TypeOK, PcInv, Current, Frame
    <3>2. QED
      BY <3>1, <1>13, <1>types, AppendProperties DEF TdarDone, TypeOK
  <2>1. TypeOK'
    BY <1>13, <2>0, <1>types DEF TdarDone, TypeOK
  <2>2. PcInv'
    BY <1>13, <1>types DEF TdarDone, TypeOK, PcInv, InHandler
  <2>3. WrapInv'
    BY <1>13, <1>types DEF TdarDone, WrapInv, Scanning
  <2>4. TailInv'
    BY <1>13, <1>types DEF TdarDone, TailInv, Scanning
  <2>5. OwnInv'
    BY <1>13, <1>types DEF TdarDone, TypeOK, PcInv, OwnInv, DeviceOwns
  <2>6. FrameInv'
    BY <1>13, <1>types DEF TdarDone, TypeOK, FrameInv, Sending
  <2>7. WireInv'
    BY <1>13, <1>types DEF TdarDone, WireInv, Preparing, Sending, Current,
       SentInOrderOnce
  <2>8. QED
    BY <2>1, <2>2, <2>3, <2>4, <2>5, <2>6, <2>7 DEF IInv
<1>14. CASE IsrEnter
  <2>1. TypeOK'
    <3>1. 0 \in 0 .. TxBdCount
      OBVIOUS
    <3>2. QED
      BY <1>14, <3>1, <1>types DEF IsrEnter, TypeOK
  <2>2. PcInv'
    BY <1>14, <1>types DEF IsrEnter, Irq, TypeOK, PcInv, InHandler
  <2>3. WrapInv'
    BY <1>14, <1>types DEF IsrEnter, WrapInv, Scanning
  <2>4. TailInv'
    BY <1>14, <1>types DEF IsrEnter, TypeOK, TailInv, Scanning, Forward, Slot
  <2>5. OwnInv'
    BY <1>14, <1>types DEF IsrEnter, OwnInv, DeviceOwns
  <2>6. FrameInv'
    BY <1>14, <1>types DEF IsrEnter, FrameInv, Sending, Prepared, Current
  <2>7. WireInv'
    BY <1>14, <1>types DEF IsrEnter, WireInv, Sending, Current, SentInOrderOnce
  <2>8. QED
    BY <2>1, <2>2, <2>3, <2>4, <2>5, <2>6, <2>7 DEF IInv
<1>15. CASE IsrClear
  <2>1. TypeOK'
    BY <1>15, <1>types DEF IsrClear, TypeOK, PcInv, Slot, Content, Frame, TxBd
  <2>2. PcInv'
    BY <1>15, <1>types DEF IsrClear, TypeOK, PcInv, InHandler
  <2>3. WrapInv'
    BY <1>15, <1>types DEF IsrClear, WrapInv, Scanning
  <2>4. TailInv'
    BY <1>15, <1>types DEF IsrClear, TailInv, Scanning
  <2>5. OwnInv'
    BY <1>15, <1>types DEF IsrClear, OwnInv, DeviceOwns
  <2>6. FrameInv'
    BY <1>15, <1>types DEF IsrClear, FrameInv, Sending, Prepared, Current
  <2>7. WireInv'
    BY <1>15, <1>types DEF IsrClear, WireInv, Sending, Current, SentInOrderOnce
  <2>8. QED
    BY <2>1, <2>2, <2>3, <2>4, <2>5, <2>6, <2>7 DEF IInv
<1>16. ASSUME NEW c \in Context, ReclaimRead(c) PROVE IInv'
  <2>1. TypeOK'
    BY <1>16, <1>types DEF ReclaimRead, Reclaimed, TypeOK, PcInv, Slot, Content,
       Frame, TxBd
  <2>2. PcInv'
    BY <1>16, <1>types DEF ReclaimRead, Reclaimed, TypeOK, PcInv, InHandler
  <2>3. WrapInv'
    BY <1>16, <1>types DEF ReclaimRead, Reclaimed, TypeOK, PcInv, WrapInv,
       Scanning, Last, Slot, TxBd
  <2>4. TailInv'
    BY <1>16, <1>types DEF ReclaimRead, Reclaimed, TypeOK, PcInv, TailInv,
       OwnInv, DeviceOwns, Quiet, Preparing, Scanning
  <2>5. OwnInv'
    BY <1>16, <1>types DEF ReclaimRead, TypeOK, OwnInv, DeviceOwns, Quiet, Preparing
  <2>6. FrameInv'
    BY <1>16, <1>types DEF ReclaimRead, Reclaimed, FrameInv, Sending, Prepared,
       Current
  <2>7. WireInv'
    BY <1>16, <1>types DEF ReclaimRead, WireInv, Preparing, Sending, Current,
       SentInOrderOnce
  <2>8. QED
    BY <2>1, <2>2, <2>3, <2>4, <2>5, <2>6, <2>7 DEF IInv
<1>17. ASSUME NEW c \in Context, ReclaimStore(c) PROVE IInv'
  <2>1. TypeOK'
    <3> DEFINE e == [r |-> FALSE, w |-> status[c].w, len |-> 0]
    <3>1. status[c] \in [r : BOOLEAN, w : BOOLEAN]
      BY <1>types DEF TypeOK
    <3>2. status[c].w \in BOOLEAN
      BY <3>1
    <3>3. e \in TxBd
      BY <3>2 DEF TxBd, Content
    <3>4. bd' = [bd EXCEPT ![slot[c]] = e]
      BY <1>17 DEF ReclaimStore
    <3> HIDE DEF e
    <3>5. bd' \in [Slot -> TxBd]
      BY <3>3, <3>4, <1>types DEF TypeOK
    <3>6. QED
      BY <1>17, <3>5, <1>types DEF ReclaimStore, TypeOK
  <2>2. PcInv'
    BY <1>17, <1>types DEF ReclaimStore, TypeOK, PcInv, InHandler
  <2>3. WrapInv'
    BY <1>17, <1>types DEF ReclaimStore, WrapInv, Scanning
  <2>4. TailInv'
    BY <1>17, <1>types DEF ReclaimStore, TailInv, Scanning
  <2>5. OwnInv'
    <3>1. \A i \in Slot : bd'[i].r <=> bd[i].r
      BY <1>17, <1>types DEF ReclaimStore, TypeOK, TailInv, TxBd
    <3>2. pc'["task"] # pc["task"] => {pc["task"], pc'["task"]} \subseteq Quiet \ {"off"}
      BY <1>17, <1>types DEF ReclaimStore, TypeOK, Quiet, Preparing
    <3>3. QED
      BY <3>1, <3>2, <1>17, <1>types DEF ReclaimStore, OwnInv, DeviceOwns,
         Quiet, Preparing
  <2>6. FrameInv'
    BY <1>17, <1>types DEF ReclaimStore, TypeOK, PcInv, OwnInv, DeviceOwns,
       FrameInv, Quiet, Preparing, Sending, Prepared, Current, Slot, TxBd,
       Content
  <2>7. WireInv'
    BY <1>17, <1>types DEF ReclaimStore, WireInv, Preparing, Sending, Current,
       SentInOrderOnce
  <2>8. QED
    BY <2>1, <2>2, <2>3, <2>4, <2>5, <2>6, <2>7 DEF IInv
<1>18. ASSUME NEW c \in Context, ReclaimAdvance(c) PROVE IInv'
  <2>0. tail' = NextSlot(tail) /\ tail' \in Slot
    <3>1. tail = slot[c]
      BY <1>18, <1>types DEF ReclaimAdvance, TailInv, Scanning
    <3>2. tail \in Slot /\ (status[c].w <=> tail = Last)
      BY <3>1, <1>18, <1>types DEF ReclaimAdvance, TypeOK, WrapInv, Scanning
    <3>3. tail' = After(tail, status[c])
      BY <1>18 DEF ReclaimAdvance
    <3>4. QED
      BY <3>2, <3>3, NextSlotStays
  <2>1. TypeOK'
    <3>1. count[c] < TxBdCount /\ count[c] + 1 \in 0 .. TxBdCount
      BY <1>18, <1>types DEF ReclaimAdvance, TypeOK, TailInv, Scanning
    <3>2. QED
      BY <1>18, <2>0, <3>1, <1>types DEF ReclaimAdvance, TypeOK
  <2>2. PcInv'
    BY <1>18, <1>types DEF ReclaimAdvance, TypeOK, PcInv, InHandler
  <2>3. WrapInv'
    BY <1>18, <1>types DEF ReclaimAdvance, WrapInv, Scanning
  <2>4. TailInv'
    <3>1. pc'[c] = "read" /\ \A d \in Context \ {c} : pc'[d] = pc[d]
      BY <1>18, <1>types DEF ReclaimAdvance, TypeOK
    <3>2. CASE c = "task"
      BY <3>1, <3>2, <1>18, <1>types DEF ReclaimAdvance, TypeOK, TailInv, Scanning
    <3>3. CASE c = "isr"
      <4>1. count'["isr"] = count["isr"] + 1 /\ count["isr"] \in 0 .. TxBdCount - 1
        BY <3>3, <1>18, <1>types DEF ReclaimAdvance, TypeOK, TailInv, Scanning
      <4>2. pc["task"] \in Scanning => tail' = Forward(slot["task"], count'["isr"])
        <5>1. slot["task"] \in Slot
          BY <1>types DEF TypeOK
        <5>2. pc["task"] \in Scanning => tail = Forward(slot["task"], count["isr"])
          BY <3>3, <1>18, <1>types DEF ReclaimAdvance, TailInv
        <5>3. Forward(slot["task"], count["isr"] + 1)
                = NextSlot(Forward(slot["task"], count["isr"]))
          BY <4>1, <5>1, ForwardRing
        <5>4. QED
          BY <4>1, <5>2, <5>3, <2>0
      <4>3. QED
        BY <3>1, <3>3, <4>1, <4>2, <1>18, <1>types
           DEF ReclaimAdvance, TypeOK, TailInv, Scanning
    <3>4. QED
      BY <3>2, <3>3
  <2>5. OwnInv'
    BY <1>18, <1>types DEF ReclaimAdvance, OwnInv, DeviceOwns, Quiet, Preparing
  <2>6. FrameInv'
    BY <1>18, <1>types DEF ReclaimAdvance, FrameInv, Sending, Prepared, Current
  <2>7. WireInv'
    BY <1>18, <1>types DEF ReclaimAdvance, WireInv, Preparing, Sending, Current,
       SentInOrderOnce
  <2>8. QED
    BY <2>1, <2>2, <2>3, <2>4, <2>5, <2>6, <2>7 DEF IInv
<1>19. ASSUME NEW c \in Context, ReclaimFullCircle(c) PROVE IInv'
  <2>1. TypeOK'
    BY <1>19, <1>types DEF ReclaimFullCircle, Reclaimed, TypeOK, PcInv, Slot,
       Content, Frame, TxBd
  <2>2. PcInv'
    BY <1>19, <1>types DEF ReclaimFullCircle, Reclaimed, TypeOK, PcInv, InHandler
  <2>3. WrapInv'
    BY <1>19, <1>types DEF ReclaimFullCircle, Reclaimed, WrapInv, Scanning
  <2>4. TailInv'
    BY <1>19, <1>types DEF ReclaimFullCircle, Reclaimed, TypeOK, TailInv,
       Scanning, Forward, Slot
  <2>5. OwnInv'
    BY <1>19, <1>types DEF ReclaimFullCircle, Reclaimed, OwnInv, DeviceOwns,
       Quiet, Preparing
  <2>6. FrameInv'
    BY <1>19, <1>types DEF ReclaimFullCircle, Reclaimed, FrameInv, Sending,
       Prepared, Current
  <2>7. WireInv'
    BY <1>19, <1>types DEF ReclaimFullCircle, WireInv, Preparing, Sending,
       Current, SentInOrderOnce
  <2>8. QED
    BY <2>1, <2>2, <2>3, <2>4, <2>5, <2>6, <2>7 DEF IInv
<1>20. CASE UNCHANGED vars
  BY <1>20, <1>types DEF IInv, vars, TypeOK, PcInv, WrapInv, TailInv, OwnInv,
     FrameInv, WireInv, DeviceOwns, Prepared, Sending, Current, SentInOrderOnce
<1>. QED
  BY <1>1, <1>2, <1>3, <1>4, <1>5, <1>6, <1>7, <1>8, <1>9, <1>10, <1>11, <1>12,
     <1>13, <1>14, <1>15, <1>16, <1>17, <1>18, <1>19, <1>20
     DEF Next, Output, Reclaim, Device, Handler

-----------------------------------------------------------------------------
(* The shipped firmware: one initialisation, no handler.                   *)

LEMMA InitAccept == Init => AcceptInv
BY TxAssumption DEF Init, AcceptInv, Matched, Sending, Context

LEMMA StepAccept ==
  ASSUME ~NvicEnabled, inits <= 1, IInv, AcceptInv, [Next]_vars
  PROVE  AcceptInv'
<1> USE TxAssumption DEF Context, Goto, At, May, deviceVars, reclaimVars,
                         callVars
<1>types. TypeOK /\ PcInv /\ WrapInv /\ TailInv /\ OwnInv /\ FrameInv
  BY DEF IInv
<1>once. inits <= 1
  OBVIOUS
<1>isr. pc["isr"] = "idle"
  BY <1>types DEF PcInv
<1>seqs. wire \in Seq(Packet) /\ accepted \in Seq(Frame)
  BY <1>types DEF TypeOK
<1>lens. Len(wire) \in Nat /\ Len(accepted) \in Nat
  BY <1>seqs
<1>1. CASE InitBdRings
  BY <1>1, <1>types, <1>once
     DEF InitBdRings, AcceptInv, Matched, TypeOK, TxBd, Slot, OwnInv,
         DeviceOwns, Quiet,
         Preparing, Sending, Current
<1>2. CASE InitInterrupts
  BY <1>2, <1>types, <1>once
     DEF InitInterrupts, AcceptInv, Matched, TypeOK, TxBd, Slot, OwnInv,
         DeviceOwns, Quiet,
         Preparing, Sending, Current
<1>3. CASE OutputLinkDown
  BY <1>3, <1>types, <1>once
     DEF OutputLinkDown, AcceptInv, Matched, TypeOK, TxBd, Slot, OwnInv,
         DeviceOwns, Quiet,
         Preparing, Sending, Current
<1>4. CASE OutputCall
  BY <1>4, <1>types, <1>once
     DEF OutputCall, AcceptInv, Matched, TypeOK, TxBd, Slot, OwnInv, DeviceOwns,
         Quiet,
         Preparing, Sending, Current
<1>5. CASE OutputCheck
  BY <1>5, <1>types, <1>once
     DEF OutputCheck, AcceptInv, Matched, TypeOK, TxBd, Slot, OwnInv,
         DeviceOwns, Quiet,
         Preparing, Sending, Current
<1>6. CASE OutputCopy
  BY <1>6, <1>types, <1>once
     DEF OutputCopy, AcceptInv, Matched, TypeOK, TxBd, Slot, OwnInv, DeviceOwns,
         Quiet,
         Preparing, Sending, Current
<1>7. CASE OutputTooLong
  BY <1>7, <1>types, <1>once
     DEF OutputTooLong, AcceptInv, Matched, TypeOK, TxBd, Slot, OwnInv,
         DeviceOwns, Quiet,
         Preparing, Sending, Current
<1>8. CASE OutputLength
  BY <1>8, <1>types, <1>once
     DEF OutputLength, AcceptInv, Matched, TypeOK, TxBd, Slot, OwnInv,
         DeviceOwns, Quiet,
         Preparing, Sending, Current
<1>9. CASE OutputReady
  BY <1>9, <1>types, <1>once
     DEF OutputReady, AcceptInv, Matched, TypeOK, TxBd, Slot, OwnInv,
         DeviceOwns, Quiet,
         Preparing, Sending, Current
<1>10. CASE OutputHead
  BY <1>10, <1>types, <1>once
     DEF OutputHead, AcceptInv, Matched, TypeOK, TxBd, Slot, OwnInv, DeviceOwns,
         Quiet,
         Preparing, Sending, Current
<1>11. CASE WriteTdar
  BY <1>11, <1>types, <1>once
     DEF WriteTdar, AcceptInv, Matched, TypeOK, TxBd, Slot, OwnInv, DeviceOwns,
         Quiet,
         Preparing, Sending, Current
<1>12. CASE DoTxBd
  <2> DEFINE p == [data |-> buf[txCurr], len |-> bd[txCurr].len]
  <2>1. /\ bd[txCurr].len = Current /\ buf[txCurr] = Current /\ Current > 0
        /\ Len(wire) = Len(accepted)
    BY <1>12, <1>types, <1>once
       DEF DoTxBd, AcceptInv, Sending, FrameInv, Prepared, PcInv, Current
  <2>2. p \in Packet /\ p.data = Current
    BY <2>1, <1>types DEF TypeOK, Current, Content, Frame, Packet
  <2>3. wire' = Append(wire, p) /\ UNCHANGED <<accepted, calls, pc>>
    BY <1>12, <2>1, <1>types DEF DoTxBd, TypeOK, Current
  <2> HIDE DEF p
  <2>4. /\ Len(wire') = Len(wire) + 1
        /\ wire'[Len(wire) + 1] = p
        /\ \A i \in 1 .. Len(wire) : wire'[i] = wire[i]
    BY <2>2, <2>3, <1>seqs, AppendProperties
  <2>5. Matched'
    BY <2>1, <2>3, <2>4, <1>lens DEF Matched, AcceptInv
  <2>6. ~bd'[txCurr'].r
    <3>1. DeviceOwns({txCurr})
      BY <1>12, <1>types, <1>once DEF DoTxBd, TypeOK, OwnInv, DeviceOwns
    <3>2. txCurr' \in Slot
      <4>1. txCurr \in Slot /\ (bd[txCurr].w <=> txCurr = Last)
        BY <1>12, <1>types DEF DoTxBd, TypeOK, WrapInv
      <4>2. txCurr' = NextBdIndex(txCurr, bd[txCurr])
        BY <1>12 DEF DoTxBd
      <4>3. QED
        BY <4>1, <4>2, NextSlotStays
    <3>3. QED
      BY <3>1, <3>2, <1>12, <1>types DEF DoTxBd, TypeOK, DeviceOwns, TxBd
  <2>7. pc["task"] = "dma"
    BY <1>12 DEF DoTxBd
  <2>8. QED
    BY <2>1, <2>2, <2>3, <2>4, <2>5, <2>6, <2>7, <1>lens
       DEF AcceptInv, Sending, Current
<1>13. CASE TdarDone
  <2>1. ~bd[txCurr].r
    BY <1>13, <1>types, <1>once
       DEF TdarDone, TypeOK, PcInv, OwnInv, DeviceOwns
  <2>2. Current \in Frame
    BY <1>13, <1>types DEF TdarDone, TypeOK, PcInv, Current, Frame
  <2>3. /\ Len(accepted') = Len(accepted) + 1
        /\ accepted'[Len(accepted) + 1] = Current
        /\ \A i \in 1 .. Len(accepted) : accepted'[i] = accepted[i]
    BY <2>2, <1>13, <1>seqs, AppendProperties DEF TdarDone
  <2>4. Len(wire) = Len(accepted) + 1 /\ wire[Len(wire)].data = Current
    BY <2>1, <1>13 DEF TdarDone, AcceptInv
  <2>5. wire' = wire /\ pc'["task"] = "idle"
    BY <1>13, <1>types DEF TdarDone, TypeOK
  <2>6. Matched'
    BY <2>3, <2>4, <2>5, <1>lens DEF Matched, AcceptInv
  <2>7. QED
    BY <2>3, <2>4, <2>5, <2>6 DEF AcceptInv, Sending
<1>14. CASE Handler
  BY <1>14, <1>isr
     DEF Handler, IsrEnter, IsrClear, Reclaim, ReclaimRead, ReclaimStore,
         ReclaimAdvance, ReclaimFullCircle
<1>15. CASE Reclaim("task")
  <2>1. UNCHANGED <<wire, accepted, calls, txCurr, head>>
    BY <1>15 DEF Reclaim, ReclaimRead, ReclaimStore, ReclaimAdvance,
                 ReclaimFullCircle
  <2>2. pc["task"] \in {"read", "store", "advance"}
    BY <1>15 DEF Reclaim, ReclaimRead, ReclaimStore, ReclaimAdvance,
                 ReclaimFullCircle
  <2>3. pc'["task"] \in {"read", "store", "advance", "check"}
    BY <1>15, <1>types
       DEF Reclaim, ReclaimRead, ReclaimStore, ReclaimAdvance,
           ReclaimFullCircle, Reclaimed, TypeOK
  <2>4. QED
    BY <2>1, <2>2, <2>3 DEF AcceptInv, Matched, Sending, Current
<1>16. CASE UNCHANGED vars
  BY <1>16 DEF vars, AcceptInv, Matched, Sending, Current
<1>17. QED
  BY <1>1, <1>2, <1>3, <1>4, <1>5, <1>6, <1>7, <1>8, <1>9, <1>10, <1>11,
     <1>12, <1>13, <1>14, <1>15, <1>16 DEF Next, Output, Device

-----------------------------------------------------------------------------
(* Initialised any number of times, no handler.                            *)

LEMMA InitAgain == Init => AgainInv
<1> SUFFICES ASSUME Init PROVE AgainInv
  OBVIOUS
<1>1. 0 \in Slot /\ WaitingFrom(0)
  BY TxAssumption
     DEF Init, WaitingFrom, Behind, OwnsBelow, HeadBehind, Quiet, Preparing,
         Slot, Context
<1>2. QED
  BY <1>1 DEF Init, AgainInv, WaitInv, PendingInv, LaterInv, SentWholeOnce,
              Preparing, Context

\* A step that leaves the ring's three pointers and the owners alone, between
\* places where the same is said of them.
LEMMA WaitKept ==
  ASSUME NEW k \in Slot, WaitingFrom(k),
         UNCHANGED <<head, txCurr, iter>>,
         \A i \in Slot : bd'[i].r <=> bd[i].r,
         {pc["task"], pc'["task"]} \subseteq Quiet \/ pc'["task"] = pc["task"]
  PROVE  WaitInv'
<1>1. WaitingFrom(k)'
  BY DEF WaitingFrom, Behind, OwnsBelow, HeadBehind, Handed, Flushing, Quiet,
         Preparing
<1>2. QED
  BY <1>1 DEF WaitInv, Slot

LEMMA StepWait ==
  ASSUME ~NvicEnabled
  PROVE  IInv /\ WaitInv /\ [Next]_vars => WaitInv'
<1> SUFFICES ASSUME IInv, WaitInv, [Next]_vars PROVE WaitInv'
  OBVIOUS
<1> USE TxAssumption DEF Context, Goto, At, May, deviceVars, reclaimVars,
                         callVars
<1>types. TypeOK /\ PcInv /\ WrapInv /\ TailInv
  BY DEF IInv
<1>isr. pc["isr"] = "idle"
  BY <1>types DEF PcInv
<1>k. PICK k \in Slot : WaitingFrom(k)
  BY DEF WaitInv
<1>nat. /\ k \in 0 .. Last /\ head \in 0 .. Last /\ txCurr \in 0 .. Last
        /\ iter \in Nat /\ Last \in Nat /\ Last < TxRingSize
  BY <1>types DEF TypeOK, Slot, Last
<1>1. CASE InitBdRings
  <2>1. 0 \in Slot /\ WaitingFrom(0)'
    BY <1>1, <1>types
       DEF InitBdRings, TypeOK, WaitingFrom, Behind, OwnsBelow, HeadBehind,
           Quiet, Preparing, Slot
  <2>2. QED
    BY <2>1 DEF WaitInv
<1>2. CASE InitInterrupts
  BY <1>2, <1>k, <1>types, WaitKept DEF InitInterrupts, TypeOK, Quiet, Preparing
<1>3. CASE OutputLinkDown
  BY <1>3, <1>k, WaitKept DEF OutputLinkDown
<1>4. CASE OutputCall
  BY <1>4, <1>k, <1>types, WaitKept DEF OutputCall, TypeOK, Quiet, Preparing
<1>5. CASE OutputCheck \/ OutputCopy \/ OutputTooLong
  BY <1>5, <1>k, <1>types, WaitKept
     DEF OutputCheck, OutputCopy, OutputTooLong, TypeOK, Quiet, Preparing
<1>6. CASE OutputLength
  <2>1. \A i \in Slot : bd'[i].r <=> bd[i].r
    BY <1>6, <1>types DEF OutputLength, TypeOK, TxBd
  <2>2. QED
    BY <1>6, <1>k, <2>1, <1>types, WaitKept
       DEF OutputLength, TypeOK, Quiet, Preparing
<1>7. CASE OutputReady
  <2>1. \A i \in Slot : bd'[i].r <=> bd[i].r \/ i = head
    BY <1>7, <1>types DEF OutputReady, TypeOK, TxBd
  <2>2. Behind(k) /\ pc'["task"] = "head" /\ UNCHANGED <<head, txCurr, iter>>
    BY <1>7, <1>k, <1>types
       DEF OutputReady, TypeOK, WaitingFrom, Quiet, Preparing
  <2>3. WaitingFrom(k)'
    BY <2>1, <2>2
       DEF WaitingFrom, Behind, OwnsBelow, HeadBehind, Quiet, Preparing
  <2>4. QED
    BY <2>3 DEF WaitInv, Slot
<1>8. CASE OutputHead
  <2>1. OwnsBelow(k, {head}) /\ HeadBehind(k)
    BY <1>8, <1>k DEF OutputHead, WaitingFrom
  <2>2. /\ pc'["task"] = "tdar" /\ UNCHANGED <<bd, txCurr, iter>>
        /\ head' = NextSlot(head)
    <3>1. head \in Slot /\ (bd[head].w <=> head = Last)
      BY <1>8, <1>types DEF OutputHead, TypeOK, WrapInv
    <3>2. head' = After(head, bd[head])
      BY <1>8 DEF OutputHead
    <3>3. QED
      BY <3>1, <3>2, <1>8, <1>types, NextSlotStays DEF OutputHead, TypeOK
  <2>3. CASE head = txCurr
    <3>1. WaitingFrom(k)'
      BY <2>1, <2>2, <2>3
         DEF WaitingFrom, OwnsBelow, HeadBehind, Handed, Quiet, Preparing
    <3>2. QED
      BY <3>1 DEF WaitInv, Slot
  <2>4. CASE head # txCurr
    <3>1. head = k /\ head < txCurr /\ head' = k + 1 /\ k + 1 \in Slot
      BY <2>1, <2>2, <2>4, <1>nat DEF HeadBehind, NextSlot, Slot, Last
    <3>2. \A i \in Slot : i < k + 1 <=> i < k \/ i = k
      BY <1>nat DEF Slot
    <3>3. Behind(k + 1)'
      BY <2>1, <2>2, <3>1, <3>2, <1>nat DEF Behind, OwnsBelow, HeadBehind
    <3>4. WaitingFrom(k + 1)'
      BY <2>2, <3>3 DEF WaitingFrom, Quiet, Preparing
    <3>5. QED
      BY <3>1, <3>4 DEF WaitInv, Slot
  <2>5. QED
    BY <2>3, <2>4
<1>9. CASE WriteTdar
  <2>1. /\ Behind(k) \/ Handed(k)
        /\ pc'["task"] = "dma" /\ UNCHANGED <<bd, head, txCurr>>
        /\ iter' = TxRingSize + 1
    BY <1>9, <1>k, <1>types DEF WriteTdar, TypeOK, WaitingFrom
  <2>2. WaitingFrom(k)'
    BY <2>1
       DEF WaitingFrom, Behind, Handed, OwnsBelow, HeadBehind, Quiet, Preparing
  <2>3. QED
    BY <2>2 DEF WaitInv, Slot
<1>10. CASE DoTxBd
  <2>1. /\ pc["task"] = "dma" /\ pc'["task"] = "dma" /\ head' = head
        /\ bd[txCurr].r /\ iter > 0 /\ iter' = iter - 1
    BY <1>10, <1>types DEF DoTxBd
  <2>2. txCurr' = NextSlot(txCurr)
    <3>1. txCurr \in Slot /\ (bd[txCurr].w <=> txCurr = Last)
      BY <1>10, <1>types DEF DoTxBd, TypeOK, WrapInv
    <3>2. txCurr' = NextBdIndex(txCurr, bd[txCurr])
      BY <1>10 DEF DoTxBd
    <3>3. QED
      BY <3>1, <3>2, NextSlotStays
  <2>3. \A i \in Slot : bd'[i].r <=> bd[i].r /\ i # txCurr
    BY <1>10, <1>types DEF DoTxBd, TypeOK, TxBd
  <2>4. ~Behind(k)
    BY <2>1, <1>nat, <1>types DEF Behind, OwnsBelow, HeadBehind, TypeOK
  <2>5. CASE Handed(k) /\ iter > TxRingSize
    <3>1. \A i \in Slot : bd'[i].r <=> i < k
      BY <2>3, <2>5, <1>nat DEF Handed, OwnsBelow, Slot
    <3>2. CASE txCurr = Last
      <4>1. head' = 0 /\ txCurr' = 0 /\ k <= iter'
        BY <2>1, <2>2, <2>5, <3>2, <1>nat DEF Handed, NextSlot
      <4>2. \A i \in Slot : 0 <= i
        BY DEF Slot
      <4>3. k <= txCurr' + iter'
        BY <2>1, <4>1, <1>nat
      <4>4. Flushing(k)'
        BY <3>1, <4>1, <4>2, <4>3 DEF Flushing
      <4>5. WaitingFrom(k)'
        BY <2>1, <4>4 DEF WaitingFrom, Quiet, Preparing
      <4>6. QED
        BY <4>5 DEF WaitInv, Slot
    <3>3. CASE txCurr # Last
      <4>1. head' = txCurr' /\ k <= txCurr'
        BY <2>1, <2>2, <2>5, <3>3, <1>nat DEF Handed, NextSlot
      <4>2. Behind(k)'
        <5>1. txCurr' \in Nat
          BY <2>2, <1>nat DEF NextSlot
        <5>2. QED
          BY <3>1, <4>1, <5>1 DEF Behind, OwnsBelow, HeadBehind
      <4>3. WaitingFrom(k)'
        BY <2>1, <4>2 DEF WaitingFrom, Quiet, Preparing
      <4>4. QED
        BY <4>3 DEF WaitInv, Slot
    <3>4. QED
      BY <3>2, <3>3
  <2>6. CASE Flushing(k)
    <3>1. txCurr < k /\ txCurr' = txCurr + 1
      BY <2>1, <2>2, <2>6, <1>types, <1>nat DEF Flushing, NextSlot, TypeOK
    <3>2. \A i \in Slot : bd'[i].r <=> txCurr' <= i /\ i < k
      BY <2>3, <2>6, <3>1, <1>nat DEF Flushing, Slot
    <3>3. k <= txCurr' + iter'
      BY <2>1, <2>6, <3>1, <1>nat DEF Flushing
    <3>4. Flushing(k)'
      BY <2>1, <2>6, <3>2, <3>3 DEF Flushing
    <3>5. WaitingFrom(k)'
      BY <2>1, <3>4 DEF WaitingFrom, Quiet, Preparing
    <3>6. QED
      BY <3>5 DEF WaitInv, Slot
  <2>7. QED
    BY <2>1, <2>4, <2>5, <2>6, <1>k DEF WaitingFrom
<1>11. CASE TdarDone
  <2>1. /\ pc["task"] = "dma" /\ pc'["task"] = "idle"
        /\ UNCHANGED <<bd, head, txCurr>>
        /\ iter = 0 \/ ~bd[txCurr].r
    BY <1>11, <1>types DEF TdarDone, TypeOK, PcInv
  <2>2. CASE Behind(k)
    <3>1. WaitingFrom(k)'
      BY <2>1, <2>2 DEF WaitingFrom, Behind, OwnsBelow, HeadBehind
    <3>2. QED
      BY <3>1 DEF WaitInv, Slot
  <2>3. ~(Handed(k) /\ iter > TxRingSize)
    BY <2>1, <1>nat, <1>types DEF Handed, OwnsBelow, TypeOK
  <2>4. CASE Flushing(k)
    <3>1. k <= txCurr
      BY <2>1, <2>4, <1>nat, <1>types DEF Flushing, TypeOK
    <3>2. 0 \in Slot /\ Behind(0)'
      BY <2>1, <2>4, <3>1, <1>nat
         DEF Flushing, Behind, OwnsBelow, HeadBehind, Slot
    <3>3. WaitingFrom(0)'
      BY <2>1, <3>2 DEF WaitingFrom
    <3>4. QED
      BY <3>2, <3>3 DEF WaitInv
  <2>5. QED
    BY <2>1, <2>2, <2>3, <2>4, <1>k DEF WaitingFrom
<1>12. CASE Handler
  BY <1>12, <1>isr, <1>types
     DEF Handler, IsrEnter, IsrClear, Reclaim, ReclaimRead, ReclaimStore,
         ReclaimAdvance, ReclaimFullCircle
<1>13. CASE Reclaim("task")
  <2>1. UNCHANGED <<head, txCurr, iter>>
    BY <1>13 DEF Reclaim, ReclaimRead, ReclaimStore, ReclaimAdvance,
                 ReclaimFullCircle
  <2>2. {pc["task"], pc'["task"]} \subseteq Quiet
    BY <1>13, <1>types
       DEF Reclaim, ReclaimRead, ReclaimStore, ReclaimAdvance,
           ReclaimFullCircle, Reclaimed, TypeOK, Quiet, Preparing
  <2>3. \A i \in Slot : bd'[i].r <=> bd[i].r
    <3>1. CASE ReclaimStore("task")
      BY <3>1, <1>types DEF ReclaimStore, TypeOK, TailInv, TxBd
    <3>2. CASE bd' = bd
      BY <3>2
    <3>3. QED
      BY <1>13, <3>1, <3>2
         DEF Reclaim, ReclaimRead, ReclaimAdvance, ReclaimFullCircle
  <2>4. QED
    BY <1>k, <2>1, <2>2, <2>3, WaitKept
<1>14. CASE UNCHANGED vars
  BY <1>14, <1>k, WaitKept DEF vars
<1>15. QED
  BY <1>1, <1>2, <1>3, <1>4, <1>5, <1>6, <1>7, <1>8, <1>9, <1>10, <1>11,
     <1>12, <1>13, <1>14 DEF Next, Output, Device

\* What AgainInv says of frames, after a step that changes neither a
\* descriptor the device owns nor the wire nor the call in progress.
LEMMA PendingKept ==
  ASSUME PendingInv, wire' = wire, calls' = calls,
         \A i \in Slot : bd'[i].r =>
           bd[i].r /\ bd'[i].len = bd[i].len /\ buf'[i] = buf[i]
  PROVE  PendingInv'
BY DEF PendingInv, Current

LEMMA StepFrames ==
  ASSUME ~NvicEnabled
  PROVE  IInv /\ AgainInv /\ [Next]_vars
           => PendingInv' /\ LaterInv' /\ SentWholeOnce'
<1> SUFFICES ASSUME IInv, AgainInv, [Next]_vars
             PROVE  PendingInv' /\ LaterInv' /\ SentWholeOnce'
  OBVIOUS
<1> USE TxAssumption DEF Context, Goto, At, May, deviceVars, reclaimVars,
                         callVars
<1>types. TypeOK /\ PcInv /\ TailInv
  BY DEF IInv
<1>isr. pc["isr"] = "idle"
  BY <1>types DEF PcInv
<1>inv. WaitInv /\ PendingInv /\ LaterInv /\ SentWholeOnce
  BY DEF AgainInv
<1>nat. /\ calls \in Nat
        /\ Len(wire) \in Nat
        /\ \A n \in 1 .. Len(wire) : wire[n].data \in Nat
        /\ \A i \in Slot : bd[i].len \in Nat
  <2>1. \A i \in Slot : bd[i] \in TxBd
    BY <1>types DEF TypeOK
  <2>2. \A i \in Slot : bd[i].len \in Nat
    BY <2>1 DEF TxBd, Content
  <2>3. QED
    BY <2>2, <1>types, WireEntries DEF TypeOK
\* Of the two things written at head, the device owns neither.
<1>head. pc["task"] \in {"copy", "length", "ready"}
           => pc["task"] \in Preparing /\ ~bd[head].r
  BY <1>types, <1>inv
     DEF TypeOK, WaitInv, WaitingFrom, Behind, OwnsBelow, HeadBehind, Quiet,
         Preparing, Slot
<1>1. CASE InitBdRings
  <2>1. \A i \in Slot : ~bd'[i].r
    BY <1>1 DEF InitBdRings
  <2>2. wire' = wire /\ calls' = calls /\ pc'["task"] = "initIrq"
    BY <1>1, <1>types DEF InitBdRings, TypeOK
  <2>3. QED
    BY <2>1, <2>2, <1>inv
       DEF PendingInv, LaterInv, SentWholeOnce, Preparing, Current
<1>2. CASE OutputLinkDown \/ OutputCall
  <2>1. UNCHANGED <<bd, buf, wire, head>> /\ calls' = calls + 1
    BY <1>2 DEF OutputLinkDown, OutputCall
  <2>2. pc'["task"] \in {"off", "idle", "read"}
    BY <1>2, <1>types DEF OutputLinkDown, OutputCall, TypeOK
  <2>3. \A i \in Slot : bd[i].r => bd[i].len < calls + 1
    BY <1>inv, <1>nat DEF PendingInv, Current
  <2>4. \A n \in 1 .. Len(wire) : wire[n].data < calls + 1
    BY <1>inv, <1>nat DEF LaterInv, Current
  <2>5. PendingInv'
    BY <2>1, <2>3, <1>inv, <1>nat DEF PendingInv, Current
  <2>6. LaterInv' /\ SentWholeOnce'
    BY <2>1, <2>2, <2>3, <2>4, <1>inv, <1>nat
       DEF LaterInv, SentWholeOnce, Current
  <2>7. QED
    BY <2>5, <2>6
<1>3. CASE InitInterrupts \/ OutputCheck
  <2>1. UNCHANGED <<bd, buf, wire, head, calls>>
    BY <1>3 DEF InitInterrupts, OutputCheck
  <2>2. /\ pc'["task"] \in {"idle", "copy"}
        /\ pc'["task"] \in Preparing => pc["task"] \in Preparing
    BY <1>3, <1>types DEF InitInterrupts, OutputCheck, TypeOK, Preparing
  <2>3. QED
    BY <2>1, <2>2, <1>inv DEF PendingInv, LaterInv, SentWholeOnce, Current
<1>4. CASE OutputCopy \/ OutputTooLong
  <2>1. /\ UNCHANGED <<bd, wire, head, calls>> /\ head \in Slot
        /\ \A i \in Slot \ {head} : buf'[i] = buf[i]
    BY <1>4, <1>types DEF OutputCopy, OutputTooLong, TypeOK
  <2>2. /\ pc["task"] = "copy" /\ pc'["task"] \in {"idle", "length"}
        /\ pc'["task"] = "length" => buf'[head] = Current
    BY <1>4, <1>types DEF OutputCopy, OutputTooLong, TypeOK
  <2>3. PendingInv'
    BY <2>1, <2>2, <1>head, <1>inv, PendingKept
  <2>4. LaterInv' /\ SentWholeOnce'
    BY <2>1, <2>2, <1>inv DEF LaterInv, SentWholeOnce, Preparing, Current
  <2>5. QED
    BY <2>3, <2>4
<1>5. CASE OutputLength
  <2>1. /\ UNCHANGED <<buf, wire, head, calls>> /\ head \in Slot
        /\ \A i \in Slot : bd'[i].r <=> bd[i].r
        /\ \A i \in Slot \ {head} : bd'[i].len = bd[i].len
        /\ bd'[head].len = Current
    BY <1>5, <1>types DEF OutputLength, TypeOK, TxBd
  <2>2. pc["task"] = "length" /\ pc'["task"] = "ready"
    BY <1>5, <1>types DEF OutputLength, TypeOK
  <2>3. PendingInv'
    BY <2>1, <2>2, <1>head, <1>inv, PendingKept
  <2>4. LaterInv' /\ SentWholeOnce'
    BY <2>1, <2>2, <1>head, <1>inv
       DEF LaterInv, SentWholeOnce, Preparing, Current
  <2>5. QED
    BY <2>3, <2>4
<1>6. CASE OutputReady
  <2>1. /\ UNCHANGED <<buf, wire, head, calls>> /\ head \in Slot
        /\ \A i \in Slot : bd'[i].r <=> bd[i].r \/ i = head
        /\ \A i \in Slot : bd'[i].len = bd[i].len
    BY <1>6, <1>types DEF OutputReady, TypeOK, TxBd
  <2>2. pc["task"] = "ready" /\ pc'["task"] = "head"
    BY <1>6, <1>types DEF OutputReady, TypeOK
  <2>3. /\ buf[head] = calls /\ bd[head].len = calls /\ calls > 0
        /\ \A i \in Slot : bd[i].r => bd[i].len < calls
        /\ \A n \in 1 .. Len(wire) : wire[n].data < calls
    BY <2>2, <1>inv, <1>types DEF LaterInv, PcInv, Preparing, Current
  <2>4. \A i \in Slot : bd[i].r => bd[i].len # calls
    BY <2>3, <1>nat
  <2>5. \A n \in 1 .. Len(wire) : wire[n].data # calls
    BY <2>3, <1>nat
  <2>6. \A i \in Slot : bd'[i].r =>
          buf'[i] = bd'[i].len /\ 0 < bd'[i].len /\ bd'[i].len <= Current'
    BY <2>1, <2>3, <1>inv, <1>nat DEF PendingInv, Current
  <2>7. \A i, j \in Slot :
          bd'[i].r /\ bd'[j].r /\ i # j => bd'[i].len # bd'[j].len
    BY <2>1, <2>3, <2>4, <1>inv DEF PendingInv
  <2>8. \A i \in Slot : \A n \in 1 .. Len(wire') :
          bd'[i].r => wire'[n].data # bd'[i].len
    BY <2>1, <2>3, <2>5, <1>inv DEF PendingInv
  <2>9. LaterInv' /\ SentWholeOnce'
    BY <2>1, <2>2, <1>inv DEF LaterInv, SentWholeOnce, Preparing, Current
  <2>10. QED
    BY <2>6, <2>7, <2>8, <2>9 DEF PendingInv
<1>7. CASE OutputHead \/ WriteTdar \/ TdarDone
  <2>1. UNCHANGED <<bd, buf, wire, calls>>
    BY <1>7 DEF OutputHead, WriteTdar, TdarDone
  <2>2. pc'["task"] \in {"tdar", "dma", "idle"}
    BY <1>7, <1>types DEF OutputHead, WriteTdar, TdarDone, TypeOK
  <2>3. QED
    BY <2>1, <2>2, <1>inv
       DEF PendingInv, LaterInv, SentWholeOnce, Preparing, Current
<1>8. CASE DoTxBd
  <2> DEFINE p == [data |-> buf[txCurr], len |-> bd[txCurr].len]
             n == Len(wire) + 1
  <2>1. /\ txCurr \in Slot /\ bd[txCurr].r
        /\ pc'["task"] = "dma" /\ UNCHANGED <<buf, calls>>
        /\ \A i \in Slot : bd'[i].r <=> bd[i].r /\ i # txCurr
        /\ \A i \in Slot : bd'[i].len = bd[i].len
    BY <1>8, <1>types DEF DoTxBd, TypeOK, TxBd
  <2>2. buf[txCurr] = bd[txCurr].len /\ bd[txCurr].len \in 1 .. calls
    BY <2>1, <1>inv, <1>nat DEF PendingInv, Current
  <2>3. p \in Packet /\ p.data = bd[txCurr].len /\ p.len = bd[txCurr].len
    BY <2>2, <1>types DEF TypeOK, Content, Frame, Packet
  <2> HIDE DEF p
  <2>4. wire' = Append(wire, p) /\ wire \in Seq(Packet)
    <3>1. bd[txCurr].len # 0
      BY <2>2
    <3>2. QED
      BY <1>8, <3>1, <1>types DEF DoTxBd, TypeOK, p
  <2>5. /\ Len(wire') = n /\ wire'[n] = p
        /\ \A i \in 1 .. Len(wire) : wire'[i] = wire[i]
        /\ \A i \in 1 .. Len(wire') : i \in 1 .. Len(wire) \/ i = n
    BY <2>3, <2>4, <1>nat, AppendProperties
  <2> HIDE DEF n
  <2>6. \A i \in 1 .. Len(wire) : wire[i].data # bd[txCurr].len
    BY <2>1, <1>inv DEF PendingInv
  <2>7. SentWholeOnce'
    BY <2>3, <2>5, <2>6, <1>inv DEF SentWholeOnce
  <2>8. \A i \in Slot : bd'[i].r => bd'[i].len # p.data
    BY <2>1, <2>3, <1>inv DEF PendingInv
  <2>9. PendingInv'
    <3>1. \A i \in Slot : \A m \in 1 .. Len(wire') :
            bd'[i].r => wire'[m].data # bd'[i].len
      BY <2>1, <2>5, <2>8, <1>inv DEF PendingInv
    <3>2. QED
      BY <2>1, <3>1, <1>inv DEF PendingInv, Current
  <2>10. LaterInv'
    <3>1. \A m \in 1 .. Len(wire') : wire'[m].data <= Current'
      BY <2>1, <2>2, <2>3, <2>5, <1>inv, <1>nat DEF LaterInv, Current
    <3>2. QED
      BY <2>1, <3>1 DEF LaterInv, Preparing
  <2>11. QED
    BY <2>7, <2>9, <2>10
<1>9. CASE Handler
  BY <1>9, <1>isr, <1>types
     DEF Handler, IsrEnter, IsrClear, Reclaim, ReclaimRead, ReclaimStore,
         ReclaimAdvance, ReclaimFullCircle
<1>10. CASE Reclaim("task")
  <2>1. UNCHANGED <<buf, wire, calls>>
    BY <1>10 DEF Reclaim, ReclaimRead, ReclaimStore, ReclaimAdvance,
                 ReclaimFullCircle
  <2>2. /\ pc["task"] \in {"read", "store", "advance"}
        /\ pc'["task"] \in {"read", "store", "advance", "check"}
    BY <1>10, <1>types
       DEF Reclaim, ReclaimRead, ReclaimStore, ReclaimAdvance,
           ReclaimFullCircle, Reclaimed, TypeOK
  <2>3. \A i \in Slot : bd'[i].r => bd[i].r /\ bd'[i].len = bd[i].len
    <3>1. CASE ReclaimStore("task")
      BY <3>1, <1>types DEF ReclaimStore, TypeOK, TailInv, TxBd
    <3>2. CASE bd' = bd
      BY <3>2
    <3>3. QED
      BY <1>10, <3>1, <3>2
         DEF Reclaim, ReclaimRead, ReclaimAdvance, ReclaimFullCircle
  <2>4. PendingInv'
    BY <2>1, <2>3, <1>inv, PendingKept
  <2>5. LaterInv' /\ SentWholeOnce'
    BY <2>1, <2>2, <2>3, <1>inv
       DEF LaterInv, SentWholeOnce, Preparing, Current
  <2>6. QED
    BY <2>4, <2>5
<1>11. CASE UNCHANGED vars
  BY <1>11, <1>inv
     DEF vars, PendingInv, LaterInv, SentWholeOnce, Current
<1>12. QED
  BY <1>1, <1>2, <1>3, <1>4, <1>5, <1>6, <1>7, <1>8, <1>9, <1>10, <1>11
     DEF Next, Output, Device

LEMMA StepAgain ==
  ASSUME ~NvicEnabled
  PROVE  IInv /\ AgainInv /\ [Next]_vars => AgainInv'
BY StepWait, StepFrames DEF AgainInv

-----------------------------------------------------------------------------
(* The theorems.                                                           *)

LEMMA Invariant == Spec => []IInv
BY InitIInv, StepIInv, PTL DEF Spec

LEMMA InvariantAgain ==
  ASSUME ~NvicEnabled
  PROVE  Spec => []AgainInv
BY Invariant, InitAgain, StepAgain, PTL DEF Spec

\* Every index the driver and the device follow stays on the ring, for any
\* ring length, with or without the handler, over any number of
\* initialisations (without it): the array accesses of TX_BD(n) are in range.
THEOREM TypeCorrect == Spec => []TypeOK
<1>1. IInv => TypeOK
  BY DEF IInv
<1>2. QED
  BY <1>1, Invariant, PTL

\* Frames leave whole, in call order, none twice, even with the handler
\* running reclaim_tx_bds in the middle of output.
THEOREM InOrderOnce ==
  ASSUME MaxInits <= 1
  PROVE  Spec => []SentInOrderOnce
<1>1. IInv => SentInOrderOnce
  BY TxAssumption DEF IInv, TypeOK, WireInv
<1>2. QED
  BY <1>1, Invariant, PTL

\* The two copies of the ring position, head and tx_curr, agree between calls.
THEOREM PositionsAgree ==
  ASSUME MaxInits <= 1
  PROVE  Spec => []HeadMeetsDevice
<1>1. IInv => HeadMeetsDevice
  BY TxAssumption
     DEF IInv, TypeOK, OwnInv, Quiet, DeviceOwns, HeadMeetsDevice
<1>2. QED
  BY <1>1, Invariant, PTL

\* However often it is initialised, the driver never finds its ring full: the
\* ERR_BUF of output is dead code, whatever the ring length.
THEOREM NeverFull == Spec => []RingNeverFull
<1>1. CASE NvicEnabled
  <2>1. IInv => RingNeverFull
    BY <1>1, TxAssumption
       DEF IInv, TypeOK, PcInv, OwnInv, Quiet, Preparing, DeviceOwns,
           RingNeverFull, At
  <2>2. QED
    BY <2>1, Invariant, PTL
<1>2. CASE ~NvicEnabled
  <2>1. IInv /\ AgainInv => RingNeverFull
    BY DEF IInv, TypeOK, AgainInv, WaitInv, WaitingFrom, Behind, OwnsBelow,
           HeadBehind, Quiet, Preparing, Slot, RingNeverFull, At
  <2>2. QED
    BY <1>2, <2>1, Invariant, InvariantAgain, PTL
<1>3. QED
  BY <1>1, <1>2

\* However often the driver is initialised, and although the device then goes
\* on from where it was, no frame leaves with another one's bytes or length,
\* and none leaves twice.
THEOREM WholeOnce == Spec => []SentWholeOnce
<1>1. CASE NvicEnabled
  <2>1. IInv => SentWholeOnce
    <3> SUFFICES ASSUME IInv PROVE SentWholeOnce
      OBVIOUS
    <3>1. SentInOrderOnce
      BY <1>1, TxAssumption DEF IInv, TypeOK, PcInv, WireInv
    <3>2. \A i \in 1 .. Len(wire) : wire[i].data \in Nat
      BY WireEntries DEF IInv
    <3>3. \A i, j \in 1 .. Len(wire) : i # j => i < j \/ j < i
      BY WireEntries DEF IInv
    <3>4. QED
      BY <3>1, <3>2, <3>3 DEF SentInOrderOnce, SentWholeOnce
  <2>2. QED
    BY <2>1, Invariant, PTL
<1>2. CASE ~NvicEnabled
  <2>1. AgainInv => SentWholeOnce
    BY DEF AgainInv
  <2>2. QED
    BY <1>2, <2>1, InvariantAgain, PTL
<1>3. QED
  BY <1>1, <1>2

\* However often the driver is initialised, its head never overtakes the
\* device: what it has put into the ring lies where the device will pass.
THEOREM NeverAhead == Spec => []HeadNotAhead
<1>1. CASE NvicEnabled
  <2>1. IInv => HeadNotAhead
    BY <1>1, TxAssumption
       DEF IInv, TypeOK, PcInv, OwnInv, Quiet, DeviceOwns, Slot, HeadNotAhead
  <2>2. QED
    BY <2>1, Invariant, PTL
<1>2. CASE ~NvicEnabled
  <2>1. IInv /\ AgainInv => HeadNotAhead
    BY DEF IInv, TypeOK, AgainInv, WaitInv, WaitingFrom, Behind, OwnsBelow,
           HeadBehind, Quiet, Slot, HeadNotAhead
  <2>2. QED
    BY <1>2, <2>1, Invariant, InvariantAgain, PTL
<1>3. QED
  BY <1>1, <1>2

\* The driver never writes a descriptor or a buffer the device owns.
THEOREM OwnershipRespected ==
  ASSUME MaxInits <= 1
  PROVE  Spec => DriverKeepsOff
<1> DEFINE Keep == \A i \in Slot : bd[i].r /\ pc["task"] # "dma" =>
                                     bd'[i] = bd[i] /\ buf'[i] = buf[i]
<1>1. IInv /\ [Next]_vars => [Keep]_vars
  <2> SUFFICES ASSUME IInv, Next PROVE Keep
    OBVIOUS
  <2> USE TxAssumption DEF Context, At, deviceVars, reclaimVars, callVars
  <2>1. TypeOK /\ TailInv /\ OwnInv /\ inits <= 1
    BY DEF IInv, TypeOK
  <2>2. CASE InitBdRings
    BY <2>1, <2>2 DEF InitBdRings, OwnInv, Quiet, DeviceOwns
  <2>3. CASE OutputCopy \/ OutputTooLong
    BY <2>1, <2>3
       DEF OutputCopy, OutputTooLong, OwnInv, Quiet, Preparing, DeviceOwns
  <2>4. CASE OutputLength \/ OutputReady
    BY <2>1, <2>4
       DEF OutputLength, OutputReady, OwnInv, Quiet, Preparing, DeviceOwns
  <2>5. ASSUME NEW c \in Context, ReclaimStore(c)
        PROVE  Keep
    BY <2>1, <2>5 DEF ReclaimStore, TailInv, TypeOK
  <2>6. CASE DoTxBd
    BY <2>6 DEF DoTxBd
  <2>7. CASE UNCHANGED <<bd, buf>>
    BY <2>7
  <2>8. CASE \/ InitInterrupts \/ OutputLinkDown \/ OutputCall \/ OutputCheck
             \/ OutputHead \/ WriteTdar \/ TdarDone \/ IsrEnter \/ IsrClear
    BY <2>7, <2>8
       DEF InitInterrupts, OutputLinkDown, OutputCall, OutputCheck, OutputHead,
           WriteTdar, TdarDone, IsrEnter, IsrClear
  <2>9. ASSUME NEW c \in Context,
               ReclaimRead(c) \/ ReclaimAdvance(c) \/ ReclaimFullCircle(c)
        PROVE  Keep
    BY <2>7, <2>9 DEF ReclaimRead, ReclaimAdvance, ReclaimFullCircle
  <2>10. QED
    BY <2>2, <2>3, <2>4, <2>5, <2>6, <2>8, <2>9
       DEF Next, Output, Reclaim, Device, Handler
<1>2. QED
  BY <1>1, Invariant, PTL DEF DriverKeepsOff, Spec

\* How many steps a scan by context c may still take, how many the handler,
\* counting a run the line asks for, and how many the task and the device may
\* until the call in progress returns.
ScanLeft(c) ==
  3 * (TxBdCount - count[c])
    + CASE pc[c] = "read" -> 2 [] pc[c] = "store" -> 1 [] OTHER -> 0

HandlerLeft ==
  CASE pc["isr"] = "idle"  -> IF NvicEnabled /\ Irq THEN 3 * TxBdCount + 4 ELSE 0
    [] pc["isr"] = "clear" -> 1
    [] OTHER               -> ScanLeft("isr") + 1

TaskLeft ==
  CASE pc["task"] \in {"off", "idle"} -> 0
    [] pc["task"] = "initIrq"         -> 1
    [] pc["task"] = "dma"             -> iter + 1
    [] pc["task"] = "tdar"            -> TxRingSize + 3
    [] pc["task"] = "head"            -> TxRingSize + 4
    [] pc["task"] = "ready"           -> TxRingSize + 5
    [] pc["task"] = "length"          -> TxRingSize + 6
    [] pc["task"] = "copy"            -> TxRingSize + 7
    [] pc["task"] = "check"           -> TxRingSize + 8
    [] OTHER                          -> TxRingSize + 8 + ScanLeft("task")

\* Every step while a call of output or of init is in progress, be it the
\* task's, the device's or the handler's, brings its end nearer: reclaim's loop
\* and the device's are bounded, and the handler comes back only for a frame
\* that was sent in between, so that it cannot keep the task from going on.
CallProgresses ==
  [][pc["task"] \notin {"off", "idle"} =>
       \/ TaskLeft' < TaskLeft
       \/ TaskLeft' = TaskLeft /\ HandlerLeft' < HandlerLeft]_vars

\* A scan that goes on has at least one step left, and at most three for each
\* descriptor.
LEMMA ScanBounded ==
  ASSUME TypeOK, TailInv, NEW c \in Context,
         pc[c] \in {"read", "store", "advance"}
  PROVE  ScanLeft(c) \in 1 .. 3 * TxBdCount + 2
<1>1. count[c] \in 0 .. TxBdCount /\ TxBdCount \in Nat
  BY TxAssumption DEF TypeOK
<1>2. pc[c] # "read" => count[c] < TxBdCount
  BY DEF TailInv, Scanning
<1>3. CASE pc[c] = "read"
  BY <1>1, <1>3 DEF ScanLeft
<1>4. CASE pc[c] = "store"
  BY <1>1, <1>2, <1>4 DEF ScanLeft
<1>5. CASE pc[c] = "advance"
  BY <1>1, <1>2, <1>5 DEF ScanLeft
<1> QED BY <1>3, <1>4, <1>5

\* A step of a scan is one step less, or its last.
LEMMA ScanProgresses ==
  ASSUME TypeOK, TailInv, NEW c \in Context, Reclaim(c)
  PROVE  /\ pc[c] \in {"read", "store", "advance"}
         /\ pc' = [pc EXCEPT ![c] = pc'[c]]
         /\ \/ pc'[c] = Reclaimed(c)
            \/ pc'[c] \in {"read", "store", "advance"} /\ ScanLeft(c)' < ScanLeft(c)
<1>1. count \in [Context -> 0 .. TxBdCount] /\ TxBdCount \in Nat
      /\ pc \in [Context -> {"off", "initIrq", "idle", "read", "store", "advance",
                             "check", "copy", "length", "ready", "head", "tdar",
                             "dma", "clear"}]
  BY TxAssumption DEF TypeOK
<1>2. CASE ReclaimRead(c)
  <2>1. /\ pc[c] = "read" /\ count' = count
        /\ \/ pc' = [pc EXCEPT ![c] = Reclaimed(c)]
           \/ pc' = [pc EXCEPT ![c] = "store"]
    BY <1>2 DEF ReclaimRead, At, Goto
  <2>2. CASE pc' = [pc EXCEPT ![c] = Reclaimed(c)]
    BY <1>1, <2>1, <2>2
  <2>3. CASE pc' = [pc EXCEPT ![c] = "store"]
    <3>1. pc'[c] = "store"
      BY <1>1, <2>3
    <3>2. ScanLeft(c)' < ScanLeft(c)
      BY <1>1, <2>1, <3>1 DEF ScanLeft
    <3> QED BY <2>1, <2>3, <3>1, <3>2
  <2> QED BY <2>1, <2>2, <2>3
<1>3. CASE ReclaimStore(c)
  BY <1>1, <1>3 DEF ReclaimStore, At, Goto, ScanLeft, reclaimVars
<1>4. CASE ReclaimAdvance(c)
  <2>1. count[c] < TxBdCount
    BY <1>4 DEF ReclaimAdvance, At, TailInv, Scanning
  <2>2. count'[c] = count[c] + 1 /\ pc[c] = "advance" /\ pc' = [pc EXCEPT ![c] = "read"]
    BY <1>1, <1>4 DEF ReclaimAdvance, At, Goto
  <2> QED BY <1>1, <2>1, <2>2 DEF ScanLeft
<1>5. CASE ReclaimFullCircle(c)
  BY <1>1, <1>5 DEF ReclaimFullCircle, At, Goto
<1> QED BY <1>2, <1>3, <1>4, <1>5 DEF Reclaim

LEMMA LeftBounded ==
  ASSUME TypeOK, PcInv, TailInv
  PROVE  TaskLeft \in Nat /\ HandlerLeft \in Nat
<1>1. TxBdCount \in Nat /\ TxRingSize \in Nat /\ iter \in Nat
  BY TxAssumption DEF TypeOK
<1>2. HandlerLeft \in Nat
  <2>1. CASE pc["isr"] \in {"read", "store", "advance"}
    BY <1>1, <2>1, ScanBounded DEF HandlerLeft, Context
  <2>2. CASE pc["isr"] \in {"idle", "clear"}
    BY <1>1, <2>2 DEF HandlerLeft
  <2> QED BY <2>1, <2>2 DEF PcInv, InHandler
<1>3. TaskLeft \in Nat
  <2>1. CASE pc["task"] \in {"read", "store", "advance"}
    BY <1>1, <2>1, ScanBounded DEF TaskLeft, Context
  <2>2. CASE pc["task"] \notin {"read", "store", "advance"}
    <3>1. pc["task"] \in {"off", "initIrq", "idle", "check", "copy", "length",
                          "ready", "head", "tdar", "dma"}
      BY <2>2 DEF TypeOK, PcInv, Context
    <3> QED BY <1>1, <3>1 DEF TaskLeft
  <2> QED BY <2>1, <2>2
<1> QED BY <1>2, <1>3

\* For every ring, with or without the handler and however often the driver is
\* initialised, a call of output that has begun returns after finitely many
\* steps, by whomever they are taken: what is left of it is bounded, and each
\* step leaves less.
THEOREM EachStepCounts ==
  Spec => CallProgresses /\ [](TaskLeft \in Nat /\ HandlerLeft \in Nat)
<1> DEFINE Less == \/ TaskLeft' < TaskLeft
                   \/ TaskLeft' = TaskLeft /\ HandlerLeft' < HandlerLeft
<1>1. IInv /\ [Next]_vars =>
        [pc["task"] \notin {"off", "idle"} => Less]_vars
  <2> SUFFICES ASSUME IInv, Next, pc["task"] \notin {"off", "idle"}
               PROVE  Less
    OBVIOUS
  <2> USE DEF Context
  <2>1. TypeOK /\ PcInv /\ TailInv
    BY DEF IInv
  <2>2. /\ TxBdCount \in Nat /\ TxRingSize \in Nat /\ iter \in Nat
        /\ pc \in [Context -> {"off", "initIrq", "idle", "read", "store",
                               "advance", "check", "copy", "length", "ready",
                               "head", "tdar", "dma", "clear"}]
    BY <2>1, TxAssumption DEF TypeOK
  <2>3. CASE InitInterrupts
    BY <2>2, <2>3 DEF InitInterrupts, At, Goto, TaskLeft
  <2>4. CASE Output
    BY <2>2, <2>4
    DEF Output, OutputCheck, OutputCopy, OutputTooLong, OutputLength,
        OutputReady, OutputHead, WriteTdar, At, Goto, TaskLeft
  <2>5. CASE Reclaim("task")
    <3>1. ScanLeft("task") \in 1 .. 3 * TxBdCount + 2
          /\ pc["task"] \in {"read", "store", "advance"}
      BY <2>1, <2>5, ScanProgresses, ScanBounded
    <3>2. TaskLeft = TxRingSize + 8 + ScanLeft("task")
      BY <3>1 DEF TaskLeft
    <3>3. CASE pc'["task"] = Reclaimed("task")
      BY <2>2, <3>1, <3>2, <3>3 DEF TaskLeft, Reclaimed
    <3>4. CASE /\ pc'["task"] \in {"read", "store", "advance"}
               /\ ScanLeft("task")' < ScanLeft("task")
      <4>1. TaskLeft' = TxRingSize + 8 + ScanLeft("task")'
        BY <3>4 DEF TaskLeft
      <4>2. ScanLeft("task")' \in Int
        <5>1. TypeOK'
          BY StepIInv DEF IInv
        <5>2. count'["task"] \in Int
          BY <5>1 DEF TypeOK
        <5> QED BY <2>2, <5>2 DEF ScanLeft
      <4> QED BY <2>2, <3>1, <3>2, <3>4, <4>1, <4>2
    <3> QED BY <2>1, <2>5, <3>3, <3>4, ScanProgresses
  <2>6. CASE Device
    BY <2>2, <2>6 DEF Device, DoTxBd, TdarDone, Goto, TaskLeft
  <2>7. CASE Handler
    <3>1. count \in [Context -> 0 .. TxBdCount]
      BY <2>1 DEF TypeOK
    <3>2. /\ pc'["task"] = pc["task"] /\ iter' = iter
          /\ count'["task"] = count["task"]
      BY <2>2, <2>7, <3>1
      DEF Handler, IsrEnter, IsrClear, Reclaim, ReclaimRead, ReclaimStore,
          ReclaimAdvance, ReclaimFullCircle, Goto, deviceVars, reclaimVars
    <3>3. TaskLeft' = TaskLeft
      BY <3>2 DEF TaskLeft, ScanLeft
    <3>4. CASE IsrEnter
      <4>1. HandlerLeft = 3 * TxBdCount + 4
        BY <3>4 DEF IsrEnter, HandlerLeft
      <4>2. pc'["isr"] = "read" /\ count'["isr"] = 0
        BY <2>2, <3>1, <3>4 DEF IsrEnter, Goto
      <4>3. HandlerLeft' = 3 * TxBdCount + 3
        BY <2>2, <4>2 DEF HandlerLeft, ScanLeft
      <4> QED BY <2>2, <3>3, <4>1, <4>3
    <3>5. CASE IsrClear
      <4>1. pc["isr"] = "clear" /\ pc'["isr"] = "idle" /\ txf' = FALSE
        BY <2>2, <3>5 DEF IsrClear, Goto
      <4>2. HandlerLeft = 1 /\ HandlerLeft' = 0
        BY <4>1 DEF HandlerLeft, Irq
      <4> QED BY <3>3, <4>2
    <3>6. CASE Reclaim("isr")
      <4>1. /\ ScanLeft("isr") \in 1 .. 3 * TxBdCount + 2
            /\ pc["isr"] \in {"read", "store", "advance"}
        BY <2>1, <3>6, ScanProgresses, ScanBounded
      <4>2. HandlerLeft = ScanLeft("isr") + 1
        BY <4>1 DEF HandlerLeft
      <4>3. CASE pc'["isr"] = Reclaimed("isr")
        <5>1. HandlerLeft' = 1
          BY <4>3 DEF HandlerLeft, Reclaimed
        <5> QED BY <2>2, <3>3, <4>1, <4>2, <5>1
      <4>4. CASE /\ pc'["isr"] \in {"read", "store", "advance"}
                 /\ ScanLeft("isr")' < ScanLeft("isr")
        <5>1. HandlerLeft' = ScanLeft("isr")' + 1
          BY <4>4 DEF HandlerLeft
        <5>2. TypeOK'
          BY StepIInv DEF IInv
        <5>3. count'["isr"] \in Int
          BY <5>2 DEF TypeOK
        <5>4. ScanLeft("isr")' \in Int
          BY <2>2, <5>3 DEF ScanLeft
        <5> QED BY <2>2, <3>3, <4>1, <4>2, <4>4, <5>1, <5>4
      <4> QED BY <2>1, <3>6, <4>3, <4>4, ScanProgresses
    <3> QED BY <2>7, <3>4, <3>5, <3>6 DEF Handler
  <2>8. CASE InitBdRings \/ OutputLinkDown \/ OutputCall
    BY <2>8 DEF InitBdRings, OutputLinkDown, OutputCall, At
  <2> QED BY <2>3, <2>4, <2>5, <2>6, <2>7, <2>8 DEF Next
<1>2. IInv => TaskLeft \in Nat /\ HandlerLeft \in Nat
  BY LeftBounded DEF IInv
<1> QED BY <1>1, <1>2, Invariant, PTL DEF CallProgresses, Spec

\* In the firmware as it ships, output's ERR_OK means the frame is on the
\* wire, and nothing else is.
THEOREM OkMeansSent ==
  ASSUME ~NvicEnabled
  PROVE  Spec => []AcceptedIsSent
<1> DEFINE Once == inits <= 1 => AcceptInv
<1>1. IInv /\ Once => AcceptedIsSent
  BY DEF AcceptInv, Matched, AcceptedIsSent
<1>2. IInv /\ Once /\ [Next]_vars => Once'
  <2>1. ASSUME IInv, [Next]_vars PROVE inits' = inits \/ inits' = inits + 1
    BY <2>1 DEF Next, InitBdRings, InitInterrupts, OutputLinkDown, OutputCall,
         Output, OutputCheck, OutputCopy, OutputTooLong, OutputLength,
         OutputReady, OutputHead, WriteTdar, Device, DoTxBd, TdarDone, Handler,
         IsrEnter, IsrClear, Reclaim, ReclaimRead, ReclaimStore,
         ReclaimAdvance, ReclaimFullCircle, vars, callVars
  <2>2. IInv => inits \in Nat
    BY TxAssumption DEF IInv, TypeOK
  <2> QED BY <2>1, <2>2, StepAccept
<1>3. Init => Once
  BY InitAccept
<1> HIDE DEF Once
<1>4. QED
  BY <1>1, <1>2, <1>3, Invariant, PTL DEF Spec

=============================================================================
