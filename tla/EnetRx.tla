------------------------------- MODULE EnetRx -------------------------------
(***************************************************************************)
(* The receive path: QEMU's net layer offering frames to the emulated MAC  *)
(* (hw/net/imxrt1180_enet.c), the MAC writing them to a ring of receive    *)
(* descriptors in guest memory, and ENET_IRQHandler                        *)
(* (firmware/drivers/imxrt_enet.c) taking them out.                        *)
(*                                                                         *)
(* The MAC receives on QEMU's main-loop thread under the big lock.  Guest  *)
(* memory accesses need no lock, so they fall between the MAC's own; the   *)
(* guest's register accesses do, and wait until the MAC and the net layer  *)
(* are done (Unlocked).  Frames are named 1, 2, ... in order of arrival.   *)
(***************************************************************************)
EXTENDS Naturals, Sequences

CONSTANTS
  RxBdCount,    \* ENET_RX_BD_COUNT: descriptors the driver lays out (8)
  RxRingSize,   \* the device property rx-ring-size (default 8)
  MaxFrames,    \* bound: how many frames arrive from the network
  Oversized,    \* the frames longer than the property max-frame-size
  RdsrLatched,  \* does the device keep what is written to RDSR; it does not
  NvicEnabled   \* is IRQ 114 enabled in the NVIC; no code in firmware/ does it

\* RdsrLatched = FALSE and NvicEnabled = FALSE is the program as it is.  With
\* both TRUE the ring is in use, and the handlers of both sides are exercised
\* as they would be with a device that accepts the driver's RDSR store.
ASSUME RxAssumption ==
  /\ RxBdCount \in Nat \ {0}
  /\ RxRingSize \in Nat \ {0}
  /\ RxRingSize >= RxBdCount
  /\ MaxFrames \in Nat
  /\ Oversized \subseteq 1 .. MaxFrames
  /\ RdsrLatched \in BOOLEAN
  /\ NvicEnabled \in BOOLEAN

Slot == 0 .. RxBdCount - 1
Frame == 1 .. MaxFrames

\* 0: an empty length field; bytes that are not those of a frame.
Content == 0 .. MaxFrames

RxBd == [e : BOOLEAN, w : BOOLEAN, len : Content]

\* A descriptor's buffer under its length.
Packet == [data : Content, len : Content]

VARIABLES
  bd,        \* the RX descriptors in OCRAM: E and W bits, length
  buf,       \* the frame each RX data buffer holds
  rdsr,      \* device: rdsr holds the driver's ring base
  mrbr,      \* device: MRBR has been set (it resets to 0: no byte is copied)
  rxCurr,    \* device: rx_curr
  rxf,       \* device: EIR.RXF
  rxb,       \* device: EIR.RXB
  eimrRxf,   \* device: EIMR.RXF
  dev,       \* where imxrt1180_enet_receive is
  cur,       \* the frame being received
  queue,     \* net layer: frames waiting to be offered again
  disabled,  \* net layer: receive_disabled
  flushing,  \* net layer: the frame being received came from the queue
  arrived,   \* frames the network has sent
  task,      \* where imxrt_enet_init is
  isr,       \* where ENET_IRQHandler is
  tail,      \* driver: g_rx_bd_tail
  status,    \* locals of imxrt_enet_input: status,
  length,    \*   length
  processed, \*   and processed
  received,  \* history: packets the MAC put into the ring
  consumed,  \* history: packets the driver took out of the ring
  input      \* history: those of them that netif->input accepted

macVars == <<rdsr, mrbr, rxCurr, rxf, rxb, eimrRxf, dev, cur, received>>
netVars == <<queue, disabled, flushing, arrived>>
inputVars == <<isr, tail, status, length, processed, consumed, input>>
vars == <<bd, buf, macVars, netVars, task, inputVars>>

TypeOK ==
  /\ bd \in [Slot -> RxBd]
  /\ buf \in [Slot -> Content]
  /\ rdsr \in BOOLEAN /\ mrbr \in BOOLEAN
  /\ rxCurr \in Slot /\ tail \in Slot
  /\ rxf \in BOOLEAN /\ rxb \in BOOLEAN /\ eimrRxf \in BOOLEAN
  /\ dev \in {"idle", "offered", "copy", "write"}
  /\ cur \in Content
  /\ queue \in Seq(Frame)
  /\ disabled \in BOOLEAN /\ flushing \in BOOLEAN
  /\ arrived \in 0 .. MaxFrames
  /\ task \in {"off", "mrbr", "eir", "eimr", "up"}
  /\ isr \in {"idle", "status", "length", "copy", "clearLength", "giveBack",
              "advance", "clear"}
  /\ status \in [e : BOOLEAN, w : BOOLEAN]
  /\ length \in Content
  /\ processed \in 0 .. RxBdCount
  /\ received \in Seq(Packet) /\ consumed \in Seq(Packet)
  /\ input \in Seq(Packet)

-----------------------------------------------------------------------------
(* The device has been reset and the firmware's .bss cleared.              *)
Init ==
  /\ bd = [i \in Slot |-> [e |-> FALSE, w |-> FALSE, len |-> 0]]
  /\ buf = [i \in Slot |-> 0]
  /\ rdsr = FALSE /\ mrbr = FALSE
  /\ rxCurr = 0 /\ tail = 0
  /\ rxf = FALSE /\ rxb = FALSE /\ eimrRxf = FALSE
  /\ dev = "idle" /\ cur = 0
  /\ queue = <<>> /\ disabled = FALSE /\ flushing = FALSE /\ arrived = 0
  /\ task = "off" /\ isr = "idle"
  /\ status = [e |-> FALSE, w |-> FALSE] /\ length = 0 /\ processed = 0
  /\ received = <<>> /\ consumed = <<>> /\ input = <<>>

\* The big lock is free: the guest's register accesses go through.
Unlocked == dev = "idle"

-----------------------------------------------------------------------------
(* imxrt_enet_init, as far as it touches the receive path.  It runs once,  *)
(* and the handler may preempt it once EIMR is written.                    *)

InitBdRings ==
  /\ task = "off" /\ Unlocked
  /\ bd' = [i \in Slot |-> [e |-> TRUE, w |-> i = RxBdCount - 1, len |-> 0]]
  /\ rdsr' = RdsrLatched
  /\ tail' = 0
  /\ task' = "mrbr"
  /\ UNCHANGED <<buf, mrbr, rxCurr, rxf, rxb, eimrRxf, dev, cur, received,
                 netVars, isr, status, length, processed, consumed, input>>

InitMrbr ==
  /\ task = "mrbr" /\ Unlocked
  /\ mrbr' = TRUE
  /\ task' = "eir"
  /\ UNCHANGED <<bd, buf, rdsr, rxCurr, rxf, rxb, eimrRxf, dev, cur, received,
                 netVars, inputVars>>

InitClearEir ==
  /\ task = "eir" /\ Unlocked
  /\ rxf' = FALSE /\ rxb' = FALSE
  /\ task' = "eimr"
  /\ UNCHANGED <<bd, buf, rdsr, mrbr, rxCurr, eimrRxf, dev, cur, received,
                 netVars, inputVars>>

\* EIMR unmasks RXF, but not RXB.  The MAC has been receiving since RDSR was
\* written: it looks neither at ECR.ETHEREN nor at RDAR, written after this.
InitEimr ==
  /\ task = "eimr" /\ Unlocked
  /\ eimrRxf' = TRUE
  /\ task' = "up"
  /\ UNCHANGED <<bd, buf, rdsr, mrbr, rxCurr, rxf, rxb, dev, cur, received,
                 netVars, inputVars>>

-----------------------------------------------------------------------------
(* QEMU's net layer (external): a frame is offered when the NIC can take   *)
(* one, and waits in the NIC's queue otherwise.                            *)

\* imxrt1180_enet_can_receive.
CanReceive == rdsr /\ bd[rxCurr].e

ArriveOffered ==
  /\ Unlocked
  /\ arrived < MaxFrames
  /\ ~disabled /\ CanReceive
  /\ arrived' = arrived + 1
  /\ cur' = arrived + 1
  /\ dev' = "offered"
  /\ UNCHANGED <<bd, buf, rdsr, mrbr, rxCurr, rxf, rxb, eimrRxf, received,
                 queue, disabled, flushing, task, inputVars>>

ArriveQueued ==
  /\ Unlocked
  /\ arrived < MaxFrames
  /\ disabled \/ ~CanReceive
  /\ arrived' = arrived + 1
  /\ queue' = Append(queue, arrived + 1)
  /\ UNCHANGED <<bd, buf, macVars, disabled, flushing, task, inputVars>>

-----------------------------------------------------------------------------
(* imxrt1180_enet_receive.                                                 *)

Accepts == rdsr /\ cur \notin Oversized /\ bd[rxCurr].e

\* The comments call both cases a drop, but the 0 they return means "not now"
\* to the net layer: it keeps the frame and offers no other until the device
\* calls qemu_flush_queued_packets, which this device never does.
ReceiveRefuse ==
  /\ dev = "offered"
  /\ ~Accepts
  /\ rxb' = (rxb \/ (rdsr /\ cur \notin Oversized))
  /\ disabled' = TRUE
  /\ queue' = IF flushing THEN <<cur>> \o queue ELSE Append(queue, cur)
  /\ flushing' = FALSE
  /\ dev' = "idle" /\ cur' = 0
  /\ UNCHANGED <<bd, buf, rdsr, mrbr, rxCurr, rxf, eimrRxf, received, arrived,
                 task, inputVars>>

\* Mutant: the E bit of the descriptor is not looked at.
ReceiveAcceptAny ==
  /\ dev = "offered"
  /\ rdsr /\ cur \notin Oversized
  /\ dev' = "copy"
  /\ UNCHANGED <<bd, buf, rdsr, mrbr, rxCurr, rxf, rxb, eimrRxf, cur, received,
                 netVars, task, inputVars>>

ReceiveAccept ==
  /\ dev = "offered"
  /\ Accepts
  /\ dev' = "copy"
  /\ UNCHANGED <<bd, buf, rdsr, mrbr, rxCurr, rxf, rxb, eimrRxf, cur, received,
                 netVars, task, inputVars>>

\* MRBR bytes at most; the driver's value is above max-frame-size.
ReceiveCopy ==
  /\ dev = "copy"
  /\ buf' = IF mrbr THEN [buf EXCEPT ![rxCurr] = cur] ELSE buf
  /\ dev' = "write"
  /\ UNCHANGED <<bd, rdsr, mrbr, rxCurr, rxf, rxb, eimrRxf, cur, received,
                 netVars, task, inputVars>>

\* Mutant: the W bit is not looked at.
NextBdIndexNoWrap(i, b) == (i + 1) % RxRingSize

\* enet_next_bd_index.
NextBdIndex(i, b) == IF b.w THEN 0 ELSE (i + 1) % RxRingSize

\* The descriptor goes to the CPU, and the net layer, told that the frame was
\* received, offers what is queued without asking can_receive.
ReceiveWrite ==
  /\ dev = "write"
  /\ bd' = [bd EXCEPT ![rxCurr].e = FALSE, ![rxCurr].len = cur]
  /\ rxCurr' = NextBdIndex(rxCurr, bd[rxCurr])
  /\ rxf' = TRUE
  /\ received' = Append(received, [data |-> buf[rxCurr], len |-> cur])
  /\ flushing' = (queue # <<>>)
  /\ IF queue = <<>>
     THEN dev' = "idle" /\ cur' = 0 /\ queue' = queue
     ELSE dev' = "offered" /\ cur' = Head(queue) /\ queue' = Tail(queue)
  /\ UNCHANGED <<buf, rdsr, mrbr, rxb, eimrRxf, disabled, arrived, task,
                 inputVars>>

-----------------------------------------------------------------------------
(* ENET_IRQHandler and imxrt_enet_input, as far as they touch the receive  *)
(* path.  RXB is masked, so the handler's branch for it never runs.        *)

\* The part of the interrupt line that RXF drives.
Irq == rxf /\ eimrRxf

IsrEnter ==
  /\ NvicEnabled
  /\ Irq
  /\ isr = "idle" /\ Unlocked
  /\ processed' = 0
  /\ isr' = "status"
  /\ UNCHANGED <<bd, buf, macVars, netVars, task, tail, status, length,
                 consumed, input>>

\* Mutant: one descriptor less than the ring has.
BudgetShort == RxBdCount - 1

\* How many descriptors one call looks at.
Budget == RxBdCount

\* Mutant: a descriptor is taken without a look at its E bit.
InputStatusAny ==
  /\ isr = "status"
  /\ processed < Budget
  /\ status' = [e |-> bd[tail].e, w |-> bd[tail].w]
  /\ isr' = "length"
  /\ UNCHANGED <<bd, buf, macVars, netVars, task, tail, length, processed,
                 consumed, input>>

InputStatus ==
  /\ isr = "status"
  /\ processed < Budget
  /\ status' = [e |-> bd[tail].e, w |-> bd[tail].w]
  /\ isr' = IF bd[tail].e THEN "clear" ELSE "length"
  /\ UNCHANGED <<bd, buf, macVars, netVars, task, tail, length, processed,
                 consumed, input>>

InputFullCircle ==
  /\ isr = "status"
  /\ processed = Budget
  /\ isr' = "clear"
  /\ UNCHANGED <<bd, buf, macVars, netVars, task, tail, status, length,
                 processed, consumed, input>>

InputLength ==
  /\ isr = "length"
  /\ length' = bd[tail].len
  /\ isr' = "copy"
  /\ UNCHANGED <<bd, buf, macVars, netVars, task, tail, status, processed,
                 consumed, input>>

\* The frame reaches lwIP, or not: no pbuf, or netif->input refuses it.
InputCopy ==
  /\ isr = "copy"
  /\ LET p == [data |-> buf[tail], len |-> length]
     IN  /\ consumed' = Append(consumed, p)
         /\ \/ length > 0 /\ input' = Append(input, p)
            \/ input' = input
  /\ isr' = "clearLength"
  /\ UNCHANGED <<bd, buf, macVars, netVars, task, tail, status, length,
                 processed>>

InputClearLength ==
  /\ isr = "clearLength"
  /\ bd' = [bd EXCEPT ![tail].len = 0]
  /\ isr' = "giveBack"
  /\ UNCHANGED <<buf, macVars, netVars, task, tail, status, length, processed,
                 consumed, input>>

InputGiveBack ==
  /\ isr = "giveBack"
  /\ bd' = [bd EXCEPT ![tail].e = TRUE, ![tail].w = status.w]
  /\ isr' = "advance"
  /\ UNCHANGED <<buf, macVars, netVars, task, tail, status, length, processed,
                 consumed, input>>

\* Where g_rx_bd_tail goes after descriptor i with status bits s.
After(i, s) == IF s.w THEN 0 ELSE i + 1

\* Ends with a store to RDAR, to which the device does nothing.
InputAdvance ==
  /\ isr = "advance" /\ Unlocked
  /\ tail' = After(tail, status)
  /\ processed' = processed + 1
  /\ isr' = "status"
  /\ UNCHANGED <<bd, buf, macVars, netVars, task, status, length, consumed,
                 input>>

\* RXF is written back as one, after the ring was scanned.
IsrClear ==
  /\ isr = "clear" /\ Unlocked
  /\ rxf' = FALSE
  /\ isr' = "idle"
  /\ UNCHANGED <<bd, buf, rdsr, mrbr, rxCurr, rxb, eimrRxf, dev, cur, received,
                 netVars, task, tail, status, length, processed, consumed,
                 input>>

-----------------------------------------------------------------------------
Driver == InitBdRings \/ InitMrbr \/ InitClearEir \/ InitEimr

Network == ArriveOffered \/ ArriveQueued

Mac == ReceiveRefuse \/ ReceiveAccept \/ ReceiveCopy \/ ReceiveWrite

Handler ==
  \/ IsrEnter
  \/ InputStatus \/ InputFullCircle \/ InputLength \/ InputCopy
  \/ InputClearLength \/ InputGiveBack \/ InputAdvance
  \/ IsrClear

Next == Driver \/ Network \/ Mac \/ Handler

Spec == Init /\ [][Next]_vars

\* The CPU executes the initialisation and, while the line is up, the
\* handler; QEMU's main loop finishes what it has started.  The network need
\* not send anything.
FairSpec == Spec /\ WF_vars(Driver) /\ WF_vars(Mac) /\ WF_vars(Handler)

-----------------------------------------------------------------------------
(* Properties.                                                             *)

\* The driver takes out of the ring exactly what the MAC put into it: in
\* that order, nothing twice, each buffer under its own length, although the
\* two sides share descriptors without a lock and the MAC's check of E, its
\* copy and its write of the descriptor are separate.
ConsumedAsReceived ==
  /\ Len(consumed) <= Len(received)
  /\ \A i \in 1 .. Len(consumed) : consumed[i] = received[i]

\* Packets in the ring that the driver has not given back.
Unread ==
  Len(received) - Len(consumed)
    + (IF isr \in {"clearLength", "giveBack"} THEN 1 ELSE 0)

\* The first descriptor not given back.
Oldest == IF isr = "advance" THEN After(tail, status) ELSE tail

\* The two positions, one in the firmware and one in the device, enclose
\* exactly the descriptors the CPU owns (E clear).
RingWindow ==
  task # "off" =>
    /\ rxCurr = (Oldest + Unread) % RxBdCount
    /\ {i \in Slot : ~bd[i].e} =
         {(Oldest + k) % RxBdCount : k \in 0 .. Unread - 1}

\* "Drop oversized frame" and "drop frame" (imxrt1180_enet.c:631, :639): the
\* frame that cannot be received is gone, and what arrives while the MAC has
\* an empty descriptor is offered to it.
ReceptionGoesOn == [][ArriveQueued => ~CanReceive]_vars

\* Packets in the ring when the handler is about to be entered are taken out;
\* of one that the MAC adds between the scan and the clearing of RXF it says
\* nothing.
AnnouncedIsConsumed ==
  \A k \in Frame :
    (Irq /\ isr = "idle" /\ Len(received) >= k /\ NvicEnabled)
      ~> Len(consumed) >= k

\* "RX: QEMU enet_receive -> RX BD -> RXF IRQ -> imxrt_enet_input -> lwIP"
\* (imxrt_enet.c:11): a frame of legal length gets into the ring.
FramesAreReceived ==
  (\E f \in 1 .. arrived : f \notin Oversized) ~> received # <<>>

\* Seen from outside, the shared ring is a first-in first-out buffer of
\* RxBdCount packets: the MAC's three accesses and the driver's six act as
\* one insertion and one removal.
Fifo == INSTANCE BoundedFifo
        WITH Item <- Packet, Capacity <- RxBdCount,
             put <- received, taken <- consumed

RingIsFifo == Fifo!Spec
=============================================================================
