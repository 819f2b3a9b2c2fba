------------------------------- MODULE EnetTx -------------------------------
(***************************************************************************)
(* The transmit path: the firmware's ENET driver                           *)
(* (firmware/drivers/imxrt_enet.c) and the emulated MAC                    *)
(* (hw/net/imxrt1180_enet.c) sharing a ring of transmit descriptors in     *)
(* guest memory.                                                           *)
(*                                                                         *)
(* Two contexts run driver code on the one CPU: the task that calls        *)
(* imxrt_enet_output, and ENET_IRQHandler, which preempts the task between *)
(* any two of its memory accesses and runs to completion.  The MAC sends   *)
(* while the CPU is inside the TDAR store, so neither context moves until  *)
(* it is done.  Frames are named 1, 2, ... in the order of the calls.      *)
(***************************************************************************)
EXTENDS Naturals, Sequences

CONSTANTS
  TxBdCount,    \* ENET_TX_BD_COUNT: descriptors the driver lays out (8)
  TxRingSize,   \* the device property tx-ring-size (default 8)
  MaxFrames,    \* bound: how many times the network stack calls output
  MaxInits,     \* how many times imxrt_enet_init runs; the firmware: once
  NvicEnabled   \* is IRQ 114 enabled in the NVIC; no code in firmware/ does it

\* A device whose ring is shorter than the driver's wraps before the W bit.
\* A second initialisation is only followed without the interrupt handler.
ASSUME TxAssumption ==
  /\ TxBdCount \in Nat \ {0}
  /\ TxRingSize \in Nat \ {0}
  /\ TxRingSize >= TxBdCount
  /\ MaxFrames \in Nat
  /\ MaxInits \in Nat
  /\ NvicEnabled \in BOOLEAN
  /\ NvicEnabled => MaxInits <= 1

Slot == 0 .. TxBdCount - 1
Frame == 1 .. MaxFrames
Context == {"task", "isr"}

\* 0 stands for an empty length field and for a buffer without a whole frame.
Content == 0 .. MaxFrames

TxBd == [r : BOOLEAN, w : BOOLEAN, len : Content]

\* A packet handed to the network: the buffer's frame, under a length.
Packet == [data : Content, len : Frame]

VARIABLES
  bd,        \* the TX descriptors in OCRAM: R and W bits, length
  buf,       \* the frame each TX data buffer holds
  txCurr,    \* device: tx_curr
  tdsr,      \* device: a ring base has been written
  txf,       \* device: EIR.TXF
  eimrTxf,   \* device: EIMR.TXF
  iter,      \* device: max_iter of the running enet_handle_tx
  head,      \* driver: g_tx_bd_head
  tail,      \* driver: g_tx_bd_tail
  linkUp,    \* driver: g_link_up
  pc,        \* where each context is
  slot,      \* locals of reclaim_tx_bds, one set per context: bd,
  status,    \*   status
  count,     \*   and count
  calls,     \* frames the stack has passed to output
  inits,     \* initialisations started
  accepted,  \* history: frames whose call returned ERR_OK
  wire       \* history: what the device passed to qemu_send_packet

deviceVars == <<txCurr, tdsr, txf, eimrTxf, iter, wire>>
reclaimVars == <<slot, status, count>>
callVars == <<calls, inits, accepted>>
vars == <<bd, buf, deviceVars, head, tail, linkUp, pc, reclaimVars, callVars>>

TypeOK ==
  /\ bd \in [Slot -> TxBd]
  /\ buf \in [Slot -> Content]
  /\ txCurr \in Slot /\ head \in Slot /\ tail \in Slot
  /\ tdsr \in BOOLEAN /\ txf \in BOOLEAN /\ eimrTxf \in BOOLEAN
  /\ linkUp \in BOOLEAN
  /\ iter \in 0 .. TxRingSize + 1
  /\ pc \in [Context -> {"off", "initIrq", "idle", "read", "store", "advance",
                         "check", "copy", "length", "ready", "head", "tdar",
                         "dma", "clear"}]
  /\ slot \in [Context -> Slot]
  /\ status \in [Context -> [r : BOOLEAN, w : BOOLEAN]]
  /\ count \in [Context -> 0 .. TxBdCount]
  /\ calls \in 0 .. MaxFrames
  /\ inits \in 0 .. MaxInits
  /\ accepted \in Seq(Frame)
  /\ wire \in Seq(Packet)

-----------------------------------------------------------------------------
(* The device has been reset, the firmware's .bss cleared; OCRAM holds     *)
(* zeroes.  The task has not initialised the driver yet.                   *)
Init ==
  /\ bd = [i \in Slot |-> [r |-> FALSE, w |-> FALSE, len |-> 0]]
  /\ buf = [i \in Slot |-> 0]
  /\ txCurr = 0 /\ head = 0 /\ tail = 0
  /\ tdsr = FALSE /\ txf = FALSE /\ eimrTxf = FALSE /\ linkUp = FALSE
  /\ iter = 0
  /\ pc = [c \in Context |-> IF c = "task" THEN "off" ELSE "idle"]
  /\ slot = [c \in Context |-> 0]
  /\ status = [c \in Context |-> [r |-> FALSE, w |-> FALSE]]
  /\ count = [c \in Context |-> 0]
  /\ calls = 0 /\ inits = 0
  /\ accepted = <<>> /\ wire = <<>>

\* An interrupt handler runs to completion before the task goes on.
May(c) == c = "task" => pc["isr"] = "idle"

At(c, place) == pc[c] = place /\ May(c)

Goto(c, place) == pc' = [pc EXCEPT ![c] = place]

-----------------------------------------------------------------------------
(* imxrt_enet_init, as far as it touches the transmit path.  Writing       *)
(* ECR.RESET clears that bit and nothing else, so txCurr keeps its value.  *)

\* Mutant: the status words are not rewritten.
InitBdRingsKeepsReady ==
  /\ pc["task"] \in {"off", "idle"} /\ May("task")
  /\ inits < MaxInits
  /\ inits' = inits + 1
  /\ bd' = [i \in Slot |-> [r |-> bd[i].r, w |-> i = TxBdCount - 1, len |-> 0]]
  /\ tdsr' = TRUE
  /\ head' = 0 /\ tail' = 0
  /\ Goto("task", "initIrq")
  /\ UNCHANGED <<buf, txCurr, txf, eimrTxf, iter, wire, linkUp, reclaimVars,
                 calls, accepted>>

InitBdRings ==
  /\ pc["task"] \in {"off", "idle"} /\ May("task")
  /\ inits < MaxInits
  /\ inits' = inits + 1
  /\ bd' = [i \in Slot |-> [r |-> FALSE, w |-> i = TxBdCount - 1, len |-> 0]]
  /\ tdsr' = TRUE
  /\ head' = 0 /\ tail' = 0
  /\ Goto("task", "initIrq")
  /\ UNCHANGED <<buf, txCurr, txf, eimrTxf, iter, wire, linkUp, reclaimVars,
                 calls, accepted>>

\* EIR is cleared, EIMR unmasks TXF, and the PHY answers the link query.
InitInterrupts ==
  /\ At("task", "initIrq")
  /\ txf' = FALSE
  /\ eimrTxf' = TRUE
  /\ linkUp' \in BOOLEAN
  /\ Goto("task", "idle")
  /\ UNCHANGED <<bd, buf, txCurr, tdsr, iter, wire, head, tail, reclaimVars,
                 callVars>>

-----------------------------------------------------------------------------
(* imxrt_enet_output, up to the store that hands the descriptor over.      *)

\* The frame being sent by the call in progress.
Current == calls

\* Before the link is known to be up the call returns ERR_IF.
OutputLinkDown ==
  /\ pc["task"] \in {"off", "idle"} /\ May("task")
  /\ calls < MaxFrames
  /\ ~linkUp
  /\ calls' = calls + 1
  /\ UNCHANGED <<bd, buf, deviceVars, head, tail, linkUp, pc, reclaimVars,
                 inits, accepted>>

OutputCall ==
  /\ At("task", "idle")
  /\ calls < MaxFrames
  /\ linkUp
  /\ calls' = calls + 1
  /\ count' = [count EXCEPT !["task"] = 0]
  /\ Goto("task", "read")
  /\ UNCHANGED <<bd, buf, deviceVars, head, tail, linkUp, slot, status, inits,
                 accepted>>

\* ERR_BUF when the descriptor at head still belongs to the device.
OutputCheck ==
  /\ At("task", "check")
  /\ Goto("task", IF bd[head].r THEN "idle" ELSE "copy")
  /\ UNCHANGED <<bd, buf, deviceVars, head, tail, linkUp, reclaimVars,
                 callVars>>

OutputCopy ==
  /\ At("task", "copy")
  /\ buf' = [buf EXCEPT ![head] = Current]
  /\ Goto("task", "length")
  /\ UNCHANGED <<bd, deviceVars, head, tail, linkUp, reclaimVars, callVars>>

\* A pbuf chain over ENET_RX_BUFSIZE: some of it is copied, then ERR_BUF.
OutputTooLong ==
  /\ At("task", "copy")
  /\ buf' = [buf EXCEPT ![head] = 0]
  /\ Goto("task", "idle")
  /\ UNCHANGED <<bd, deviceVars, head, tail, linkUp, reclaimVars, callVars>>

\* Mutant: the length store is missing.
OutputLengthForgotten ==
  /\ At("task", "length")
  /\ Goto("task", "ready")
  /\ UNCHANGED <<bd, buf, deviceVars, head, tail, linkUp, reclaimVars, callVars>>

OutputLength ==
  /\ At("task", "length")
  /\ bd' = [bd EXCEPT ![head].len = Current]
  /\ Goto("task", "ready")
  /\ UNCHANGED <<buf, deviceVars, head, tail, linkUp, reclaimVars, callVars>>

\* The status is read for its W bit and rewritten; the handler never changes
\* W, so the read and the store are one step.
OutputReady ==
  /\ At("task", "ready")
  /\ bd' = [bd EXCEPT ![head].r = TRUE]
  /\ Goto("task", "head")
  /\ UNCHANGED <<buf, deviceVars, head, tail, linkUp, reclaimVars, callVars>>

\* Where a driver index goes after descriptor i with status bits s.
After(i, s) == IF s.w THEN 0 ELSE i + 1

OutputHead ==
  /\ At("task", "head")
  /\ head' = After(head, bd[head])
  /\ Goto("task", "tdar")
  /\ UNCHANGED <<bd, buf, deviceVars, tail, linkUp, reclaimVars, callVars>>

-----------------------------------------------------------------------------
(* reclaim_tx_bds, run by the task at the start of output and by the       *)
(* interrupt handler.                                                      *)

\* Where context c goes when the scan ends.
Reclaimed(c) == IF c = "task" THEN "check" ELSE "clear"

\* Mutant: the scan does not stop at a descriptor the device owns.
ReclaimReadIgnoresR(c) ==
  /\ At(c, "read")
  /\ count[c] < TxBdCount
  /\ slot' = [slot EXCEPT ![c] = tail]
  /\ status' = [status EXCEPT ![c] = [r |-> bd[tail].r, w |-> bd[tail].w]]
  /\ Goto(c, "store")
  /\ UNCHANGED <<bd, buf, deviceVars, head, tail, linkUp, count, callVars>>

ReclaimRead(c) ==
  /\ At(c, "read")
  /\ count[c] < TxBdCount
  /\ slot' = [slot EXCEPT ![c] = tail]
  /\ status' = [status EXCEPT ![c] = [r |-> bd[tail].r, w |-> bd[tail].w]]
  /\ Goto(c, IF bd[tail].r THEN Reclaimed(c) ELSE "store")
  /\ UNCHANGED <<bd, buf, deviceVars, head, tail, linkUp, count, callVars>>

\* Mutant: W is cleared with the other status bits.
ReclaimStoreDropsW(c) ==
  /\ At(c, "store")
  /\ bd' = [bd EXCEPT ![slot[c]] = [r |-> FALSE, w |-> FALSE, len |-> 0]]
  /\ Goto(c, "advance")
  /\ UNCHANGED <<buf, deviceVars, head, tail, linkUp, reclaimVars, callVars>>

\* Only W survives in the status, and the length is cleared.  The handler
\* stores the same two values, so the two stores are one step.
ReclaimStore(c) ==
  /\ At(c, "store")
  /\ bd' = [bd EXCEPT ![slot[c]] =
                        [r |-> FALSE, w |-> status[c].w, len |-> 0]]
  /\ Goto(c, "advance")
  /\ UNCHANGED <<buf, deviceVars, head, tail, linkUp, reclaimVars, callVars>>

\* Mutant: the loop counter is not incremented.
ReclaimAdvanceUncounted(c) ==
  /\ At(c, "advance")
  /\ tail' = After(tail, status[c])
  /\ Goto(c, "read")
  /\ UNCHANGED <<bd, buf, deviceVars, head, linkUp, reclaimVars, callVars>>

\* The global tail is read again here, after the stores.
ReclaimAdvance(c) ==
  /\ At(c, "advance")
  /\ tail' = After(tail, status[c])
  /\ count' = [count EXCEPT ![c] = @ + 1]
  /\ Goto(c, "read")
  /\ UNCHANGED <<bd, buf, deviceVars, head, linkUp, slot, status, callVars>>

ReclaimFullCircle(c) ==
  /\ At(c, "read")
  /\ count[c] = TxBdCount
  /\ Goto(c, Reclaimed(c))
  /\ UNCHANGED <<bd, buf, deviceVars, head, tail, linkUp, reclaimVars,
                 callVars>>

-----------------------------------------------------------------------------
(* The device: a store to TDAR runs enet_handle_tx inside the store.       *)

WriteTdar ==
  /\ At("task", "tdar")
  /\ iter' = TxRingSize + 1
  /\ Goto("task", "dma")
  /\ UNCHANGED <<bd, buf, txCurr, tdsr, txf, eimrTxf, wire, head, tail,
                 linkUp, reclaimVars, callVars>>

\* Mutant: the ring is taken to be one descriptor shorter.
NextBdIndexShort(curr, b) == IF b.w THEN 0 ELSE (curr + 1) % (TxRingSize - 1)

\* enet_next_bd_index.
NextBdIndex(curr, b) == IF b.w THEN 0 ELSE (curr + 1) % TxRingSize

\* Mutant: R is not cleared after sending.
DoTxBdKeepsReady ==
  /\ pc["task"] = "dma"
  /\ iter > 0 /\ tdsr /\ bd[txCurr].r
  /\ iter' = iter - 1
  /\ wire' = IF bd[txCurr].len = 0
             THEN wire
             ELSE Append(wire, [data |-> buf[txCurr], len |-> bd[txCurr].len])
  /\ txCurr' = NextBdIndex(txCurr, bd[txCurr])
  /\ txf' = TRUE
  /\ UNCHANGED <<bd, buf, tdsr, eimrTxf, head, tail, linkUp, pc, reclaimVars,
                 callVars>>

\* enet_do_tx_bd on a descriptor with R set.  An empty one is completed like
\* any other, but nothing is sent.
DoTxBd ==
  /\ pc["task"] = "dma"
  /\ iter > 0 /\ tdsr /\ bd[txCurr].r
  /\ iter' = iter - 1
  /\ wire' = IF bd[txCurr].len = 0
             THEN wire
             ELSE Append(wire, [data |-> buf[txCurr], len |-> bd[txCurr].len])
  /\ bd' = [bd EXCEPT ![txCurr].r = FALSE]
  /\ txCurr' = NextBdIndex(txCurr, bd[txCurr])
  /\ txf' = TRUE
  /\ UNCHANGED <<buf, tdsr, eimrTxf, head, tail, linkUp, pc, reclaimVars,
                 callVars>>

\* The loop stops, the store completes, and output returns ERR_OK.
TdarDone ==
  /\ pc["task"] = "dma"
  /\ iter = 0 \/ ~tdsr \/ ~bd[txCurr].r
  /\ iter' = 0
  /\ accepted' = Append(accepted, Current)
  /\ Goto("task", "idle")
  /\ UNCHANGED <<bd, buf, txCurr, tdsr, txf, eimrTxf, wire, head, tail,
                 linkUp, reclaimVars, calls, inits>>

-----------------------------------------------------------------------------
(* ENET_IRQHandler, as far as it touches the transmit path.                *)

\* The interrupt line, as update_irq drives it.
Irq == txf /\ eimrTxf

IsrEnter ==
  /\ NvicEnabled
  /\ Irq
  /\ pc["isr"] = "idle"
  /\ pc["task"] # "dma"
  /\ count' = [count EXCEPT !["isr"] = 0]
  /\ Goto("isr", "read")
  /\ UNCHANGED <<bd, buf, deviceVars, head, tail, linkUp, slot, status,
                 callVars>>

\* Mutant: the event is not written back.
IsrClearForgets ==
  /\ pc["isr"] = "clear"
  /\ Goto("isr", "idle")
  /\ UNCHANGED <<bd, buf, deviceVars, head, tail, linkUp, reclaimVars, callVars>>

\* TXF is written back as one, after the ring was scanned.
IsrClear ==
  /\ pc["isr"] = "clear"
  /\ txf' = FALSE
  /\ Goto("isr", "idle")
  /\ UNCHANGED <<bd, buf, txCurr, tdsr, eimrTxf, iter, wire, head, tail,
                 linkUp, reclaimVars, callVars>>

-----------------------------------------------------------------------------
Reclaim(c) ==
  ReclaimRead(c) \/ ReclaimStore(c) \/ ReclaimAdvance(c) \/ ReclaimFullCircle(c)

Output ==
  \/ OutputCheck \/ OutputCopy \/ OutputTooLong \/ OutputLength
  \/ OutputReady \/ OutputHead \/ WriteTdar

Device == DoTxBd \/ TdarDone

Handler == IsrEnter \/ IsrClear \/ Reclaim("isr")

Next ==
  \/ InitBdRings \/ InitInterrupts
  \/ OutputLinkDown \/ OutputCall \/ Output \/ Reclaim("task")
  \/ Device
  \/ Handler

Spec == Init /\ [][Next]_vars

\* The CPU goes on executing: a call that has started is carried on, and so
\* is the handler.  Nothing makes the stack call output or init.
FairSpec ==
  /\ Spec
  /\ WF_vars(InitInterrupts \/ Output \/ Reclaim("task") \/ Device)
  /\ WF_vars(Handler)

-----------------------------------------------------------------------------
(* Properties.                                                             *)

\* What leaves the MAC is a whole frame under its own length, and frames
\* leave in the order of the calls, none of them twice: no interleaving of
\* output, reclaim and the handler makes the device read a descriptor whose
\* buffer or length belongs to another call.
SentInOrderOnce ==
  /\ \A i \in 1 .. Len(wire) : wire[i].data = wire[i].len
  /\ \A i, j \in 1 .. Len(wire) : i < j => wire[i].data < wire[j].data

\* After a second initialisation the driver starts at 0 and the device where
\* it was: frames wait until head comes by tx_curr, and leave late and out of
\* order.  But they leave whole, each once: none is overwritten while it waits.
SentWholeOnce ==
  /\ \A i \in 1 .. Len(wire) : wire[i].data = wire[i].len
  /\ \A i, j \in 1 .. Len(wire) : i # j => wire[i].data # wire[j].data

\* However often the driver is initialised, between calls its head has not
\* overtaken the device, and what waits in the ring lies before head: the
\* device, once past the last descriptor, sends all of it.
HeadNotAhead ==
  pc["task"] = "idle" => head <= txCurr /\ \A i \in Slot : bd[i].r => i < head

\* Whenever output has returned, and the driver has been initialised no more
\* than once, the frames it answered ERR_OK for are exactly those on the wire,
\* in that order: "TX: lwIP -> imxrt_enet_output
\* -> TX BD -> TDAR -> QEMU enet_handle_tx" (imxrt_enet.c:10).
AcceptedIsSent ==
  inits <= 1 /\ pc["task"] = "idle" =>
    /\ Len(wire) = Len(accepted)
    /\ \A i \in 1 .. Len(wire) : wire[i].data = accepted[i]

\* Between calls the driver's head and the device's tx_curr agree and the
\* device owns nothing: the position is kept twice, in the firmware and in
\* the device, and nothing ever compares the two.
HeadMeetsDevice ==
  pc["task"] = "idle" => head = txCurr /\ \A i \in Slot : ~bd[i].r

\* The ERR_BUF of a full ring is never returned: the device has drained the
\* ring by the time head comes to a descriptor again, however often the driver
\* is initialised in between.
RingNeverFull == At("task", "check") => ~bd[head].r

\* While the device owns a descriptor (R set), neither the task nor the
\* handler writes it or its buffer; reclaim acts on a status it read earlier.
DriverKeepsOff ==
  [][\A i \in Slot :
       bd[i].r /\ pc["task"] # "dma" => bd'[i] = bd[i] /\ buf'[i] = buf[i]]_vars

\* A call of output that has started returns.
OutputReturns == pc["task"] \notin {"off", "idle"} ~> pc["task"] = "idle"

\* A completed frame's interrupt is taken and cleared.
TxfServed == NvicEnabled => (Irq ~> ~txf)
=============================================================================
