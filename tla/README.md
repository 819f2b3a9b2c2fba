# A verification project for the i.MX RT1180 network model and firmware

The repository holds two programs that meet at a register interface and at a
few descriptors in memory:

* a QEMU model of the i.MX RT1180's Ethernet MAC (ENET), of the DP83822 PHY
  behind it, and of the SoC and EVK board (`src/hw`, `src/include/hw`);
* a FreeRTOS + lwIP firmware that drives that MAC and serves a web page
  (`src/firmware`, without the vendored FreeRTOS, lwIP and mbedTLS).

The modules here model what decides whether a frame, a message or a connection
gets through: the descriptor rings the two programs share without a lock, the
register file between them, and above the driver the part of lwIP and FreeRTOS
that the firmware's tasks and its interrupt handler meet in: the mailboxes and
semaphores of the port, the memory pools behind its critical section, and the
netconn layer under the HTTP server.

    tlc -workers 2 -config EnetTx_irq.cfg EnetTx      one run
    tlapm EnetTx_proofs.tla                           one proof module

## 1. Inventory

| Component | State | Operations | Interacts with |
|---|---|---|---|
| Transmit path, driver side (`imxrt_enet.c` 383-491) | `g_tx_bd_head`, `g_tx_bd_tail`, locals of `reclaim_tx_bds`, descriptors and buffers in OCRAM | `imxrt_enet_output`, `reclaim_tx_bds` (task and handler) | device through descriptors and TDAR |
| Transmit path, device side (`imxrt1180_enet.c` 490-574) | `tx_curr`, TDSR, EIR.TXF | `enet_handle_tx`, `enet_do_tx_bd` | called inside the TDAR store; raises the interrupt line |
| Receive path, device side (583-668) | `rx_curr`, RDSR, MRBR, EIR.RXF and RXB | `can_receive`, `receive` | called by QEMU's net layer on the main-loop thread |
| Receive path, driver side (`imxrt_enet.c` 510-639) | `g_rx_bd_tail`, locals of `imxrt_enet_input` | `imxrt_enet_input`, `ENET_IRQHandler` | descriptors, RDAR, EIR, lwIP's `netif->input` |
| Register file (`imxrt1180_enet.c` 37-402, 686-741) | ECR and its lock, EIR, EIMR, MMFR, plain registers | MMIO read and write, reset | NVIC line, PHY |
| PHY (`imxrt1180_dp83822_phy.c`) | 32 registers, `link_up` | reset, MDIO read, MDIO write | called by the MMFR store |
| Driver initialisation and MDIO (`imxrt_enet.c` 94-350) | `g_link_up`, poll counters | `imxrt_enet_init`, `enet_mdio_read`, `enet_wait_mdio` | registers; the handler competes for EIR.MII |
| OS port, queues (`lwip/src/arch/sys_arch.c` on `queue.c` and `tasks.c` of FreeRTOS) | a queue's storage, positions, count, lock and waiting list; ready, delayed and pending lists, tick count, the running task | post, try to post, fetch, wait with a timeout, signal; tick, context switch, suspending and resuming | lwIP's api above, the handler beside |
| OS port, critical section and pools (`sys_arch.c`, `port.c`, `memp.c`) | BASEPRI, `uxCriticalNesting`, the free lists | `sys_arch_protect`, `memp_malloc`, `memp_free` | everybody who allocates, the handler included |
| Start-up (`main.c`, `startup.c`) | the `netif`, the tasks, the DHCP client | `main`, `lwip_init_task` | driver, lwIP, `httpd_task` |
| HTTP server (`app/httpd_task.c`) on the netconn layer (`api_lib.c`, `api_msg.c`) | server and client netconn, `conn->state`, mailboxes, `pending_err`, `op_completed` | wait for the interface, listen, accept, receive, write, close, delete | TCP's callbacks `accept_function`, `recv_tcp`, `err_tcp`, `poll_tcp` |
| SoC, EVK board, BAL, demos, tests | none over time | construction, constants, claims | |

What is hard here, and so what the properties are about (PROJECT.json lists each
hazard at its line):

* *interleaving*: `reclaim_tx_bds` runs in the task and in the handler over the
  same tail and descriptors; the MAC receives on another thread while the
  guest's CPU gives back descriptors; an item is posted between a reader's look
  at the queue and its sleep; the handler allocates between the two accesses
  that take an element off a free list; TCP gives up a connection between two
  steps of a call on it;
* *two copies of one thing*: `g_tx_bd_head` and `tx_curr`, `g_rx_bd_tail` and
  `rx_curr`; `xNextTaskUnblockTime` and the delayed list; `pcb` and `recvmbox`
  of a netconn and what the task has seen of them;
* *ordering*: length before R, length cleared before E, event cleared after the
  scan, pended ticks before the switch;
* *protocols*: ECR's lock, W1C events, MDIO completion polled by one context
  and cleared by another, FromISR functions called from tasks;
* *limits*: full and empty rings and mailboxes, `cTxLock` at its limit, the tick
  count overflowing, an empty pool, a full backlog, a heap that runs out.

What makes each component correct: transmit sends whole frames, once, in call
order, and ERR_OK only for those; receive hands over what arrived, once, in
order; the line follows EIR and EIMR; ECR changes only when unlocked; MDIO
returns the register asked for; a mailbox is a bounded FIFO whose readers are
woken when there is something and no earlier than asked when there is not; a
pool hands an element to one user at a time and loses none; the server
listens, serves every client, and gives every netconn back.

## 2. Modules

| Module | Models | Composes |
|---|---|---|
| `BoundedFifo` | abstract: what a mailbox, a semaphore and a ring promise | |
| `Allocator` | abstract: what a memory pool promises | |
| `EnetTx`, `EnetTx_proofs` | the transmit path, both sides and the handler | |
| `EnetRx`, `EnetRx_proofs` | the receive path, both sides, the handler and QEMU's net queue | refines `BoundedFifo` |
| `EnetBits` | the registers' bits, for the next two | |
| `EnetRegs`, `EnetRegs_proofs` | ECR, EIR, EIMR, MMFR, the line and the PHY, under any guest | |
| `EnetInit`, `EnetInit_proofs` | any guest, and after it `imxrt_enet_init` with MDIO | `R == INSTANCE EnetRegs`, refines it |
| `RtosQueue`, `MCRtosQueue`, `RtosQueue_proofs`, `RtosWait_proofs` | mailboxes and semaphores with the scheduling under them | refines `BoundedFifo` |
| `Pool`, `Pool_proofs` | a memory pool and the critical section around it | refines `Allocator` |
| `Httpd`, `Httpd_proofs` | `lwip_init_task`, `httpd_task`, netconns and TCP's callbacks | its netconns refine `Allocator` |

### EnetTx

State: the descriptors (`bd`: R, W, length), what each buffer holds (`buf`), the
device's `tx_curr`, `tdsr`, EIR.TXF and EIMR.TXF, the driver's `head`, `tail` and
`linkUp`, and for each of the two contexts (task, handler) a place in the code
and the locals of `reclaim_tx_bds`. Each access to shared memory is an action:
`OutputLength`, `OutputReady`, `OutputHead`, `WriteTdar` are the four stores at the end
of `imxrt_enet_output`; `ReclaimRead`, `ReclaimStore`, `ReclaimAdvance` are one
turn of the reclaim loop in either context. Two stores are joined where nothing
can tell: the status and the length in `ReclaimStore`, since the other context
writes the same two values there.

Assumed of the platform: one CPU; the handler preempts the task between any two
accesses and runs to completion (`May`); the device sends while the CPU is inside the TDAR
store, so the task and the handler stand still until `TdarDone`. ECR.ETHEREN plays no
role, as the device never looks at it.

`NvicEnabled` is a constant. `startup.c` has a vector for IRQ 114 but nothing in
the firmware writes NVIC_ISER, so `FALSE` is the firmware as it ships and `TRUE`
the firmware with the missing line added, which is what the handler was written
for. `MaxInits` is 1 for the firmware (`main.c:255`); more shows what calling
`imxrt_enet_init` again does, which the design allows (run `tx_shipped`). With two initialisations and the handler enabled the handler could
run inside the second one; that is not followed (`TxAssumption`).

Frames are numbered by call and stand for their bytes; a buffer holds a whole frame
or 0. L, TC and the bits the device never sets are left out.

### EnetRx

State as in `EnetTx` on the receive side, with the receive function of the MAC
in three steps (`ReceiveAccept` checks E, `ReceiveCopy` fills the buffer,
`ReceiveWrite` writes the descriptor) because the guest's memory accesses need
no lock and fall in between; its register accesses take QEMU's big lock and
wait (`Unlocked`). QEMU's net layer is not in the repository. It is modelled from
how the device uses it: a frame is offered if `can_receive` and receiving is not
disabled, and queued otherwise; a receive that returns 0 queues the frame and disables
receiving; a successful one offers the queue's head without asking
`can_receive`. The queue has no bound of its own here, as nothing in the repository
gives it one. `netif->input` may take a frame or refuse it.

The comments at the two places that return 0 (`imxrt1180_enet.c:631`, `:639`) say that
the frame is dropped; what the value does is in `ReceiveRefuse`: the frame stays in
front of all others and receiving is off until the device flushes the queue, which it
has no call to do. `ReceptionGoesOn` says what the comments promise: when a frame
arrives that could be received, it is offered. Run `rx_refused` shows that it is not,
and the theorem `RefusalIsFinal` that for every ring nothing gets into it any more.

`RdsrLatched` = FALSE is the program as it is: the device ignores the driver's
store to RDSR and nothing is ever received (run `rx_shipped`). With TRUE the ring
is used as both sides were written to use it, and the rest of the code becomes
reachable; so the properties of the ring and of the handler are checked there.

### EnetRegs and EnetInit

One action per register store with a side effect; every access holds QEMU's big
lock, so it is one step. A register is the set of its bits the properties tell
apart. PHY registers are grouped by what a write does to them. `PhyKeepsWrites` is
about each of these ways: a register that the PHY stores (BMCR, MICR and the like)
holds what was written to it until it is written again or reset; a reset through BMCR
restores all others; BMSR and the ID never change. Of ANAR it says only that nobody
changes it without a write to it or a reset, and so nothing about whether such a write
should be stored (see section 3).

`EnetInit` begins with any use of the registers whatever (`Earlier`, the guest of
`EnetRegs` with its events and machine resets), so that the driver finds the device in
any state another program may have left; then comes `imxrt_enet_init`, store by store,
and `ENET_IRQHandler` as one step that writes back the pending events. The
properties of `EnetRegs` are checked here, of both. The
thousand polls of ECR are one (`PollEcr`): the device never changes ECR by itself. The
hundred thousand polls of EIR are `PollBudget` ones, and a few suffice: MII either is up
at the first poll or has been taken and will not come back.

### RtosQueue

`sys_mbox_t` and `sys_sem_t` are FreeRTOS queues, so one module does for both;
`kind` says which, as a semaphore copies nothing. State: the queue's storage,
`pcWriteTo`, `pcReadFrom`, count, lock and waiting list; the kernel's delayed
lists (as the state and wake time of each task), tick count, overflow count,
`xNextTaskUnblockTime`, `xPendingReadyList`, `xPendedTicks`, `xYieldPending`; and
for each task its place in `xQueueReceive`.

A critical section is one step, because BASEPRI keeps out everything that calls
the kernel. Between two critical sections anything may come: the tick
(`SysTick`), PendSV (`SwitchContext`), a post from the handler
(`PostFromHandler`). `FetchSuspend` to `FetchYield` are the stations of a reader
that found nothing: suspend the scheduler, lock the queue, look whether the
time is over, look whether it is still empty, into the lists, unlock, resume,
make up for pended ticks. `Post` is what `sys_mbox_post` and `sys_sem_signal` do
from a task (`xQueueSendFromISR` and the request to switch that `portYIELD_FROM_ISR`
makes after it, `sys_arch.c:86-87`, as one step: a tick, a handler or a switch between the
two finds a ready list that is complete, and the request then comes late; `HighestRuns`
is about all times but that moment), `TryPost` is
`sys_mbox_trypost` (`xQueueSend`, which takes no notice of the lock).
configASSERT is not defined, so no assertion of the kernel stops anything.
`posted` and `fetched` are histories, `age` counts the ticks since a limited wait
began, as the only honest clock beside a tick count that overflows.

Tasks are created before `Init` with any priorities. `away` is a task that waits
for something else. `NumberOfTasks`, the limit of `cTxLock`, counts at least the
modelled ones.

### Pool

`memp_malloc` and `memp_free` access by access, inside `sys_arch_protect`, which
is itself modelled access by access (`RaiseBasepri`, `IncrementNesting`,
`DecrementNesting`, `ClearBasepri`), for any tasks and the handler. The link of
a free element lies in the bytes its user writes while it is allocated
(`Write`). `Maskable` says whether BASEPRI keeps `ENET_IRQHandler` out; nothing
sets the priority of IRQ 114, so as shipped it would not.

### Httpd

`lwip_init_task` with both ways to an address, and `httpd_task` down to each call
of lwIP's netconn layer: `netconn_new`, `bind`, `listen`, `accept`, `recv`,
`write`, `close`, `delete`, with the functions of `api_msg.c` they run. A call
that runs "in the core" is two steps, the look at the connection and what is done
with it (`Write` and `WriteFirst`, `Shutdown` and `ShutdownDone`, `Close` and
`CloseDone`; `HandleFin` is the look at `pcb` before a shutdown, outside of the core). A
write for which TCP has no room waits for `op_completed`, a semaphore whose
count is kept (`Signalled`, up to `SemMax`): one signal too many would be found by
a later wait. A close never waits: when there is no memory for the FIN,
`tcp_close_shutdown_fin` notes TF_CLOSEPEND and answers ERR_OK (`tcp.c:449-457`), so the
retries of `lwip_netconn_do_close_internal` (`api_msg.c:1025-1054`) are dead code and left out. TCP
itself is external: it calls
`accept_function`, `recv_tcp`, `err_tcp` (two steps: the mark and the message),
and `poll_tcp` or `sent_tcp` to end a write. `CoreLocked` says whether
`LOCK_TCPIP_CORE` locks: with TRUE the callbacks come from a thread and stay out
of the core steps; with FALSE, as in this firmware, they would run in the
handler, which may come between any two steps. `MayFail` lets the FreeRTOS heap
run out at every allocation. `UsesPool` says that the netconns go through
`Allocator`: `netconn_alloc` and `accept_function` are its `Grant`, `netconn_free`
its `Release`.

## 3. Runs

All bounds are constants named in the modules and given in the .cfg.

| Run | Constants | Shows |
|---|---|---|
| `tx_shipped` | ring 3, device ring 4, 7 calls, up to 3 initialisations, handler off | `AcceptedIsSent` (of one initialisation), `SentWholeOnce`, `RingNeverFull` |
| `tx_irq` | ring 3, device ring 3, 5 calls, handler on | `TypeOK`, `SentInOrderOnce`, `HeadMeetsDevice`, `DriverKeepsOff`, `OutputReturns`, `TxfServed` |
| `rx_ring` | ring 3, device ring 4, 6 frames, frame 5 oversized | `ConsumedAsReceived`, `RingWindow`, `AnnouncedIsConsumed`, `RingIsFifo` |
| `init_irq` | two ECR bits, three events, two PHY bits, any use before, 6 polls, handler on | `IrqLevel`, `EcrRelocks`, `PhyKeepsWrites`, `InitEnablesMac`, `ReadsAreRight`, `NoStaleCompletion`, `InitSucceeds` |
| `queue_mbox` | 2 tasks of any 2 priorities, length 2, tick count modulo 4 starting at 2, 3 ticks, 3 posts, timeouts 1, 2 and forever | `NoLostWakeup`, `WokenOnTime`, `DelayedAreAhead`, `HighestRuns`, `IsFifo`, `NoEarlyTimeout`, `WokenInOrder` |
| `queue_served` | 2 tasks of any 2 priorities, length 1, no ticks, 2 posts | `ReaderServed` |
| `pool_masked` | 2 tasks and the handler, 3 elements, handler maskable | `NoDoubleAllocation`, `MaskHolds`, `FreeListIntact`, `IsAllocator` |
| `http_serves` | 3 netconns, receive mailbox 1, accept mailbox 2, DHCP with 1 retry, core locked, heap may run out, 3 connections | `FreeIsDetached`, `NoneLeaked`, `AssertionsHold`, `NotStranded`, `SignalledOnce`, `UsesPool`, `AnnouncedListens`, `ClientServed` |

Why the bounds suffice. *Rings*: three descriptors have a first, a last with W
and one in between; the number of frames is at least twice the ring less one, so
every slot is reused and both indices wrap; a device ring longer than the
driver's exercises the wrap by W against the modulus; in `rx_ring` the sixth
frame meets a net layer that has stopped offering after the fifth; in
`tx_shipped` seven calls leave enough, after one or two initialisations with frames behind
them, for head to reach `tx_curr` and for the device to come round to what
waits. *Queue*: two
readers suffice for one to take what the other was woken for, two posts fall
into one reader's locked section, the third finds the mailbox full; three ticks
from 2 take the count over its overflow at 4 with a wait on either side of it,
and one or two of them fall while the scheduler is suspended. Tasks are
symmetric, as each has any of the priorities. Liveness is checked without
symmetry and without ticks, since a wait that times out is served by definition.
*Pool*: three elements allow a list with a first, a middle and a last and one
context in each of three places. *Server*: of three netconns one is the
listening one, so the pool runs out while the backlog holds one; a receive
mailbox of one is full with data when FIN or the error comes. The theorems of
section 5 remove the bounds where they hold.

CHECK_DEADLOCK is off where the number of frames, posts or connections is
bounded or the program ends: a system with nothing left to do stops.

Runs that must find a violation, each about a sentence of the repository:

| Run | Property | The sentence | What happens |
|---|---|---|---|
| `tx_irq_loss` | `AcceptedIsSent` | `imxrt_enet.c:430`, ERR_OK is success | handler enabled: the length is cleared between two stores of output, and the frame is lost |
| `rx_refused` | `ReceptionGoesOn` | `imxrt1180_enet.c:631`, "Drop oversized frame" | with RDSR latched: the frame is kept, and the next one is not offered although the ring is empty |
| `rx_shipped` | `FramesAreReceived` | `imxrt_enet.c:11`, the receive chain | RDSR is read-only in the device |
| `http_shipped` | `AnnouncedListens` | `main.c:342`, "HTTP Server started on port 80" | with the static address nothing brings the interface up, and `httpd_task` waits for it for ever |

`tx_irq_loss` needs the handler enabled and `rx_refused` a device that keeps RDSR: both
are latent in the programs as they ship and appear with the first step towards making
them work.

Other disagreements met while modelling. The first three can be seen by giving a
module other constants than the passing run does:

* `adr-007-phase2-extension.md:22` has `imxrt_enet_init` called several times. A
  second call sets `g_tx_bd_head` to 0 and leaves the device's `tx_curr`, although
  `imxrt1180_enet.c:223` has the soft reset restore the default state: `EnetTx`
  with `MaxInits` 2 violates `HeadMeetsDevice`, and output answers ERR_OK for a
  frame put where the device does not look. The damage is bounded, as `tx_shipped` shows:
  such a frame leaves late and out of order, or is thrown away by the next
  initialisation, but never in part and never twice, and what waits neither fills the
  ring nor is overwritten by later calls;
* with `Maskable` FALSE `Pool` violates `NoDoubleAllocation`: IRQ 114 has the
  reset priority 0, above `configMAX_SYSCALL_INTERRUPT_PRIORITY` (5 << 4,
  `FreeRTOSConfig.h:73`), so that the section which `sys_arch.c:247` describes as
  disabling all interrupts would not keep the handler out;
* with `CoreLocked` FALSE `Httpd` violates `AssertionsHold`: `main.c:263` calls
  `lwip_init` where lwIP's sequential API asks for `tcpip_init`, so that the
  core lock has no mutex, and `err_tcp` may free the pcb that
  `lwip_netconn_do_writemore` (`api_msg.c:937`) is about to use;
* with mailbox sizes of 0, which `opt.h` has by default and `lwipopts.h` does not
  change, `netconn_new` fails even once the interface is up;
* RXF is cleared after the scan (`imxrt_enet.c:610`), so that the event of a frame
  that comes between the two is lost, where the comment at `:588-589` says that
  clearing late loses none. The event of a later frame makes up for it if one
  comes; if the ring filled up in between, none can, as the MAC has no descriptor
  left and the driver is not told to free any. `AnnouncedIsConsumed` is
  about the frames that were in the ring when the handler was entered and not about
  this one;
* the handler clears MII before `enet_wait_mdio` sees it; the wait then runs into
  its budget, and the read is right all the same (`ReadsAreRight`), although
  `imxrt_enet.c:622` says the event was waited for already;
* the qtest's `imxrt1180-enet-test.c:289` reads back ECR bit 0, which is RESET and
  always reads 0;
* `reclaim_tx_bds` does not stop at `g_tx_bd_head` as `imxrt_enet.c:386` says, but
  goes once round an empty ring (harmless; `ReclaimFullCircle` models it);
* the RDAR store that "reactivates" reception (`imxrt_enet.c:569`) does nothing in
  the device;
* `sys_mbox_post` (`sys_arch.c:86`) drops the message when the mailbox is full,
  where lwIP's contract is to wait; `sys_arch_mbox_tryfetch` (`:153`) waits up to a
  tick where the contract is to return at once;
* `sys_now` (`:234`) computes tick * 1000 in 32 bits: after 4294967 ticks, 71.6
  minutes at 1 kHz, its result falls back to 0;
* `netif_add` is never called, so `netif->input` is null (`linkoutput` is set by
  `imxrt_enet_init` itself, `imxrt_enet.c:373`);
* `interfaces.md:122` calls ANAR writable, and the PHY ignores writes to it
  (`imxrt1180_dp83822_phy.c`, the default case; read off `PhyWritten`, no run is about it); reset
  values in the qtest and in `interfaces.md:119-124` differ from the code's;
  `architecture.md:345` names tasks that do not exist.

## 4. Fairness

`EnetTx!FairSpec`: weak fairness of the task while it is inside a call or inside
the device, and of the handler while its line is up. The CPU never stops
executing; FreeRTOS may run other tasks, but always comes back to one that is
ready, and the highest-priority ready work includes the handler. Nothing obliges
the stack to call output or init.

`EnetRx!FairSpec`: weak fairness of initialisation, of the MAC's receive once
started (QEMU's main loop runs a callback to its end) and of the handler. The
network need not send.

`EnetInit!FairSpec`: weak fairness of the initialising task. The handler gets
none: the initialisation has to end whether or not it runs.

`RtosQueue!FairSpec`: weak fairness of the context switch, which PendSV performs
as soon as nothing masks it; strong fairness, for each task, of being switched
to, of its next step in `xQueueReceive` and of leaving the other things it waits
for. Strong, because a handler or a task of the same priority may take the
processor away again and again, and time slicing gives it back. Nothing obliges
anyone to post.

`Httpd!FairSpec`: weak fairness of both tasks and of the second half of
`err_tcp`, which runs to its end; strong fairness of TCP's polling of a
connection whose write is waiting: the timer comes back every half
second, but the core may be locked each time it looks. Nothing obliges the
network to connect, send or answer a DHCP request.

## 5. Proofs

For every value of the constants (under the `ASSUME`s: sizes positive, the
device's ring not shorter than the driver's):

| Theorem | Property | Extra assumption |
|---|---|---|
| `EnetTx_proofs!TypeCorrect` | `TypeOK` | |
| `EnetTx_proofs!InOrderOnce` | `SentInOrderOnce` | one initialisation |
| `EnetTx_proofs!PositionsAgree` | `HeadMeetsDevice` | one initialisation |
| `EnetTx_proofs!OwnershipRespected` | `DriverKeepsOff` | one initialisation |
| `EnetTx_proofs!EachStepCounts` | `CallProgresses` | |
| `EnetTx_proofs!NeverFull` | `RingNeverFull` | |
| `EnetTx_proofs!WholeOnce` | `SentWholeOnce` | |
| `EnetTx_proofs!NeverAhead` | `HeadNotAhead` | |
| `EnetTx_proofs!OkMeansSent` | `AcceptedIsSent` | handler off |
| `EnetRx_proofs!TypeCorrect` | `TypeOK` | |
| `EnetRx_proofs!ReceivedInOrder` | `ConsumedAsReceived` | |
| `EnetRx_proofs!WindowConsistent` | `RingWindow` | |
| `EnetRx_proofs!RingRefinesFifo` | `RingIsFifo` | |
| `EnetRx_proofs!RefusalIsFinal` | | |
| `EnetRx_proofs!DeafWithoutRdsr` | | RDSR not latched |
| `EnetRegs_proofs!LineFollowsEvents` | `IrqLevel` | |
| `EnetRegs_proofs!PhyRemembers` | `PhyKeepsWrites` | |
| `EnetRegs_proofs!OneChangePerUnlock` | `EcrRelocks` | |
| `EnetInit_proofs!MacGetsEnabled` | `InitEnablesMac` | |
| `EnetInit_proofs!ReadsSucceed` | `ReadsAreRight` | |
| `EnetInit_proofs!NoneLeftOver` | `NoStaleCompletion` | |
| `EnetInit_proofs!DriverIsAGuest` | refines `EnetRegs!Spec` | |
| `EnetInit_proofs!LineIsLevel` | `IrqLevel` | |
| `EnetInit_proofs!EcrStaysLocked` | `EcrRelocks` | |
| `EnetInit_proofs!PhyRemembers` | `PhyKeepsWrites` | |
| `RtosQueue_proofs!QueueRefinesFifo` | `IsFifo` | |
| `RtosWait_proofs!TypeCorrect` | `TypeOK` | |
| `RtosWait_proofs!NoWakeupLost` | `NoLostWakeup` | |
| `RtosWait_proofs!ReadyRuns` | `HighestRuns` | |
| `RtosWait_proofs!DelayedAhead` | `DelayedAreAhead` | |
| `RtosWait_proofs!NeverEarly` | `NoEarlyTimeout` | |
| `RtosWait_proofs!WokenInTime` | `WokenOnTime` | `MaxTicks < TickMod` |
| `RtosWait_proofs!HighestWaitsFirst` | `HighestFirst` | |
| `RtosWait_proofs!NobodyOvertakes` | `WokenInOrder` | |
| `Pool_proofs!SectionIsExclusive` | `MaskHolds` | handler maskable |
| `Pool_proofs!NoElementTwice` | `NoDoubleAllocation` | handler maskable |
| `Pool_proofs!LinksIntact` | `FreeListIntact` | handler maskable |
| `Pool_proofs!NoneGoesMissing` | `NoneLost` | handler maskable |
| `Pool_proofs!ImplementsAllocator` | `IsAllocator` | handler maskable |
| `Httpd_proofs!EveryOneOwned` | `NoneLeaked` | |
| `Httpd_proofs!FreeOnesUnused` | `FreeIsDetached` | core locked |
| `Httpd_proofs!ConnectionStays` | `AssertionsHold` | core locked |
| `Httpd_proofs!NeverStranded` | `NotStranded` | |
| `Httpd_proofs!EndsOnce` | `SignalledOnce` | core locked |
| `Httpd_proofs!NetconnsPooled` | `UsesPool` | |
| `Httpd_proofs!NeverListens` | | static address, or a mailbox size of 0 |

`TypeOK` of every module but `EnetTx`, `CallProgresses`, `HeadNotAhead`,
`HighestFirst` and `NoneLost` are theorems that no run of the list checks besides.
Those of `Httpd` without an extra assumption hold whether or not the core is
locked, where `http_serves` has it locked.

*Transmit.* `TypeOK` is not inductive: that `g_tx_bd_tail++` stays on the ring
depends on W being on exactly the last descriptor, in memory and in the status
each context read earlier (`WrapInv`), and on the handler, having preempted the
task inside its scan, leaving tail where the task's scan had it. The latter is
`TailInv`: the handler's scan, which meets no R while the task is scanning, goes
exactly once round, and while it is on its way tail is its count further round the
ring (`Forward`). `OwnInv` says which one descriptor the device owns, if any, at
each place of the task, and that `head` and `tx_curr` agree up to the one step
between them; `FrameInv` what the buffer and length of the frame in progress hold;
`WireInv` that everything on the wire is older than the call in progress.
`AcceptInv`, only with the handler off, adds that the length set by output is
still there when the device reads it. `EachStepCounts` is the half of
`OutputReturns` that needs no fairness: `TaskLeft` and `HandlerLeft` are the steps
that the call and the handler have left, and every step, whoever takes it, makes
the pair smaller. The handler's run is paid for by the frame that raised TXF, so
it cannot come again and again.

*Initialised again.* With more than one initialisation positions no longer agree,
and `AgainInv` takes the place of `OwnInv` and `FrameInv`. There is a slot `k`
such that the descriptors with R are exactly those below `k`, but for the frame in
progress (`WaitInv`): as long as head is `k` it fills slots below `tx_curr`, where
nobody looks; when it has caught up, it goes along with the device and `k` stays.
When the device then passes the last descriptor, it finds all that waits and sends
it in one go (`Flushing`), in the TDAR store of a single call, and `k` is 0 again
when that call returns. `PendingInv` says that what waits is whole, different and
not yet sent, `LaterInv` that the call in progress is younger than all of it. The
handler is off here; with it on there is one initialisation, and the theorems
follow from the invariant of that case.

*Receive.* The descriptors the CPU owns are the `Unread` ones from `Oldest` on
(`RingInv`), the device's position is just behind them, and each of them holds the
corresponding entry of `received` (`ContentInv`). A receive adds one at the far
end, where E was set when the MAC looked and stays set, since the driver only
gives back descriptors on its own side (`PcInv` records what the MAC saw).
Positions are handled by `Distance`, the number of steps round the ring;
`ForwardIsModulo` carries the result over to the modulus of `RingWindow`. The
refinement maps the two histories; `MacHasRoom` is what makes the MAC's store a
`Put`. `RefusalIsFinal` follows
from `QuietInv`: receiving is off only while the MAC holds no frame, and with it off
nothing starts the MAC again, so what the ring has received stays as it is.
`DeafWithoutRdsr` is the finding of `rx_shipped` for every ring and every number
of frames: without the RDSR store nothing ever leaves the net layer's queue.

*Registers and initialisation.* For the line and the lock the types are invariant
enough. `PhyRemembers` needs `PhyInv`: what the last transaction of MMFR stored or
reset is still so (a step that leaves MMFR as it is must leave that too), and the
read-only registers have their values from reset, so that a refreshed BMSR and a reset
of the PHY leave them alone. The invariant of `EnetInit` adds, at each place of the
initialisation, which transaction MMFR holds and whether MII may be up; of what
happened before the driver it knows that the link bit is set. `DriverIsAGuest`
shows that the driver, its handler and the network do nothing that `EnetRegs` does
not allow, and through it the three theorems of `EnetRegs_proofs` (instance `G`)
carry over to the driver: `LineIsLevel`, `EcrStaysLocked`, `PhyRemembers`.

*Queue.* `QInv` relates the storage to the histories: the slots from the oldest on
hold the items posted and not yet fetched (`StoreInv`). Nothing of the scheduler
enters into it: `Effects` shows that a step leaves the queue alone, accepts an
item or hands one out, and the latter two are `Put` and `Take`.

*Waiting and waking.* `IInv` of `RtosWait_proofs` builds on `QInv`. `HoldInv` says
that only the running task can have suspended the scheduler or locked the queue,
so that ticks and wake-ups are put off (`pendedTicks`, `pendReady`) only while it
does. `SleepInv` says at which places a sleeper can be, `ListInv` that the waiting
list holds sleepers, each once, and none that `pendReady` has too. `NoLostWakeup`
becomes inductive with `PostInv`: a reader that has seen the locked queue empty
enters the list with fewer items there than the lock has counted. The lemmas
`WakeShape` and `PostShape` say what waking up to `txLock - 1` readers does to the
list. `HighestRuns` follows from `RankInv`: as long as a ready task outranks the
running one, a switch is pending, or will be when the scheduler is resumed. For
the timeouts, `Clock` is the number of ticks that the tick count and its overflows
stand for and `Begun` that of a task's last `xTimeOut`. `ClockInv` bounds the age
of a wait from below by what of the timeout is used up, so `xTaskCheckForTimeOut`
never finds the time over too early, even where it takes more than a round of the
tick count for one. `ExactInv` is the same with equality and with the wake times.
It holds only while the tick count has not come all the way round, and the
assumption is needed: with a tick count modulo 4 starting at 3, more ticks than
that and a timeout of 2, TLC finds a reader that, kept from running for five ticks
after `vTaskInternalSetTimeOutState`, takes them for one and goes to sleep when
its time has long passed.

*Order of waking.* A step leaves the waiting list as it is, takes a set of readers
out of it (`Thinned`: the first few when the queue is posted to or unlocked, those
whose time is up at a tick) or puts one in (`Entered`: behind all of its priority
and above, before all others). `ListMoves` shows that there is no fourth way;
`Prefix` and `FirstGo` that what a post or an unlock takes are the foremost;
`EnterShape` that the list stays in order, which needs `HighestFirst` itself: only
in an ordered list is the number of those at least as urgent also the place of
insertion.

*Pool.* The inductive invariant `PInv` has the critical section (`MaskInv`), the
free list with the one link or head that is on its way (`ListInv`), who holds
which element (`OwnInv`) and the arguments of the calls (`CallInv`). The store to
`tab` is the abstract `Grant` or `Release`.

*Server.* The invariant comes in two layers. `OInv` holds with or without the core
lock: which of server and client there is at each place of the task (`PlaceInv`),
that each netconn in use has one owner, the task or the accept mailbox
(`OwnerInv`), and which netconns have mailboxes (`MailInv`). It gives
`EveryOneOwned` and, step by step, `NetconnsPooled`. `WaitInv` adds, also without
the lock, that a task waiting on a netconn whose connection is gone finds a
message or `op_completed` up, or will when `err_tcp` has run its other half
(`NeverStranded`). `HInv` needs the lock: how state, `pcb` and mailboxes of a
netconn constrain each other (`ConnInv`), what the task may rely on at each step
(`CallInv`) and what `err_tcp` may between its halves (`CbInv`). Without it a
callback falls between `Write` and `WriteFirst`, and the first to fail is that the
connection is still open. `HInv` also knows the count of `op_completed`: it is up by one
exactly from the callback that ends a write until the task has seen it, so it
is 0 wherever else, and `EndsOnce` follows. `NeverListens` is the finding of `http_shipped` for all
other constants, and for the mailbox sizes of 0 as well.

The inductive invariants were checked by TLC on the small instances before they
were proved.

Only model-checked: the liveness properties, as fairness is out of the prover's
reach: `OutputReturns`, `TxfServed`, `AnnouncedIsConsumed`, `InitSucceeds`,
`ReaderServed`, `AnnouncedListens`, `ClientServed`. Every other property of a
passing run is a theorem. What `rx_shipped`, `rx_refused` and `http_shipped` find
follows from theorems too (`DeafWithoutRdsr`, `RefusalIsFinal`, `NeverListens`); what `tx_irq_loss` finds is TLC's alone.

## 6. What is left

* The FreeRTOS mutex behind `sys_mutex_t`, with its priority inheritance, and the
  deletion of queues, once the firmware creates a mutex or deletes a queue.
* When the start-up calls `tcpip_init` and `netif_add`: the tcpip thread between
  `EnetRx` and `Httpd`, with its mailbox (an instance of `RtosQueue`).

## 7. Not modelled

Registers that only keep a value; IEEE 1588 registers; QOM realisation,
properties and migration (the migration description leaves out the PHY, which no
code here migrates); SoC and board construction; BAL constants; demos and tests;
request parsing of the HTTP server, which neither waits nor changes anything
shared. DMA errors, CRC and truncation bits do not occur: the device never sets
them.

By far the most lines of the repository are vendored FreeRTOS, lwIP and mbedTLS
and the files of QEMU around the modelled devices. Of the first two the modules
cover what the firmware's tasks and handler run through and what the properties
depend on; TCP, IP, DHCP, ARP and all of mbedTLS, which no code of the firmware
calls, are somebody else's programs, used here unchanged.
