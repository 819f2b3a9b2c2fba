------------------------------ MODULE EnetInit ------------------------------
(***************************************************************************)
(* imxrt_enet_init (firmware/drivers/imxrt_enet.c) driving the registers   *)
(* of EnetRegs: the unlock, reset and enable sequence of ECR, the          *)
(* interrupt set-up, and the MDIO reads of enet_mdio_read, each of which   *)
(* waits for EIR.MII in enet_wait_mdio.  ENET_IRQHandler takes the same    *)
(* event bit when the NVIC lets it, between any two accesses of the task.  *)
(***************************************************************************)
EXTENDS EnetBits, Naturals, Sequences

CONSTANTS
  PollBudget,             \* enet_wait_mdio polls EIR this often (100000)
  NvicEnabled             \* is IRQ 114 enabled in the NVIC; no code does it

ASSUME InitAssumption ==
  /\ "ETHEREN" \in EcrBits
  /\ {"RXF", "TXF"} \subseteq Events
  /\ PollBudget \in Nat \ {0}
  /\ NvicEnabled \in BOOLEAN

VARIABLES
  ecr, magic, eir, eimr, irq, mmfr, phy,  \* the device, see EnetRegs
  pc,       \* where imxrt_enet_init is
  ecrRead,  \* its local: ecr
  polls,    \* enet_wait_mdio: polls left
  reading,  \* which MDIO read is next
  results,  \* history: what enet_mdio_read returned, read by read
  linkUp    \* g_link_up

R == INSTANCE EnetRegs

deviceVars == <<ecr, magic, eir, eimr, irq, mmfr, phy>>
driverVars == <<pc, ecrRead, polls, reading, results, linkUp>>
vars == <<deviceVars, driverVars>>

\* The registers read at the end of the initialisation: the two words of the
\* PHY ID, and BMSR by imxrt_enet_get_link_status.
Reads == <<"PHYIDR1", "PHYIDR2", "BMSR">>

TypeOK ==
  /\ R!TypeOK
  /\ pc \in {"unlock", "reset", "pollEcr", "clearEir", "mask", "unlockAgain",
             "readEcr", "enable", "mmfr", "poll", "ack", "fetch", "link",
             "done", "failed"}
  /\ ecrRead \in SUBSET EcrBits
  /\ polls \in 0 .. PollBudget
  /\ reading \in 1 .. Len(Reads) + 1
  /\ results \in Seq(R!Word)
  /\ linkUp \in BOOLEAN

Init ==
  /\ R!Init
  /\ pc = "unlock" /\ ecrRead = {} /\ polls = 0 /\ reading = 1
  /\ results = <<>> /\ linkUp = FALSE

-----------------------------------------------------------------------------
(* imxrt_enet_init.                                                        *)

Goto(from, to) == pc = from /\ pc' = to

Unlock ==
  /\ Goto("unlock", "reset")
  /\ R!WriteEcrMagic(TRUE)
  /\ UNCHANGED <<ecrRead, polls, reading, results, linkUp>>

Reset ==
  /\ Goto("reset", "pollEcr")
  /\ R!WriteEcr({"RESET"})
  /\ UNCHANGED <<ecrRead, polls, reading, results, linkUp>>

\* A thousand polls at most: the first decides, as a device that shows RESET
\* once shows it until it is written again.
PollEcr ==
  /\ pc = "pollEcr"
  /\ pc' = IF "RESET" \in ecr THEN "failed" ELSE "clearEir"
  /\ ecrRead' = ecr
  /\ UNCHANGED <<deviceVars, polls, reading, results, linkUp>>

\* The MAC address, the rings, MRBR, RCR, TCR and MSCR are stored before.
ClearEir ==
  /\ Goto("clearEir", "mask")
  /\ R!WriteEir(Events)
  /\ UNCHANGED <<ecrRead, polls, reading, results, linkUp>>

Mask ==
  /\ Goto("mask", "unlockAgain")
  /\ R!WriteEimr({"RXF", "TXF", "MII"})
  /\ UNCHANGED <<ecrRead, polls, reading, results, linkUp>>

\* Mutant: the second unlocking is forgotten.
UnlockAgainForgotten ==
  /\ Goto("unlockAgain", "readEcr")
  /\ UNCHANGED <<deviceVars, ecrRead, polls, reading, results, linkUp>>

UnlockAgain ==
  /\ Goto("unlockAgain", "readEcr")
  /\ R!WriteEcrMagic(TRUE)
  /\ UNCHANGED <<ecrRead, polls, reading, results, linkUp>>

ReadEcr ==
  /\ Goto("readEcr", "enable")
  /\ ecrRead' = ecr
  /\ UNCHANGED <<deviceVars, polls, reading, results, linkUp>>

\* RDAR is stored next.
Enable ==
  /\ Goto("enable", "mmfr")
  /\ R!WriteEcr(ecrRead \cup {"ETHEREN"})
  /\ UNCHANGED <<ecrRead, polls, reading, results, linkUp>>

-----------------------------------------------------------------------------
(* enet_mdio_read and enet_wait_mdio.                                      *)

StartRead ==
  /\ Goto("mmfr", "poll")
  /\ R!WriteMmfr("read", Reads[reading], {})
  /\ polls' = PollBudget
  /\ UNCHANGED <<ecrRead, reading, results, linkUp>>

\* Mutant: the polls are not counted.
PollUncounted ==
  /\ pc = "poll"
  /\ polls > 0
  /\ pc' = IF "MII" \in eir THEN "ack" ELSE "poll"
  /\ UNCHANGED <<deviceVars, ecrRead, polls, reading, results, linkUp>>

\* One turn of the loop reads EIR.
Poll ==
  /\ pc = "poll"
  /\ polls > 0
  /\ pc' = IF "MII" \in eir THEN "ack" ELSE "poll"
  /\ polls' = polls - 1
  /\ UNCHANGED <<deviceVars, ecrRead, reading, results, linkUp>>

\* Mutant: MII is not written back.
AckForgets ==
  /\ Goto("ack", "fetch")
  /\ UNCHANGED <<deviceVars, ecrRead, polls, reading, results, linkUp>>

Ack ==
  /\ Goto("ack", "fetch")
  /\ R!WriteEir({"MII"})
  /\ UNCHANGED <<ecrRead, polls, reading, results, linkUp>>

\* The wait returns -1, which enet_mdio_read does not look at.
TimeOut ==
  /\ Goto("poll", "fetch")
  /\ polls = 0
  /\ UNCHANGED <<deviceVars, ecrRead, polls, reading, results, linkUp>>

Fetch ==
  /\ pc = "fetch"
  /\ results' = Append(results, mmfr.data)
  /\ reading' = reading + 1
  /\ pc' = IF reading < Len(Reads) THEN "mmfr" ELSE "link"
  /\ UNCHANGED <<deviceVars, ecrRead, polls, linkUp>>

Link ==
  /\ Goto("link", "done")
  /\ linkUp' = ("b2" \in results[Len(Reads)])
  /\ UNCHANGED <<deviceVars, ecrRead, polls, reading, results>>

-----------------------------------------------------------------------------
(* The rest of the system.                                                 *)

\* ENET_IRQHandler as a whole: it writes back the events it finds unmasked.
Isr ==
  /\ NvicEnabled /\ irq
  /\ R!WriteEir(eir \cap eimr)
  /\ UNCHANGED driverVars

\* Before the driver's first access the MAC may have been used in any way.
Earlier == pc = "unlock" /\ R!Next /\ UNCHANGED driverVars

\* The network: a frame is received.
FrameReceived == R!Raise("RXF") /\ UNCHANGED driverVars

Task ==
  \/ Unlock \/ Reset \/ PollEcr \/ ClearEir \/ Mask
  \/ UnlockAgain \/ ReadEcr \/ Enable
  \/ StartRead \/ Poll \/ Ack \/ TimeOut \/ Fetch \/ Link

Next == Task \/ Isr \/ Earlier \/ FrameReceived

Spec == Init /\ [][Next]_vars

\* The task gets the CPU again and again: interrupts do not starve it.
FairSpec == Spec /\ WF_vars(Task)

-----------------------------------------------------------------------------
(* Properties.                                                             *)

\* What EnetRegs says of any guest, said of the arbitrary one before the
\* driver (Earlier) and of the driver and its handler after it: the line is
\* the level of EIR and EIMR,
IrqLevel == R!IrqLevel

\* each change of ECR uses up an unlocking of its own,
EcrRelocks == R!EcrRelocks

\* and the PHY's registers hold what was written to them until they are
\* written again or reset.
PhyKeepsWrites == R!PhyKeepsWrites

\* A finished initialisation leaves the MAC enabled and the three events
\* unmasked: each of the two stores to the locked ECR was unlocked for it.
InitEnablesMac ==
  pc = "done" => /\ "ETHEREN" \in ecr
                 /\ eimr = {"RXF", "TXF", "MII"}
                 /\ linkUp

\* What enet_mdio_read returns is the PHY register it was asked for, even if
\* the wait timed out because the handler took the event: the transaction is
\* over when the store to MMFR is.
ReadsAreRight ==
  \A i \in 1 .. Len(results) : results[i] = phy[Reads[i]]

\* No completion is left over for the next transaction's wait to mistake for
\* its own, whoever of the task and the handler has cleared it.
NoStaleCompletion ==
  pc = "mmfr" => "MII" \notin eir

\* The initialisation ends, and it succeeds.
InitSucceeds == <>(pc = "done")
=============================================================================
