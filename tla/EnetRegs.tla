------------------------------ MODULE EnetRegs ------------------------------
(***************************************************************************)
(* The register file of the emulated ENET MAC (hw/net/imxrt1180_enet.c) as *)
(* the guest sees it: the locked control register ECR, the event registers *)
(* EIR and EIMR with the interrupt line they drive, and MMFR with the      *)
(* DP83822 PHY behind it (hw/net/imxrt1180_dp83822_phy.c).                 *)
(*                                                                         *)
(* Every access runs under QEMU's big lock, so each is one step.  The      *)
(* guest here is arbitrary; EnetInit puts the firmware's driver in its     *)
(* place.  Registers are sets of the bits the properties tell apart.       *)
(***************************************************************************)
EXTENDS EnetBits

\* A 16-bit word, as the set of its bits.
Word == SUBSET Bits

\* PHY registers, one for each way a write is treated: BMCR can reset, BMSR
\* is read-only, MICR (like RCSR, PHYCR and LEDCR) is stored, ANAR and the ID
\* (like every other register) fall to the default case.
PhyReg == {"BMCR", "BMSR", "MICR", "ANAR", "PHYIDR1", "PHYIDR2"}

\* OP field of MMFR: 01 writes, 10 reads, 00 and 11 do nothing.
Op == {"none", "write", "read"}

Mmfr == [op : Op, ra : PhyReg, data : Word]

VARIABLES
  ecr,      \* ECR
  magic,    \* ECR_MAGIC holds 0x5A5A5A5A
  eir,      \* EIR
  eimr,     \* EIMR
  irq,      \* the level last given to qemu_set_irq
  mmfr,     \* MMFR
  phy       \* the PHY's register file

vars == <<ecr, magic, eir, eimr, irq, mmfr, phy>>

TypeOK ==
  /\ ecr \in SUBSET EcrBits
  /\ magic \in BOOLEAN
  /\ eir \in SUBSET Events
  /\ eimr \in SUBSET Events
  /\ irq \in BOOLEAN
  /\ mmfr \in Mmfr
  /\ phy \in [PhyReg -> Word]

\* imxrt1180_dp83822_phy_reset, as far as bits 15 (reset) and 2 (link) go:
\* BMSR is 0x7825, PHYIDR2 0xA221, and no other register has either bit.
PhyDefault ==
  [r \in PhyReg |->
     CASE r = "BMSR" -> {"b2"} [] r = "PHYIDR2" -> {"b15"} [] OTHER -> {}]

\* imxrt1180_enet_reset, which runs before the guest does.
Init ==
  /\ ecr = {} /\ magic = FALSE
  /\ eir = {} /\ eimr = {} /\ irq = FALSE
  /\ mmfr = [op |-> "none", ra |-> "BMCR", data |-> {}]
  /\ phy = PhyDefault

-----------------------------------------------------------------------------
\* imxrt1180_enet_update_irq, run on the new values of EIR and EIMR.
UpdateIrq == irq' = (eir' \cap eimr' # {})

\* The whole machine is reset: imxrt1180_enet_reset.
SystemReset ==
  /\ ecr' = {} /\ magic' = FALSE
  /\ eir' = {} /\ eimr' = {}
  /\ mmfr' = [op |-> "none", ra |-> "BMCR", data |-> {}]
  /\ phy' = PhyDefault
  /\ UpdateIrq

-----------------------------------------------------------------------------
(* ECR: written only when unlocked, and locked again by the write.         *)

\* Mutant: the lock is not closed again.
WriteEcrStaysOpen(v) ==
  /\ IF magic
     THEN ecr' = v \ {"RESET"} /\ magic' = magic
     ELSE UNCHANGED <<ecr, magic>>
  /\ UNCHANGED <<eir, eimr, irq, mmfr, phy>>

\* RESET reads as zero; that is all a soft reset does.
WriteEcr(v) ==
  /\ IF magic
     THEN ecr' = v \ {"RESET"} /\ magic' = FALSE
     ELSE UNCHANGED <<ecr, magic>>
  /\ UNCHANGED <<eir, eimr, irq, mmfr, phy>>

\* unlocking: the value is 0x5A5A5A5A.
WriteEcrMagic(unlocking) ==
  /\ magic' = unlocking
  /\ UNCHANGED <<ecr, eir, eimr, irq, mmfr, phy>>

-----------------------------------------------------------------------------
(* EIR and EIMR.                                                           *)

\* Writing ones clears them.
WriteEir(v) ==
  /\ eir' = eir \ v
  /\ UNCHANGED <<ecr, magic, eimr, mmfr, phy>>
  /\ UpdateIrq

\* Mutant: the line is left as it was.
WriteEimrNoUpdate(v) ==
  /\ eimr' = v
  /\ UNCHANGED <<ecr, magic, eir, irq, mmfr, phy>>

WriteEimr(v) ==
  /\ eimr' = v
  /\ UNCHANGED <<ecr, magic, eir, mmfr, phy>>
  /\ UpdateIrq

\* The transmit and receive paths report a frame.
Raise(e) ==
  /\ eir' = eir \cup {e}
  /\ UNCHANGED <<ecr, magic, eimr, mmfr, phy>>
  /\ UpdateIrq

-----------------------------------------------------------------------------
(* MMFR: a store to it is the whole MDIO transaction.                      *)

\* imxrt1180_dp83822_phy_mdio_read first brings the link bit of BMSR up to
\* date.  link_up is set by the reset and never cleared.
PhyRefreshed == [phy EXCEPT !["BMSR"] = @ \cup {"b2"}]

\* Mutant: a PHY reset restores no other register.
PhyWrittenKeepsRest(r, v) ==
  CASE r = "BMCR" -> [phy EXCEPT !["BMCR"] = v \ {"b15"}]
    [] r = "MICR" -> [phy EXCEPT !["MICR"] = v]
    [] OTHER -> phy

\* imxrt1180_dp83822_phy_mdio_write.
PhyWritten(r, v) ==
  CASE r = "BMCR" /\ "b15" \in v ->
         [PhyDefault EXCEPT !["BMCR"] = v \ {"b15"}]
    [] r = "BMCR" /\ "b15" \notin v -> [phy EXCEPT !["BMCR"] = v]
    [] r = "MICR" -> [phy EXCEPT !["MICR"] = v]
    [] OTHER -> phy

\* Mutant: the register read is not brought into the data field.
WriteMmfrKeepsData(op, r, v) ==
  /\ phy' = CASE op = "write" -> PhyWritten(r, v)
              [] op = "read"  -> PhyRefreshed
              [] OTHER        -> phy
  /\ mmfr' = [op |-> op, ra |-> r, data |-> v]
  /\ eir' = IF op = "none" THEN eir ELSE eir \cup {"MII"}
  /\ UNCHANGED <<ecr, magic, eimr>>
  /\ IF op = "none" THEN irq' = irq ELSE UpdateIrq

\* The PHY address in the store is not looked at.
WriteMmfr(op, r, v) ==
  /\ phy' = CASE op = "write" -> PhyWritten(r, v)
              [] op = "read"  -> PhyRefreshed
              [] OTHER        -> phy
  /\ mmfr' = [op |-> op, ra |-> r,
              data |-> IF op = "read" THEN PhyRefreshed[r] ELSE v]
  /\ eir' = IF op = "none" THEN eir ELSE eir \cup {"MII"}
  /\ UNCHANGED <<ecr, magic, eimr>>
  /\ IF op = "none" THEN irq' = irq ELSE UpdateIrq

-----------------------------------------------------------------------------
Next ==
  \/ SystemReset
  \/ \E v \in SUBSET EcrBits : WriteEcr(v)
  \/ \E b \in BOOLEAN : WriteEcrMagic(b)
  \/ \E v \in SUBSET Events : WriteEir(v) \/ WriteEimr(v)
  \/ \E e \in Events \ {"MII"} : Raise(e)
  \/ \E op \in Op, r \in PhyReg, v \in Word : WriteMmfr(op, r, v)

Spec == Init /\ [][Next]_vars

-----------------------------------------------------------------------------
(* Properties.                                                             *)

\* "irq = (EIR & EIMR) != 0" (docs/interfaces.md:75) after every access: each
\* of the six paths that change either register updates the line.
IrqLevel == irq = (eir \cap eimr # {})

\* "After a write, ECR should re-lock" (imxrt1180-enet-test.c:293): each
\* change of ECR uses up an unlocking of its own.
EcrRelocks == [][ecr' # ecr => (magic \/ ecr' = {}) /\ ~magic']_vars

\* A transaction that resets the PHY.
ResetsPhy(m) == m.op = "write" /\ m.ra = "BMCR" /\ "b15" \in m.data

\* The registers a write is stored in, and what they hold after it: the reset
\* bit clears itself.
Stored == {"BMCR", "MICR"}
Held(r, v) == IF r = "BMCR" THEN v \ {"b15"} ELSE v

\* A change of register r is a reset's, or a write's that is stored in r.
ChangedBy(r) ==
  \/ mmfr'.op = "none" /\ phy' = PhyDefault
  \/ ResetsPhy(mmfr')
  \/ mmfr'.op = "write" /\ r = mmfr'.ra /\ r \in Stored

WritesKept ==
  /\ mmfr'.op = "write" /\ mmfr'.ra \in Stored =>
       phy'[mmfr'.ra] = Held(mmfr'.ra, mmfr'.data)
  /\ ResetsPhy(mmfr') =>
       \A r \in PhyReg \ {"BMCR"} : phy'[r] = PhyDefault[r]
  /\ \A r \in PhyReg : phy'[r] # phy[r] => ChangedBy(r)
  /\ \A r \in {"BMSR", "PHYIDR1", "PHYIDR2"} : phy'[r] = phy[r]

\* A stored register holds what was last written to it, a PHY reset leaves all
\* others as the machine's does, nothing else changes a register, and the
\* read-only ones (docs/interfaces.md:119-121) never change.
PhyKeepsWrites == [][WritesKept]_vars
=============================================================================
