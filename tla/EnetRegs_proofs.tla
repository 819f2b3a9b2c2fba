--------------------------- MODULE EnetRegs_proofs ---------------------------
(***************************************************************************)
(* Proofs about the register file, for any set of ECR bits, event bits and *)
(* PHY register bits and for any guest.                                    *)
(***************************************************************************)
EXTENDS EnetRegs, TLAPS

\* What the guest reads in the PHY's read-only registers.
ReadOnly == {"BMSR", "PHYIDR1", "PHYIDR2"}

\* The last transaction is still what the PHY's registers show: the one
\* written holds the data, and all others are as after a reset if it was one.
PhyInv ==
  /\ mmfr.op = "write" /\ mmfr.ra \in Stored =>
       phy[mmfr.ra] = Held(mmfr.ra, mmfr.data)
  /\ ResetsPhy(mmfr) =>
       \A r \in PhyReg \ {"BMCR"} : phy[r] = PhyDefault[r]
  /\ \A r \in ReadOnly : phy[r] = PhyDefault[r]

\* Together with the types, this and the line's level are inductive.
RegsInv == TypeOK /\ IrqLevel /\ PhyInv

\* Every register after a machine reset.
LEMMA DefaultType ==
  /\ PhyDefault \in [PhyReg -> Word]
  /\ PhyDefault["BMSR"] = {"b2"}
BY RegsAssumption DEF PhyDefault, PhyReg, Word

\* The refresh of BMSR finds the link bit set.
LEMMA RefreshNothing ==
  ASSUME TypeOK, PhyInv
  PROVE  PhyRefreshed = phy
BY DefaultType DEF PhyRefreshed, PhyInv, ReadOnly, TypeOK, PhyReg

\* What a write does to each register.
LEMMA Written ==
  ASSUME TypeOK, PhyInv, NEW r \in PhyReg, NEW v \in Word
  PROVE  /\ PhyWritten(r, v) \in [PhyReg -> Word]
         /\ r \in Stored => PhyWritten(r, v)[r] = Held(r, v)
         /\ r \notin Stored => PhyWritten(r, v) = phy
         /\ r = "BMCR" /\ "b15" \in v =>
              \A s \in PhyReg \ {r} : PhyWritten(r, v)[s] = PhyDefault[s]
         /\ ~(r = "BMCR" /\ "b15" \in v) =>
              \A s \in PhyReg \ {r} : PhyWritten(r, v)[s] = phy[s]
         /\ \A s \in ReadOnly : PhyWritten(r, v)[s] = PhyDefault[s]
<1>p. phy \in [PhyReg -> Word] /\ \A s \in ReadOnly : phy[s] = PhyDefault[s]
  BY DEF TypeOK, PhyInv
<1>r. ReadOnly \subseteq PhyReg \ Stored
  BY DEF ReadOnly, PhyReg, Stored
<1>1. CASE r = "BMCR" /\ "b15" \in v
  <2>1. PhyWritten(r, v) = [PhyDefault EXCEPT !["BMCR"] = v \ {"b15"}]
    BY <1>1 DEF PhyWritten
  <2>2. v \ {"b15"} \in Word
    BY DEF Word
  <2> QED BY <1>1, <1>r, <2>1, <2>2, DefaultType DEF Stored, Held, ReadOnly
<1>2. CASE r = "BMCR" /\ "b15" \notin v
  <2>1. PhyWritten(r, v) = [phy EXCEPT !["BMCR"] = v]
    BY <1>2 DEF PhyWritten
  <2> QED BY <1>2, <1>p, <1>r, <2>1 DEF Stored, Held, ReadOnly
<1>3. CASE r = "MICR"
  <2>1. PhyWritten(r, v) = [phy EXCEPT !["MICR"] = v]
    BY <1>3 DEF PhyWritten
  <2> QED BY <1>3, <1>p, <1>r, <2>1 DEF Stored, Held, ReadOnly
<1>4. CASE r \notin {"BMCR", "MICR"}
  <2>1. PhyWritten(r, v) = phy
    BY <1>4 DEF PhyWritten
  <2> QED BY <1>4, <1>p, <1>r, <2>1 DEF Stored
<1> QED BY <1>1, <1>2, <1>3, <1>4

LEMMA InitRegsInv == Init => RegsInv
<1> SUFFICES ASSUME Init PROVE RegsInv
  OBVIOUS
<1>1. phy \in [PhyReg -> Word] /\ PhyInv
  BY DefaultType DEF Init, PhyInv, ResetsPhy, ReadOnly
<1>2. mmfr \in Mmfr
  BY DEF Init, Mmfr, Op, PhyReg, Word
<1> QED
  BY <1>1, <1>2 DEF Init, RegsInv, TypeOK, IrqLevel

\* What a step may do to the PHY, next to what PhyInv says after it.
Changes == \A r \in PhyReg : phy'[r] # phy[r] => ChangedBy(r)

LEMMA StepRegsInv == RegsInv /\ [Next]_vars => RegsInv' /\ Changes
<1> SUFFICES ASSUME RegsInv, [Next]_vars PROVE RegsInv' /\ Changes
  OBVIOUS
<1> USE DEF RegsInv
<1>a. ASSUME UNCHANGED <<mmfr, phy>> PROVE PhyInv' /\ Changes
  BY <1>a DEF PhyInv, Changes
<1>1. CASE SystemReset
  <2>1. phy' = PhyDefault /\ mmfr' = [op |-> "none", ra |-> "BMCR", data |-> {}]
    BY <1>1 DEF SystemReset
  <2>2. phy' \in [PhyReg -> Word] /\ PhyInv' /\ Changes
    BY <2>1, DefaultType DEF PhyInv, ResetsPhy, Changes, ChangedBy
  <2>3. mmfr' \in Mmfr
    BY <2>1 DEF Mmfr, Op, PhyReg, Word
  <2> QED
    BY <1>1, <2>2, <2>3 DEF SystemReset, UpdateIrq, TypeOK, IrqLevel
<1>2. ASSUME NEW v \in SUBSET EcrBits, WriteEcr(v)
      PROVE  RegsInv' /\ Changes
  BY <1>2, <1>a DEF WriteEcr, TypeOK, IrqLevel
<1>3. ASSUME NEW b \in BOOLEAN, WriteEcrMagic(b) PROVE RegsInv' /\ Changes
  BY <1>3, <1>a DEF WriteEcrMagic, TypeOK, IrqLevel
<1>4. ASSUME NEW v \in SUBSET Events, WriteEir(v) PROVE RegsInv' /\ Changes
  BY <1>4, <1>a DEF WriteEir, UpdateIrq, TypeOK, IrqLevel
<1>5. ASSUME NEW v \in SUBSET Events, WriteEimr(v) PROVE RegsInv' /\ Changes
  BY <1>5, <1>a DEF WriteEimr, UpdateIrq, TypeOK, IrqLevel
<1>6. ASSUME NEW e \in Events \ {"MII"}, Raise(e) PROVE RegsInv' /\ Changes
  BY <1>6, <1>a DEF Raise, UpdateIrq, TypeOK, IrqLevel
<1>7. ASSUME NEW op \in Op, NEW r \in PhyReg, NEW v \in Word,
             WriteMmfr(op, r, v)
      PROVE  RegsInv' /\ Changes
  <2>1. phy[r] \in Word /\ PhyRefreshed = phy
    BY RefreshNothing DEF TypeOK
  <2>2. /\ mmfr' = [op |-> op, ra |-> r,
                     data |-> IF op = "read" THEN phy[r] ELSE v]
        /\ phy' = IF op = "write" THEN PhyWritten(r, v) ELSE phy
    BY <1>7, <2>1 DEF WriteMmfr, Op
  <2>3. mmfr' \in Mmfr
    BY <2>1, <2>2 DEF Mmfr
  <2>4. phy' \in [PhyReg -> Word] /\ PhyInv' /\ Changes
    <3>1. CASE op = "write"
      <4>1. phy' = PhyWritten(r, v) /\ mmfr' = [op |-> "write", ra |-> r,
                                                data |-> v]
        BY <2>2, <3>1
      <4>2. ResetsPhy(mmfr') <=> r = "BMCR" /\ "b15" \in v
        BY <4>1 DEF ResetsPhy
      <4>3. phy' \in [PhyReg -> Word]
        BY <4>1, Written
      <4>4. PhyInv'
        BY <4>1, <4>2, Written DEF PhyInv
      <4>5. ASSUME NEW s \in PhyReg, phy'[s] # phy[s] PROVE ChangedBy(s)
        <5>1. CASE r = "BMCR" /\ "b15" \in v
          BY <4>2, <5>1 DEF ChangedBy
        <5>2. CASE ~(r = "BMCR" /\ "b15" \in v)
          <6>1. s = r
            BY <4>1, <4>5, <5>2, Written
          <6>2. r \in Stored
            BY <4>1, <4>5, Written
          <6> QED BY <4>1, <6>1, <6>2 DEF ChangedBy
        <5> QED BY <5>1, <5>2
      <4> QED BY <4>3, <4>4, <4>5 DEF Changes
    <3>2. CASE op # "write"
      BY <2>2, <3>2 DEF PhyInv, ResetsPhy, Changes, TypeOK
    <3> QED BY <3>1, <3>2
  <2>5. eir' \in SUBSET Events /\ IrqLevel' /\ irq' \in BOOLEAN
    BY <1>7, RegsAssumption DEF WriteMmfr, UpdateIrq, TypeOK, IrqLevel
  <2> QED BY <1>7, <2>3, <2>4, <2>5 DEF WriteMmfr, TypeOK
<1>8. CASE UNCHANGED vars
  BY <1>8, <1>a DEF vars, TypeOK, IrqLevel, Mmfr
<1> QED BY <1>1, <1>2, <1>3, <1>4, <1>5, <1>6, <1>7, <1>8 DEF Next

LEMMA RegsInvariant == Spec => []RegsInv
<1>1. RegsInv /\ [Next]_vars => RegsInv'
  BY StepRegsInv
<1> QED BY <1>1, InitRegsInv, PTL DEF Spec

\* The registers keep their types.
THEOREM TypeCorrect == Spec => []TypeOK
<1>1. RegsInv => TypeOK
  BY DEF RegsInv
<1> QED BY <1>1, RegsInvariant, PTL

\* The interrupt line is the level of EIR and EIMR after every access.
THEOREM LineFollowsEvents == Spec => []IrqLevel
<1>1. RegsInv => IrqLevel
  BY DEF RegsInv
<1> QED BY <1>1, RegsInvariant, PTL

\* Whatever the guest does, a stored register of the PHY holds what was last
\* written to it, a PHY reset restores all others, and the read-only ones
\* stay.
THEOREM PhyRemembers == Spec => PhyKeepsWrites
<1>1. RegsInv /\ [Next]_vars => WritesKept
  <2> SUFFICES ASSUME RegsInv, [Next]_vars PROVE WritesKept
    OBVIOUS
  <2>1. RegsInv' /\ Changes
    BY StepRegsInv
  <2> QED BY <2>1 DEF RegsInv, PhyInv, ReadOnly, Changes, ResetsPhy, WritesKept
<1> QED BY <1>1, RegsInvariant, PTL DEF Spec, PhyKeepsWrites

\* One unlocking of ECR lets one change through.
THEOREM OneChangePerUnlock == Spec => EcrRelocks
<1>1. [Next]_vars => [ecr' # ecr => (magic \/ ecr' = {}) /\ ~magic']_vars
  BY DEF Next, vars, SystemReset, WriteEcr, WriteEcrMagic, WriteEir, WriteEimr,
         Raise, WriteMmfr
<1> QED BY <1>1, PTL DEF Spec, EcrRelocks
=============================================================================
