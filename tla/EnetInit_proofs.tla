--------------------------- MODULE EnetInit_proofs ---------------------------
(***************************************************************************)
(* Proofs about the driver's initialisation, for any number of polls, any  *)
(* further register bits, and with or without the handler taking events.   *)
(***************************************************************************)
EXTENDS EnetInit, TLAPS

\* What is proved of the registers under any guest.
G == INSTANCE EnetRegs_proofs

Three == {"RXF", "TXF", "MII"}

\* EIMR has been written; the MAC has been enabled; no transaction is open.
Masked == {"unlockAgain", "readEcr", "enable", "mmfr", "poll", "ack", "fetch",
           "link", "done"}
Enabled == {"mmfr", "poll", "ack", "fetch", "link", "done"}
Quiet == {"mask", "unlockAgain", "readEcr", "enable", "mmfr", "fetch", "link",
          "done"}
InRead == {"mmfr", "poll", "ack", "fetch"}

\* ECR is unlocked where a store to it follows, and keeps what was enabled.
EcrInv ==
  /\ pc \in {"reset", "readEcr", "enable"} => magic
  /\ pc \in Masked => eimr = Three
  /\ pc \in Enabled => "ETHEREN" \in ecr

\* Nobody sets MII but the store to MMFR: a poll that did not see it was too
\* late, and no later one will.
MiiInv ==
  /\ pc \in Quiet => "MII" \notin eir
  /\ pc = "poll" /\ polls < PollBudget => "MII" \notin eir

\* MMFR holds the register asked for, and the PHY does not change.
ReadInv ==
  /\ "b2" \in phy["BMSR"]
  /\ Len(results) = reading - 1
  /\ ReadsAreRight
  /\ pc \in InRead => reading <= Len(Reads)
  /\ pc \in {"poll", "ack", "fetch"} => mmfr.data = phy[Reads[reading]]
  /\ pc \in {"link", "done"} => reading = Len(Reads) + 1
  /\ pc \notin InRead \cup {"link", "done"} => reading = 1
  /\ pc = "done" => linkUp

InitInv == TypeOK /\ EcrInv /\ MiiInv /\ ReadInv

-----------------------------------------------------------------------------
\* The three registers read.
LEMMA ReadsType ==
  /\ Len(Reads) = 3
  /\ \A i \in 1 .. 3 : Reads[i] \in R!PhyReg
  /\ Reads[3] = "BMSR"
BY DEF Reads, R!PhyReg

\* A read transaction on a PHY whose link bit is set changes no register and
\* leaves the one asked for in MMFR.
LEMMA ReadTransaction ==
  ASSUME R!TypeOK, "b2" \in phy["BMSR"], NEW r \in R!PhyReg,
         R!WriteMmfr("read", r, {})
  PROVE  /\ phy' = phy /\ mmfr'.data = phy[r] /\ mmfr' \in R!Mmfr
         /\ eir' \in SUBSET Events /\ irq' \in BOOLEAN
         /\ UNCHANGED <<ecr, magic, eimr>>
<1>1. phy \in [R!PhyReg -> R!Word] /\ phy[r] \in R!Word
  BY DEF R!TypeOK
<1>2. R!PhyRefreshed = phy
  BY <1>1 DEF R!PhyRefreshed, R!PhyReg
<1>3. phy' = phy
  BY <1>2 DEF R!WriteMmfr
<1>4. mmfr' = [op |-> "read", ra |-> r, data |-> phy[r]]
  BY <1>2 DEF R!WriteMmfr
<1>5. mmfr' \in R!Mmfr
  BY <1>1, <1>4 DEF R!Mmfr, R!Op
<1>6. eir' = eir \cup {"MII"} /\ irq' = (eir' \cap eimr' # {})
  BY DEF R!WriteMmfr, R!UpdateIrq
<1>7. UNCHANGED <<ecr, magic, eimr>>
  BY DEF R!WriteMmfr
<1> QED
  BY <1>3, <1>4, <1>5, <1>6, <1>7, InitAssumption, RegsAssumption DEF R!TypeOK

\* Writing EIR takes events away and changes nothing else but the line.
LEMMA ClearsOnly ==
  ASSUME R!TypeOK, NEW v, R!WriteEir(v)
  PROVE  /\ eir' = eir \ v /\ R!TypeOK'
         /\ UNCHANGED <<ecr, magic, eimr, mmfr, phy>>
<1>1. eir' = eir \ v /\ UNCHANGED <<ecr, magic, eimr, mmfr, phy>>
  BY DEF R!WriteEir
<1>2. irq' \in BOOLEAN
  BY DEF R!WriteEir, R!UpdateIrq
<1> QED BY <1>1, <1>2 DEF R!TypeOK, R!Mmfr

\* The PHY after a machine reset.
LEMMA DefaultPhy ==
  /\ R!PhyDefault \in [R!PhyReg -> R!Word]
  /\ "b2" \in R!PhyDefault["BMSR"]
BY RegsAssumption DEF R!PhyDefault, R!PhyReg, R!Word

\* Whoever writes the PHY, its link bit stays set.
LEMMA LinkStays ==
  ASSUME R!TypeOK, "b2" \in phy["BMSR"], NEW r \in R!PhyReg, NEW v \in R!Word
  PROVE  /\ R!PhyWritten(r, v) \in [R!PhyReg -> R!Word]
         /\ "b2" \in R!PhyWritten(r, v)["BMSR"]
<1>p. phy \in [R!PhyReg -> R!Word]
  BY DEF R!TypeOK
<1>r. {"BMSR", "BMCR", "MICR"} \subseteq R!PhyReg
  BY DEF R!PhyReg
<1>1. CASE r = "BMCR" /\ "b15" \in v
  <2>1. R!PhyWritten(r, v) = [R!PhyDefault EXCEPT !["BMCR"] = v \ {"b15"}]
    BY <1>1 DEF R!PhyWritten
  <2>2. v \ {"b15"} \in R!Word
    BY DEF R!Word
  <2> QED BY <1>r, <2>1, <2>2, DefaultPhy
<1>2. CASE r = "BMCR" /\ "b15" \notin v
  <2>1. R!PhyWritten(r, v) = [phy EXCEPT !["BMCR"] = v]
    BY <1>2 DEF R!PhyWritten
  <2> QED BY <1>p, <1>r, <2>1
<1>3. CASE r = "MICR"
  <2>1. R!PhyWritten(r, v) = [phy EXCEPT !["MICR"] = v]
    BY <1>3 DEF R!PhyWritten
  <2> QED BY <1>p, <1>r, <2>1
<1>4. CASE r \notin {"BMCR", "MICR"}
  <2>1. R!PhyWritten(r, v) = phy
    BY <1>4 DEF R!PhyWritten
  <2> QED BY <1>p, <2>1
<1> QED BY <1>1, <1>2, <1>3, <1>4

\* Any use of the registers leaves them well-typed and the link bit set.
LEMMA AnyUse ==
  ASSUME R!TypeOK, "b2" \in phy["BMSR"], R!Next
  PROVE  R!TypeOK' /\ "b2" \in phy'["BMSR"]
<1>1. CASE R!SystemReset
  <2>1. mmfr' \in R!Mmfr
    BY <1>1 DEF R!SystemReset, R!Mmfr, R!Op, R!PhyReg, R!Word
  <2> QED
    BY <1>1, <2>1, DefaultPhy DEF R!SystemReset, R!UpdateIrq, R!TypeOK
<1>2. ASSUME NEW v \in SUBSET EcrBits, R!WriteEcr(v)
      PROVE  R!TypeOK' /\ "b2" \in phy'["BMSR"]
  BY <1>2 DEF R!WriteEcr, R!TypeOK
<1>3. ASSUME NEW b \in BOOLEAN, R!WriteEcrMagic(b)
      PROVE  R!TypeOK' /\ "b2" \in phy'["BMSR"]
  BY <1>3 DEF R!WriteEcrMagic, R!TypeOK
<1>4. ASSUME NEW v \in SUBSET Events, R!WriteEir(v) \/ R!WriteEimr(v)
      PROVE  R!TypeOK' /\ "b2" \in phy'["BMSR"]
  BY <1>4 DEF R!WriteEir, R!WriteEimr, R!UpdateIrq, R!TypeOK
<1>5. ASSUME NEW e \in Events \ {"MII"}, R!Raise(e)
      PROVE  R!TypeOK' /\ "b2" \in phy'["BMSR"]
  BY <1>5 DEF R!Raise, R!UpdateIrq, R!TypeOK
<1>6. ASSUME NEW op \in R!Op, NEW r \in R!PhyReg, NEW v \in R!Word,
             R!WriteMmfr(op, r, v)
      PROVE  R!TypeOK' /\ "b2" \in phy'["BMSR"]
  <2>1. phy \in [R!PhyReg -> R!Word] /\ phy[r] \in R!Word
    BY DEF R!TypeOK
  <2>2. R!PhyRefreshed = phy
    BY <2>1 DEF R!PhyRefreshed, R!PhyReg
  <2>3. /\ mmfr' = [op |-> op, ra |-> r,
                    data |-> IF op = "read" THEN phy[r] ELSE v]
        /\ phy' = IF op = "write" THEN R!PhyWritten(r, v) ELSE phy
    BY <1>6, <2>2 DEF R!WriteMmfr, R!Op
  <2>4. mmfr' \in R!Mmfr
    BY <2>1, <2>3 DEF R!Mmfr
  <2>5. phy' \in [R!PhyReg -> R!Word] /\ "b2" \in phy'["BMSR"]
    BY <2>1, <2>3, LinkStays
  <2>6. eir' \in SUBSET Events /\ irq' \in BOOLEAN
    BY <1>6, RegsAssumption DEF R!WriteMmfr, R!UpdateIrq, R!TypeOK
  <2> QED BY <1>6, <2>4, <2>5, <2>6 DEF R!WriteMmfr, R!TypeOK
<1> QED BY <1>1, <1>2, <1>3, <1>4, <1>5, <1>6 DEF R!Next

LEMMA InitInitInv == Init => InitInv
<1> SUFFICES ASSUME Init PROVE InitInv
  OBVIOUS
<1>1. phy = R!PhyDefault /\ mmfr = [op |-> "none", ra |-> "BMCR", data |-> {}]
  BY DEF Init, R!Init
<1>2. phy \in [R!PhyReg -> R!Word] /\ "b2" \in phy["BMSR"]
  BY <1>1, InitAssumption, RegsAssumption DEF R!PhyDefault, R!PhyReg, R!Word
<1>3. mmfr \in R!Mmfr
  BY <1>1 DEF R!Mmfr, R!Op, R!PhyReg, R!Word
<1>4. R!TypeOK
  BY <1>2, <1>3 DEF Init, R!Init, R!TypeOK
<1>5. TypeOK
  <2>1. polls \in 0 .. PollBudget /\ reading \in 1 .. Len(Reads) + 1
    BY ReadsType, InitAssumption, RegsAssumption DEF Init
  <2>2. results \in Seq(R!Word)
    BY DEF Init
  <2>3. ecrRead \in SUBSET EcrBits /\ linkUp \in BOOLEAN
    BY DEF Init
  <2> QED BY <1>4, <2>1, <2>2, <2>3 DEF Init, TypeOK
<1>6. Len(results) = 0 /\ ReadsAreRight
  BY DEF Init, ReadsAreRight
<1>7. EcrInv /\ MiiInv
  BY DEF Init, EcrInv, MiiInv, Quiet, Masked, Enabled
<1>8. ReadInv
  BY <1>2, <1>6, ReadsType DEF Init, ReadInv, InRead
<1> QED BY <1>5, <1>7, <1>8 DEF InitInv

-----------------------------------------------------------------------------
\* The steps of the task, of the handler, of the network, and of whoever used
\* the MAC before.
LEMMA StepInitInv == InitInv /\ [Next]_vars => InitInv'
<1> SUFFICES ASSUME InitInv, [Next]_vars PROVE InitInv'
  OBVIOUS
<1>t. /\ TypeOK /\ R!TypeOK /\ reading \in 1 .. 4 /\ results \in Seq(R!Word)
      /\ polls \in 0 .. PollBudget /\ PollBudget \in Nat \ {0}
  BY ReadsType, InitAssumption, RegsAssumption DEF InitInv, TypeOK
<1>i. EcrInv /\ MiiInv /\ ReadInv
  BY DEF InitInv
<1> USE DEF Goto, Quiet, Masked, Enabled, InRead
<1>1. CASE Unlock
  <2>1. R!TypeOK'
    BY <1>1, <1>t DEF Unlock, R!WriteEcrMagic, R!TypeOK, R!Mmfr
  <2>2. TypeOK'
    BY <1>1, <1>t, <2>1 DEF Unlock, TypeOK
  <2> QED
    BY <1>1, <1>i, <2>2 DEF Unlock, R!WriteEcrMagic, InitInv, EcrInv, MiiInv,
       ReadInv, ReadsAreRight
<1>2. CASE Reset
  <2>1. R!TypeOK'
    BY <1>2, <1>t, InitAssumption, RegsAssumption DEF Reset, R!WriteEcr, R!TypeOK, R!Mmfr
  <2>2. TypeOK'
    BY <1>2, <1>t, <2>1 DEF Reset, TypeOK
  <2> QED
    BY <1>2, <1>i, <2>2 DEF Reset, R!WriteEcr, InitInv, EcrInv, MiiInv,
       ReadInv, ReadsAreRight
<1>3. CASE PollEcr
  <2>1. R!TypeOK' /\ TypeOK'
    BY <1>3, <1>t DEF PollEcr, deviceVars, TypeOK, R!TypeOK, R!Mmfr
  <2> QED
    BY <1>3, <1>i, <2>1 DEF PollEcr, deviceVars, InitInv, EcrInv, MiiInv,
       ReadInv, ReadsAreRight
<1>4. CASE ClearEir
  <2>1. /\ eir' = eir \ Events /\ R!TypeOK'
        /\ UNCHANGED <<ecr, magic, eimr, mmfr, phy>>
    BY <1>4, <1>t, ClearsOnly DEF ClearEir
  <2>2. TypeOK'
    BY <1>4, <1>t, <2>1 DEF ClearEir, TypeOK
  <2>3. "MII" \notin eir'
    BY <2>1, InitAssumption, RegsAssumption
  <2> QED
    BY <1>4, <1>i, <2>1, <2>2, <2>3 DEF ClearEir, InitInv, EcrInv, MiiInv,
       ReadInv, ReadsAreRight
<1>5. CASE Mask
  <2>1. /\ eimr' = Three /\ UNCHANGED <<ecr, magic, eir, mmfr, phy>>
        /\ irq' \in BOOLEAN
    BY <1>5 DEF Mask, R!WriteEimr, R!UpdateIrq, Three
  <2>2. R!TypeOK'
    BY <1>t, <2>1, InitAssumption, RegsAssumption DEF R!TypeOK, Three, R!Mmfr
  <2>3. TypeOK'
    BY <1>5, <1>t, <2>2 DEF Mask, TypeOK
  <2> QED
    BY <1>5, <1>i, <2>1, <2>3 DEF Mask, InitInv, EcrInv, MiiInv, ReadInv,
       ReadsAreRight
<1>6. CASE UnlockAgain
  <2>1. R!TypeOK'
    BY <1>6, <1>t DEF UnlockAgain, R!WriteEcrMagic, R!TypeOK, R!Mmfr
  <2>2. TypeOK'
    BY <1>6, <1>t, <2>1 DEF UnlockAgain, TypeOK
  <2> QED
    BY <1>6, <1>i, <2>2 DEF UnlockAgain, R!WriteEcrMagic, InitInv, EcrInv,
       MiiInv, ReadInv, ReadsAreRight
<1>7. CASE ReadEcr
  <2>1. R!TypeOK' /\ TypeOK'
    BY <1>7, <1>t DEF ReadEcr, deviceVars, TypeOK, R!TypeOK, R!Mmfr
  <2> QED
    BY <1>7, <1>i, <2>1 DEF ReadEcr, deviceVars, InitInv, EcrInv, MiiInv,
       ReadInv, ReadsAreRight
<1>8. CASE Enable
  <2>1. ecr' = (ecrRead \cup {"ETHEREN"}) \ {"RESET"}
    BY <1>8, <1>i DEF Enable, R!WriteEcr, EcrInv
  <2>2. R!TypeOK'
    BY <1>8, <1>t, InitAssumption, RegsAssumption
    DEF Enable, R!WriteEcr, TypeOK, R!TypeOK, R!Mmfr
  <2>3. TypeOK'
    BY <1>8, <1>t, <2>2 DEF Enable, TypeOK
  <2> QED
    BY <1>8, <1>i, <2>1, <2>3, ReadsType DEF Enable, R!WriteEcr, InitInv,
       EcrInv, MiiInv, ReadInv, ReadsAreRight
<1>9. CASE StartRead
  <2>1. /\ pc = "mmfr" /\ pc' = "poll" /\ polls' = PollBudget
        /\ reading \in 1 .. 3
        /\ UNCHANGED <<ecrRead, reading, results, linkUp>>
    BY <1>9, <1>t, <1>i, ReadsType DEF StartRead, ReadInv
  <2>2. Reads[reading] \in R!PhyReg
    BY <2>1, ReadsType
  <2>3. /\ phy' = phy /\ mmfr'.data = phy[Reads[reading]] /\ mmfr' \in R!Mmfr
        /\ eir' \in SUBSET Events /\ irq' \in BOOLEAN
        /\ UNCHANGED <<ecr, magic, eimr>>
    BY <1>9, <1>t, <1>i, <2>2, ReadTransaction DEF StartRead, ReadInv
  <2>4. R!TypeOK'
    BY <1>t, <2>3 DEF R!TypeOK
  <2>5. TypeOK'
    BY <1>t, <2>1, <2>4 DEF TypeOK
  <2>6. EcrInv' /\ MiiInv'
    BY <1>t, <1>i, <2>1, <2>3 DEF EcrInv, MiiInv
  <2>7. ReadInv'
    BY <1>i, <2>1, <2>3 DEF ReadInv, ReadsAreRight
  <2> QED BY <2>5, <2>6, <2>7 DEF InitInv
<1>10. CASE Poll
  <2>1. /\ pc = "poll" /\ polls' = polls - 1 /\ polls > 0
        /\ pc' = IF "MII" \in eir THEN "ack" ELSE "poll"
        /\ UNCHANGED <<deviceVars, ecrRead, reading, results, linkUp>>
    BY <1>10 DEF Poll
  <2>2. R!TypeOK' /\ TypeOK'
    BY <1>t, <2>1 DEF deviceVars, TypeOK, R!TypeOK, R!Mmfr
  <2>3. EcrInv' /\ MiiInv'
    BY <1>t, <1>i, <2>1 DEF EcrInv, MiiInv, deviceVars
  <2>4. ReadInv'
    BY <1>i, <2>1 DEF ReadInv, ReadsAreRight, deviceVars
  <2> QED BY <2>2, <2>3, <2>4 DEF InitInv
<1>11. CASE Ack
  <2>1. /\ eir' = eir \ {"MII"} /\ R!TypeOK'
        /\ UNCHANGED <<ecr, magic, eimr, mmfr, phy>>
    BY <1>11, <1>t, ClearsOnly DEF Ack
  <2>2. TypeOK'
    BY <1>11, <1>t, <2>1 DEF Ack, TypeOK
  <2> QED
    BY <1>11, <1>i, <2>1, <2>2 DEF Ack, InitInv, EcrInv, MiiInv, ReadInv,
       ReadsAreRight
<1>12. CASE TimeOut
  <2>1. R!TypeOK' /\ TypeOK'
    BY <1>12, <1>t DEF TimeOut, deviceVars, TypeOK, R!TypeOK, R!Mmfr
  <2>2. EcrInv' /\ MiiInv'
    BY <1>12, <1>t, <1>i DEF TimeOut, EcrInv, MiiInv, deviceVars
  <2>3. ReadInv'
    BY <1>12, <1>i DEF TimeOut, ReadInv, ReadsAreRight, deviceVars
  <2> QED BY <2>1, <2>2, <2>3 DEF InitInv
<1>13. CASE Fetch
  <2>1. /\ pc = "fetch" /\ results' = Append(results, mmfr.data)
        /\ reading' = reading + 1 /\ reading \in 1 .. 3
        /\ pc' = IF reading < 3 THEN "mmfr" ELSE "link"
        /\ UNCHANGED <<deviceVars, ecrRead, polls, linkUp>>
    BY <1>13, <1>t, <1>i, ReadsType DEF Fetch, ReadInv
  <2>2. mmfr.data \in R!Word
    BY <1>t DEF R!TypeOK, R!Mmfr
  <2>3. R!TypeOK'
    BY <1>t, <2>1 DEF deviceVars, R!TypeOK, R!Mmfr
  <2>4. results' \in Seq(R!Word)
    BY <1>t, <2>1, <2>2
  <2>5. TypeOK'
    BY <1>t, <2>1, <2>3, <2>4, ReadsType DEF TypeOK, deviceVars
  <2>6. EcrInv' /\ MiiInv'
    BY <1>i, <2>1 DEF EcrInv, MiiInv, deviceVars
  <2>7. /\ Len(results') = Len(results) + 1
        /\ results'[Len(results) + 1] = mmfr.data
        /\ \A i \in 1 .. Len(results) : results'[i] = results[i]
        /\ Len(results) = reading - 1
    BY <1>t, <1>i, <2>1 DEF ReadInv
  <2>8. mmfr.data = phy[Reads[reading]] /\ phy' = phy
    BY <1>i, <2>1 DEF ReadInv, deviceVars
  <2>9. ReadsAreRight'
    BY <1>i, <2>1, <2>7, <2>8 DEF ReadInv, ReadsAreRight
  <2>10. ReadInv'
    BY <1>i, <2>1, <2>7, <2>8, <2>9, ReadsType DEF ReadInv
  <2> QED BY <2>5, <2>6, <2>10 DEF InitInv
<1>14. CASE Link
  <2>1. R!TypeOK' /\ TypeOK'
    BY <1>14, <1>t DEF Link, deviceVars, TypeOK, R!TypeOK, R!Mmfr
  <2>2. EcrInv' /\ MiiInv'
    BY <1>14, <1>i DEF Link, EcrInv, MiiInv, deviceVars
  <2>3. results[3] = phy["BMSR"] /\ reading = 4
    BY <1>14, <1>t, <1>i, ReadsType DEF Link, ReadInv, ReadsAreRight
  <2>4. linkUp'
    BY <1>14, <1>i, <2>3, ReadsType DEF Link, ReadInv
  <2>5. ReadInv'
    BY <1>14, <1>i, <2>4 DEF Link, ReadInv, ReadsAreRight, deviceVars
  <2> QED BY <2>1, <2>2, <2>5 DEF InitInv
<1>15. CASE Isr
  <2>1. /\ eir' = eir \ (eir \cap eimr) /\ R!TypeOK'
        /\ UNCHANGED <<ecr, magic, eimr, mmfr, phy>> /\ UNCHANGED driverVars
    BY <1>15, <1>t, ClearsOnly DEF Isr
  <2>2. TypeOK'
    BY <1>t, <2>1 DEF driverVars, TypeOK
  <2> QED
    BY <1>i, <2>1, <2>2 DEF driverVars, InitInv, EcrInv, MiiInv, ReadInv,
       ReadsAreRight
<1>16. CASE FrameReceived
  <2>1. /\ eir' = eir \cup {"RXF"} /\ irq' \in BOOLEAN
        /\ UNCHANGED <<ecr, magic, eimr, mmfr, phy>> /\ UNCHANGED driverVars
    BY <1>16 DEF FrameReceived, R!Raise, R!UpdateIrq
  <2>2. R!TypeOK'
    BY <1>t, <2>1, InitAssumption, RegsAssumption DEF R!TypeOK, R!Mmfr
  <2>3. TypeOK'
    BY <1>t, <2>1, <2>2 DEF driverVars, TypeOK
  <2> QED
    BY <1>i, <2>1, <2>3 DEF driverVars, InitInv, EcrInv, MiiInv, ReadInv,
       ReadsAreRight
<1>17. CASE Earlier
  <2>1. pc = "unlock" /\ R!Next /\ UNCHANGED driverVars
    BY <1>17 DEF Earlier
  <2>2. R!TypeOK' /\ "b2" \in phy'["BMSR"]
    BY <1>t, <1>i, <2>1, AnyUse DEF ReadInv
  <2>3. TypeOK'
    BY <1>t, <2>1, <2>2 DEF driverVars, TypeOK
  <2>4. EcrInv' /\ MiiInv'
    BY <2>1 DEF driverVars, EcrInv, MiiInv
  <2>5. reading = 1 /\ Len(results) = 0
    BY <1>i, <2>1 DEF ReadInv
  <2>6. ReadInv'
    BY <2>1, <2>2, <2>5 DEF driverVars, ReadInv, ReadsAreRight
  <2> QED BY <2>3, <2>4, <2>6 DEF InitInv
<1>18. CASE UNCHANGED vars
  <2>1. R!TypeOK' /\ TypeOK'
    BY <1>18, <1>t DEF vars, deviceVars, driverVars, TypeOK, R!TypeOK, R!Mmfr
  <2> QED
    BY <1>18, <1>i, <2>1 DEF vars, deviceVars, driverVars, InitInv, EcrInv,
       MiiInv, ReadInv, ReadsAreRight
<1> QED
  BY <1>1, <1>2, <1>3, <1>4, <1>5, <1>6, <1>7, <1>8, <1>9, <1>10, <1>11,
     <1>12, <1>13, <1>14, <1>15, <1>16, <1>17, <1>18 DEF Next, Task

LEMMA InitInvariant == Spec => []InitInv
<1> QED BY InitInitInv, StepInitInv, PTL DEF Spec

\* The registers and the driver's locals keep their types.
THEOREM TypeCorrect == Spec => []TypeOK
<1>1. InitInv => TypeOK
  BY DEF InitInv
<1> QED BY <1>1, InitInvariant, PTL

\* A finished initialisation has enabled the MAC and unmasked its events,
\* and has found the link up.
THEOREM MacGetsEnabled == Spec => []InitEnablesMac
<1>1. InitInv => InitEnablesMac
  BY DEF InitInv, EcrInv, ReadInv, InitEnablesMac, Masked, Enabled, Three
<1> QED BY <1>1, InitInvariant, PTL

\* Each MDIO read returns its register, whoever takes the completion event
\* and however short the wait.
THEOREM ReadsSucceed == Spec => []ReadsAreRight
<1>1. InitInv => ReadsAreRight
  BY DEF InitInv, ReadInv
<1> QED BY <1>1, InitInvariant, PTL

\* No completion survives its transaction.
THEOREM NoneLeftOver == Spec => []NoStaleCompletion
<1>1. InitInv => NoStaleCompletion
  BY DEF InitInv, MiiInv, NoStaleCompletion, Quiet
<1> QED BY <1>1, InitInvariant, PTL

\* Whoever uses the MAC first, the driver, its handler and the network
\* together are one of the guests of EnetRegs: whatever holds of the registers under any guest holds here, for
\* any number of polls and with or without the handler.
THEOREM DriverIsAGuest == Spec => R!Spec
<1>1. Init => R!Init
  BY DEF Init
<1>2. InitInv /\ [Next]_vars => [R!Next]_(R!vars)
  <2> SUFFICES ASSUME InitInv, [Next]_vars PROVE [R!Next]_(R!vars)
    OBVIOUS
  <2> USE InitAssumption, RegsAssumption
  <2>1. CASE Unlock \/ UnlockAgain
    BY <2>1 DEF Unlock, UnlockAgain, R!Next
  <2>2. CASE Reset
    BY <2>2 DEF Reset, R!Next
  <2>3. CASE Enable
    <3>1. ecrRead \cup {"ETHEREN"} \in SUBSET EcrBits
      BY DEF InitInv, TypeOK
    <3> QED BY <2>3, <3>1 DEF Enable, R!Next
  <2>4. CASE ClearEir
    BY <2>4 DEF ClearEir, R!Next
  <2>5. CASE Mask
    BY <2>5 DEF Mask, R!Next
  <2>6. CASE Ack
    BY <2>6 DEF Ack, R!Next
  <2>7. CASE StartRead
    <3>1. reading \in 1 .. 3
      BY <2>7, ReadsType DEF StartRead, Goto, InitInv, ReadInv, TypeOK, InRead
    <3>2. Reads[reading] \in R!PhyReg /\ {} \in R!Word /\ "read" \in R!Op
      BY <3>1, ReadsType DEF R!Word, R!Op
    <3> QED BY <2>7, <3>2 DEF StartRead, R!Next
  <2>8. CASE Isr
    <3>1. eir \cap eimr \in SUBSET Events
      BY DEF InitInv, TypeOK, R!TypeOK
    <3> QED BY <2>8, <3>1 DEF Isr, R!Next
  <2>9. CASE FrameReceived
    BY <2>9 DEF FrameReceived, R!Next
  <2>10. CASE PollEcr \/ ReadEcr \/ Poll \/ TimeOut \/ Fetch \/ Link
              \/ UNCHANGED vars
    BY <2>10 DEF PollEcr, ReadEcr, Poll, TimeOut, Fetch, Link, vars,
       deviceVars, R!vars
  <2>11. CASE Earlier
    BY <2>11 DEF Earlier
  <2> QED
    BY <2>1, <2>2, <2>3, <2>4, <2>5, <2>6, <2>7, <2>8, <2>9, <2>10, <2>11
    DEF Next, Task
<1> QED BY <1>1, <1>2, InitInvariant, PTL DEF Spec, R!Spec

-----------------------------------------------------------------------------
(* What holds of the registers under any guest holds under the driver.     *)

\* EnetRegs_proofs extends EnetRegs and speaks of the same guests.
LEMMA SameGuests == R!Spec => G!Spec
<1>1. R!Init => G!Init
  BY DEF R!Init, G!Init, R!PhyDefault, G!PhyDefault, R!PhyReg, G!PhyReg
<1>2. [R!Next]_(R!vars) => [G!Next]_(G!vars)
  BY DEF R!Next, G!Next, R!vars, G!vars, R!SystemReset, G!SystemReset,
     R!WriteEcr, G!WriteEcr, R!WriteEcrMagic, G!WriteEcrMagic,
     R!WriteEir, G!WriteEir, R!WriteEimr, G!WriteEimr, R!Raise, G!Raise,
     R!WriteMmfr, G!WriteMmfr, R!UpdateIrq, G!UpdateIrq,
     R!PhyDefault, G!PhyDefault, R!PhyRefreshed, G!PhyRefreshed,
     R!PhyWritten, G!PhyWritten, R!PhyReg, G!PhyReg, R!Op, G!Op,
     R!Word, G!Word
<1> QED BY <1>1, <1>2, PTL DEF R!Spec, G!Spec

\* The interrupt line is the level of EIR and EIMR at every step of the
\* initialisation, of the handler and of the network.
THEOREM LineIsLevel == Spec => []IrqLevel
<1>1. G!Spec => []G!IrqLevel
  BY RegsAssumption, G!LineFollowsEvents
<1>2. G!IrqLevel => IrqLevel
  BY DEF G!IrqLevel, IrqLevel, R!IrqLevel
<1> QED BY <1>1, <1>2, DriverIsAGuest, SameGuests, PTL

\* Each of the driver's changes of ECR uses up an unlocking of its own.
THEOREM EcrStaysLocked == Spec => EcrRelocks
<1>1. G!Spec => G!EcrRelocks
  BY RegsAssumption, G!OneChangePerUnlock
<1>2. G!EcrRelocks => EcrRelocks
  BY DEF G!EcrRelocks, EcrRelocks, R!EcrRelocks, G!vars, R!vars
<1> QED BY <1>1, <1>2, DriverIsAGuest, SameGuests, PTL

\* The PHY's registers hold what was written to them until they are written
\* again or reset.
THEOREM PhyRemembers == Spec => PhyKeepsWrites
<1>1. G!Spec => G!PhyKeepsWrites
  BY RegsAssumption, G!PhyRemembers
<1>2. [G!WritesKept]_(G!vars) => [R!WritesKept]_(R!vars)
  BY DEF G!vars, R!vars, G!WritesKept, R!WritesKept, G!Stored, R!Stored,
     G!Held, R!Held, G!ResetsPhy, R!ResetsPhy, G!ChangedBy, R!ChangedBy,
     G!PhyReg, R!PhyReg, G!PhyDefault, R!PhyDefault
<1> QED
  BY <1>1, <1>2, DriverIsAGuest, SameGuests, PTL
  DEF PhyKeepsWrites, R!PhyKeepsWrites, G!PhyKeepsWrites
=============================================================================
