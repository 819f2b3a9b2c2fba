------------------------------ MODULE EnetBits ------------------------------
(***************************************************************************)
(* The bits of the ENET MAC's and the PHY's registers, as far as EnetRegs  *)
(* and EnetInit tell them apart.                                           *)
(***************************************************************************)

CONSTANTS
  EcrBits,    \* bits of ECR; "RESET" is one of them
  Events,     \* bits of EIR and EIMR; "MII" is one of them
  Bits        \* bits of a PHY register; "b15" and "b2" are among them

ASSUME RegsAssumption ==
  /\ "RESET" \in EcrBits
  /\ "MII" \in Events
  /\ {"b15", "b2"} \subseteq Bits
=============================================================================
