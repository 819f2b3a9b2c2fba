---------------------------- MODULE MCRtosQueue ----------------------------
(***************************************************************************)
(* Instances of RtosQueue for TLC.                                         *)
(***************************************************************************)
EXTENDS RtosQueue, TLC

\* Tasks differ only in the priority they are given, and that is any.
Symmetry == Permutations(Task)
=============================================================================
