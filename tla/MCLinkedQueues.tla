--------------------------- MODULE MCLinkedQueues ---------------------------
(***************************************************************************)
(* Instances of LinkedQueues for TLC.                                      *)
(***************************************************************************)
EXTENDS LinkedQueues, TLC

Addresses == Permutations(PCBs)
=============================================================================
