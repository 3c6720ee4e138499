------------------------------- MODULE MCTAOS -------------------------------
(***************************************************************************)
(* Instances of TAOS for TLC.  The addresses of control blocks are         *)
(* interchangeable: no code compares or orders them.                       *)
(***************************************************************************)
EXTENDS TAOS

Addresses == Permutations(PCBs)
=============================================================================
