---------------------------- MODULE MCLineEditor ----------------------------
(***************************************************************************)
(* Instances of LineEditor for TLC.  Nothing compares the addresses of two *)
(* blocks.                                                                 *)
(***************************************************************************)
EXTENDS LineEditor, TLC

Addresses == Permutations(Blocks)
=============================================================================
