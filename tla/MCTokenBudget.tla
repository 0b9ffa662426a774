---------------------------- MODULE MCTokenBudget ----------------------------
(***************************************************************************)
(* The token budget under TLC.                                             *)
(***************************************************************************)
EXTENDS TokenBudget, TLC

RunSymmetry == Permutations(Runs)
=============================================================================
