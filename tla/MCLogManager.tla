---------------------------- MODULE MCLogManager ----------------------------
(***************************************************************************)
(* Bounds for model checking LogManager.                                   *)
(***************************************************************************)
EXTENDS LogManager, TLC

Symmetry == Permutations(Threads) \cup Permutations(Pages)

=============================================================================
