------------------------------ MODULE MCBatch -------------------------------
(***************************************************************************)
(* A small batch for TLC: see Batch.                                       *)
(***************************************************************************)
EXTENDS Batch, TLC

Symmetry == Permutations(Sessions)
=============================================================================
