---------------------------- MODULE MCVideoJobs ----------------------------
(***************************************************************************)
(* A small video queue for TLC: see VideoJobs.                             *)
(***************************************************************************)
EXTENDS VideoJobs, TLC

Symmetry == Permutations(Workers) \cup Permutations(Jobs)
=============================================================================
