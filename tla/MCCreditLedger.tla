--------------------------- MODULE MCCreditLedger ---------------------------
(***************************************************************************)
(* A small workspace for TLC: see CreditLedger.                            *)
(***************************************************************************)
EXTENDS CreditLedger, TLC

LOCAL INSTANCE FiniteSetsExt

\* Total is the sum the community modules compute, on every small table.
ASSUME \A f \in [1 .. 3 -> -1 .. 3] :
    Total(f) = MapThenSumSet(LAMBDA i : Positive(f[i]), 1 .. 3)

Symmetry == Permutations(Sessions) \cup Permutations(Jobs)
=============================================================================
