-------------------------------- MODULE Tally --------------------------------
(***************************************************************************)
(* Totals over a table of amounts, in the form the proofs need.            *)
(*                                                                         *)
(* The ledger promises equalities between a number kept in one row and a   *)
(* sum over many rows, of which one changes at a time. A total is stated   *)
(* here as the cardinality of the set of its units: an amount of 3 held by *)
(* job j is the three pairs <<j, 1>>, <<j, 2>>, <<j, 3>>. Then what one    *)
(* update does to it follows from facts about cardinalities, with no       *)
(* induction over the rows (CreditLedgerProofs). MCCreditLedger compares it*)
(* with FiniteSetsExt!MapThenSumSet on small tables.                       *)
(***************************************************************************)
EXTENDS Integers, FiniteSets

\* The units one entry contributes; none when the amount is not positive.
Column(j, n) == {j} \X (1 .. n)

\* Every unit of a table.
Units(f) == UNION {Column(j, f[j]) : j \in DOMAIN f}

\* What an entry contributes to the total.
Positive(n) == IF n > 0 THEN n ELSE 0

\* The sum of the positive entries of a table.
Total(f) == Cardinality(Units(f))
=============================================================================
