------------------------------- MODULE Escrow -------------------------------
(***************************************************************************)
(* What the credit ledger promises a workspace, without saying how: the    *)
(* abstract specification CreditLedger implements.                         *)
(*                                                                         *)
(* Every job is in one stage and stages only move forward. A hold is given *)
(* back exactly as it was taken, a charge is final, and at every moment    *)
(* the credits ever granted cover everything charged plus everything held. *)
(* One step may settle several jobs, because one database transaction may: *)
(* the reaper fails every stuck job of a sweep in a single commit.         *)
(***************************************************************************)
EXTENDS Tally

CONSTANT Jobs

VARIABLES granted,   \* every credit the workspace was ever given
          stage,     \* where each job's money is
          amount     \* what is held, was returned or was charged for it

vars == <<granted, stage, amount>>

Stages == {"fresh", "held", "returned", "charged"}

Order == [fresh |-> 0, held |-> 1, returned |-> 2, charged |-> 3]

HeldCredits == [j \in Jobs |-> IF stage[j] = "held" THEN amount[j] ELSE 0]

ChargedCredits == [j \in Jobs |-> IF stage[j] = "charged" THEN amount[j] ELSE 0]

\* The account can pay for everything it owes and everything it promised.
Solvent == Total(HeldCredits) + Total(ChargedCredits) <= granted

Init ==
    /\ granted = 0
    /\ stage = [j \in Jobs |-> "fresh"]
    /\ amount = [j \in Jobs |-> 0]

\* One job's money stays where it is, or moves to a later stage.
Settle(j) ==
    \/ stage'[j] = stage[j] /\ amount'[j] = amount[j]
    \/ /\ Order[stage[j]] < Order[stage'[j]]
       /\ stage[j] = "held" /\ stage'[j] = "returned" => amount'[j] = amount[j]

Next ==
    /\ granted' \in Nat /\ granted' >= granted
    /\ stage' \in [Jobs -> Stages]
    /\ amount' \in [Jobs -> Nat]
    /\ \A j \in Jobs : Settle(j)
    /\ Solvent'

Spec == Init /\ [][Next]_vars
=============================================================================
