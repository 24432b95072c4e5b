---------------------------- MODULE ProductTruth -----------------------------
(***************************************************************************)
(* services/product_truth.py and what product_analysis.py files through it:*)
(* the facts and claims of one product, and concurrent requests that       *)
(* record, confirm, edit and withdraw them (v1/products.py).               *)
(*                                                                         *)
(* A request is one transaction. It reads the rows it decides on, flushes, *)
(* and commits when its handler returns; a row it flushed stays locked     *)
(* until then. Reads that follow each other are one step, and so is a      *)
(* flush with the commit when nothing is read in between.                  *)
(***************************************************************************)
EXTENDS Integers, FiniteSets, Columns

CONSTANTS Facts, Claims, \* the ids of product_facts and product_claims
          Values,        \* what a fact may say
          Sessions,      \* API requests under way
          MaxRequests    \* bound: requests that change something

VARIABLES
    facts,     \* the rows of product_facts
    claims,    \* the rows of product_claims
    tx,        \* the open transaction of each session
    requests,  \* how many requests there were
    confirmed, \* history: what a fact said to the person who confirmed it
    overtaken  \* history: facts two requests, one editing or rejecting, were about at once

vars == <<facts, claims, tx, requests, confirmed, overtaken>>
-----------------------------------------------------------------------------
VerificationStatuses == {"AI_INFERRED", "USER_PROVIDED", "VERIFIED", "REJECTED"}
ClaimStatuses == {"SUGGESTED", "VERIFIED", "REJECTED"}

\* No such row.
NoFact == [status |-> "none", value |-> 0, at |-> FALSE]
NoClaim == [status |-> "none", cites |-> {}, checkable |-> FALSE]

\* product_facts; "at" says whether verified_at is set.
FactRows == [status : VerificationStatuses, value : Values, at : BOOLEAN]

\* product_claims; "checkable" is requires_fact_backing of the claim's type.
ClaimRows == [status : ClaimStatuses, cites : SUBSET Facts, checkable : BOOLEAN]

Recorded == {f \in Facts : facts[f] # NoFact}
Proposed == {c \in Claims : claims[c] # NoClaim}

\* get_verified_facts and get_verified_claims: what a script may use.
VerifiedFacts == {f \in Facts : facts[f].status = "VERIFIED"}
VerifiedClaims == {c \in Claims : claims[c].status = "VERIFIED"}

Idle == [op |-> "none"]

Init ==
    /\ facts = [f \in Facts |-> NoFact]
    /\ claims = [c \in Claims |-> NoClaim]
    /\ tx = [s \in Sessions |-> Idle]
    /\ requests = 0
    /\ confirmed = [f \in Facts |-> 0]
    /\ overtaken = {}

-----------------------------------------------------------------------------
(* Recording and proposing are single inserts.                             *)

Request(s) ==
    /\ tx[s] = Idle /\ requests < MaxRequests
    /\ requests' = requests + 1

\* create_fact: the status follows from the source, and only a person who
\* also confirms gets VERIFIED.
InitialStatus(source, verify) ==
    IF source = "AI_VISION" THEN "AI_INFERRED"
    ELSE IF verify THEN "VERIFIED" ELSE "USER_PROVIDED"

CreateFact(s, f, value, source, verify) ==
    LET status == InitialStatus(source, verify)
    IN  /\ Request(s) /\ f \notin Recorded
        /\ facts' = [facts EXCEPT ![f] =
              [status |-> status, value |-> value, at |-> status = "VERIFIED"]]
        /\ confirmed' = IF status = "VERIFIED" THEN [confirmed EXCEPT ![f] = value] ELSE confirmed
        /\ UNCHANGED <<claims, tx, overtaken>>

\* create_claim: always SUGGESTED, and what it cites belongs to the product.
CreateClaim(s, c, cited, checkable) ==
    /\ Request(s) /\ c \notin Proposed /\ cited \subseteq Recorded
    /\ claims' = [claims EXCEPT ![c] =
          [status |-> "SUGGESTED", cites |-> cited, checkable |-> checkable]]
    /\ UNCHANGED <<facts, tx, confirmed, overtaken>>

\* _persist of product_analysis.py: what the provider saw becomes facts of an
\* AI source, what it suggests becomes claims that cite nothing.
FileAnalysis(s, f, c, value) ==
    /\ Request(s) /\ f \notin Recorded /\ c \notin Proposed
    /\ facts' = [facts EXCEPT ![f] =
          [status |-> InitialStatus("AI_VISION", FALSE), value |-> value, at |-> FALSE]]
    /\ claims' = [claims EXCEPT ![c] =
          [status |-> "SUGGESTED", cites |-> {}, checkable |-> TRUE]]
    /\ UNCHANGED <<tx, confirmed, overtaken>>

-----------------------------------------------------------------------------
(* Requests about a row that is there. A transaction keeps what it read,   *)
(* what it will send, and what its user saw.                               *)

\* The facts the open transactions of the others decide on.
About(t) == CASE t.op \in {"fact", "withdraw", "demote"} -> {t.fact}
              [] t.op = "claim" -> t.grounds
              [] OTHER -> {}

Elsewhere(s, ops) == UNION {About(tx[o]) : o \in {o \in Sessions \ {s} : tx[o].op \in ops}}

\* _stamp_verified: the time is new, so it is sent even when the status is not.
Stamped(row) == [row EXCEPT !.status = "VERIFIED", !.at = TRUE]

\* An edit without a new confirmation.
Unstamped(row) == [row EXCEPT !.status = "USER_PROVIDED", !.at = FALSE]

\* A transaction about one fact: it leaves the row as new and, when it
\* withdraws what the fact said, goes on to the claims that cite it.
OpenFact(s, f, new, stamps, withdraws) ==
    /\ Request(s) /\ f \in Recorded
    /\ tx' = [tx EXCEPT ![s] =
          [op     |-> IF withdraws THEN "withdraw" ELSE "fact",
           fact   |-> f,
           sent   |-> [column \in DOMAIN Changed(facts[f], new) \cup (IF stamps THEN {"at"} ELSE {})
                         |-> new[column]],
           saw    |-> new.value,
           cited  |-> {}]]
    /\ overtaken' = overtaken \cup
          ({f} \cap Elsewhere(s, IF withdraws THEN {"fact", "withdraw", "demote", "claim"} ELSE {"withdraw", "demote"}))
    /\ UNCHANGED <<facts, claims, confirmed>>

\* Mutant: the time of an earlier decision is kept.
VerifyFactOnce(s, f) == OpenFact(s, f, Stamped(facts[f]), FALSE, FALSE)

\* verify_fact
VerifyFact(s, f) == OpenFact(s, f, Stamped(facts[f]), TRUE, FALSE)

\* reject_fact: the time is stamped too.
RejectFact(s, f) ==
    OpenFact(s, f, [facts[f] EXCEPT !.status = "REJECTED", !.at = TRUE], TRUE, TRUE)

\* Mutant: a new value is as good as the confirmed one.
EditedFactKept(row, value, verify) ==
    LET edited == [row EXCEPT !.value = value]
    IN  IF verify THEN Stamped(edited) ELSE edited

\* update_fact: a new value takes a confirmation back unless it comes with one.
EditedFact(row, value, verify) ==
    LET edited == [row EXCEPT !.value = value]
    IN  IF verify THEN Stamped(edited)
        ELSE IF value # row.value /\ row.status = "VERIFIED" THEN Unstamped(edited)
        ELSE edited

\* Mutant: an edit leaves the claims alone.
UpdateFactAlone(s, f, value, verify) ==
    OpenFact(s, f, EditedFact(facts[f], value, verify), verify, FALSE)

UpdateFact(s, f, value, verify) ==
    OpenFact(s, f, EditedFact(facts[f], value, verify), verify, value # facts[f].value)

\* No other transaction has flushed the row of f.
Free(s, f) == \A o \in Sessions \ {s} : tx[o].op = "demote" => tx[o].fact # f

WriteFact(s) ==
    LET t == tx[s]
    IN  /\ facts' = [facts EXCEPT ![t.fact] = Overwritten(@, t.sent)]
        /\ confirmed' = IF "at" \in DOMAIN t.sent /\ t.sent.at
                        THEN [confirmed EXCEPT ![t.fact] = t.saw] ELSE confirmed
        /\ tx' = [tx EXCEPT ![s] = Idle]

CommitFact(s) ==
    /\ tx[s].op = "fact" /\ Free(s, tx[s].fact)
    /\ WriteFact(s)
    /\ UNCHANGED <<claims, requests, overtaken>>

\* _demote_claims_citing: the flush of the fact, then the verified claims
\* that cite it.
ReadCiting(s) ==
    /\ tx[s].op = "withdraw" /\ Free(s, tx[s].fact)
    /\ tx' = [tx EXCEPT ![s].op = "demote",
                        ![s].cited = {c \in VerifiedClaims : tx[s].fact \in claims[c].cites}]
    /\ UNCHANGED <<facts, claims, requests, confirmed, overtaken>>

DemoteCiting(s) ==
    /\ tx[s].op = "demote"
    /\ claims' = [c \in Claims |-> IF c \in tx[s].cited
                                   THEN [claims[c] EXCEPT !.status = "SUGGESTED"] ELSE claims[c]]
    /\ WriteFact(s)
    /\ UNCHANGED <<requests, overtaken>>

\* A transaction that leaves claim c in a status.
OpenClaim(s, c, status, grounds) ==
    /\ Request(s) /\ c \in Proposed
    /\ tx' = [tx EXCEPT ![s] =
          [op |-> "claim", claim |-> c, grounds |-> grounds,
           sent |-> Changed([status |-> claims[c].status], [status |-> status])]]
    /\ overtaken' = overtaken \cup (grounds \cap Elsewhere(s, {"withdraw", "demote"}))
    /\ UNCHANGED <<facts, claims, confirmed>>

\* _require_verified_backing
Backed(c) == claims[c].cites \cap VerifiedFacts # {}

\* verify_claim: it is refused here, before anything is written.
VerifyClaim(s, c) ==
    /\ claims[c].checkable => Backed(c)
    /\ OpenClaim(s, c, "VERIFIED", claims[c].cites)

RejectClaim(s, c) == OpenClaim(s, c, "REJECTED", {})

CommitClaim(s) ==
    /\ tx[s].op = "claim"
    /\ claims' = [claims EXCEPT ![tx[s].claim] = Overwritten(@, tx[s].sent)]
    /\ tx' = [tx EXCEPT ![s] = Idle]
    /\ UNCHANGED <<facts, requests, confirmed, overtaken>>

\* The handler or the database fails: get_session rolls back.
Rollback(s) ==
    /\ tx[s] # Idle
    /\ tx' = [tx EXCEPT ![s] = Idle]
    /\ UNCHANGED <<facts, claims, requests, confirmed, overtaken>>

Next ==
    \E s \in Sessions :
        \/ \E f \in Facts, value \in Values, source \in {"USER_INPUT", "AI_VISION"}, verify \in BOOLEAN :
              CreateFact(s, f, value, source, verify)
        \/ \E c \in Claims, cited \in SUBSET Facts, checkable \in BOOLEAN :
              CreateClaim(s, c, cited, checkable)
        \/ \E f \in Facts, c \in Claims, value \in Values : FileAnalysis(s, f, c, value)
        \/ \E f \in Facts : VerifyFact(s, f) \/ RejectFact(s, f)
        \/ \E f \in Facts, value \in Values, verify \in BOOLEAN : UpdateFact(s, f, value, verify)
        \/ CommitFact(s)
        \/ ReadCiting(s)
        \/ DemoteCiting(s)
        \/ \E c \in Claims : VerifyClaim(s, c) \/ RejectClaim(s, c)
        \/ CommitClaim(s)
        \/ Rollback(s)

Spec == Init /\ [][Next]_vars

-----------------------------------------------------------------------------
\* Every row and every transaction has its shape, and the bound is kept.
TypeOK ==
    /\ facts \in [Facts -> FactRows \cup {NoFact}]
    /\ claims \in [Claims -> ClaimRows \cup {NoClaim}]
    /\ \A s \in Sessions : tx[s].op \in {"none", "fact", "withdraw", "demote", "claim"}
    /\ requests \in 0 .. MaxRequests
    /\ confirmed \in [Facts -> Values \cup {0}]
    /\ overtaken \subseteq Facts

\* A VERIFIED fact has its time: the flushes of concurrent confirmations,
\* rejections and edits, each sending the columns it changed, never compose
\* a row that the CHECK verified_facts_have_a_timestamp would refuse.
VerifiedIsStamped == \A f \in VerifiedFacts : facts[f].at

\* A checkable claim that may be broadcast has a verified fact behind it,
\* unless a fact it cites was edited or rejected while another request was
\* about that fact.
VerifiedClaimsAreBacked ==
    \A c \in VerifiedClaims :
        claims[c].checkable /\ claims[c].cites \cap overtaken = {} => Backed(c)

\* A VERIFIED fact says what the person who confirmed it saw, unless an edit
\* of it overlapped another request about it.
ConfirmedAsSeen ==
    \A f \in VerifiedFacts \ overtaken : facts[f].value = confirmed[f]
=============================================================================
