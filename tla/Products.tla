------------------------------ MODULE Products -------------------------------
(***************************************************************************)
(* services/products.py, the analysis and the review of one product        *)
(* (product_analysis.py, mark_reviewed of product_truth.py): its status,   *)
(* its images, and concurrent requests of v1/products.py about them.       *)
(*                                                                         *)
(* A request is one transaction: it reads, flushes (a flushed row stays    *)
(* locked), reads again and commits. UPDATEs carry the columns that changed*)
(* against the row as read; one that finds its row gone raises, and so does*)
(* one the partial unique index on is_primary refuses.                     *)
(***************************************************************************)
EXTENDS Integers, FiniteSets, FiniteSetsExt

CONSTANTS Assets,      \* media assets that are READY images of the workspace
          Sessions,    \* API requests under way
          MaxRequests  \* bound: requests that change something

VARIABLES
    status,    \* products.status
    links,     \* the rows of product_assets, by media asset
    tx,        \* the open transaction of each session
    requests,  \* how many requests there were
    tangled,   \* history: two requests about the images overlapped
    crossed    \* history: two requests that read the status overlapped

vars == <<status, links, tx, requests, tangled, crossed>>
-----------------------------------------------------------------------------
ProductStatuses == {"DRAFT", "ASSETS_READY", "ANALYZING", "REVIEW_REQUIRED", "READY", "ARCHIVED"}

\* _PRODUCT_TRANSITIONS
NextStatuses ==
    [DRAFT           |-> {"ASSETS_READY", "ARCHIVED"},
     ASSETS_READY    |-> {"ANALYZING", "DRAFT", "READY", "ARCHIVED"},
     ANALYZING       |-> {"REVIEW_REQUIRED", "ASSETS_READY", "ARCHIVED"},
     REVIEW_REQUIRED |-> {"READY", "ANALYZING", "ARCHIVED"},
     READY           |-> {"REVIEW_REQUIRED", "ANALYZING", "ARCHIVED"},
     ARCHIVED        |-> {}]

\* Mutant: a status without edges is free to go.
CanTransitionFromEnd(current, target) ==
    current = target \/ NextStatuses[current] = {} \/ target \in NextStatuses[current]

\* can_transition_product
CanTransition(current, target) == current = target \/ target \in NextStatuses[current]

\* product_assets
LinkRows == [primary : BOOLEAN, order : Nat]

Attached == DOMAIN links
Primaries == {a \in Attached : links[a].primary}

\* next_sort_order
NextOrder == IF Attached = {} THEN 0 ELSE 1 + Max({links[a].order : a \in Attached})

Without(table, gone) == [a \in DOMAIN table \ gone |-> table[a]]

\* The first of list_assets: primary first, then by order.
Leads(a, S) ==
    /\ a \in S
    /\ \A b \in S : links[b].primary => links[a].primary
    /\ \A b \in S : links[b].primary = links[a].primary => links[a].order <= links[b].order

Idle == [op |-> "none", locks |-> {}]

\* create: always DRAFT, with nothing attached.
Init ==
    /\ status = "DRAFT"
    /\ links = [a \in {} |-> [primary |-> FALSE, order |-> 0]]
    /\ tx = [s \in Sessions |-> Idle]
    /\ requests = 0
    /\ tangled = FALSE /\ crossed = FALSE

-----------------------------------------------------------------------------
ImageOps == {"attach", "promote", "detach"}
StatusOps == {"attach", "detach", "move"}

Overlaps(s, ops) == \E o \in Sessions \ {s} : tx[o].op \in ops

\* A request arrives; what it reads first goes into its transaction.
Open(s, t) ==
    /\ tx[s] = Idle /\ requests < MaxRequests
    /\ requests' = requests + 1
    /\ tx' = [tx EXCEPT ![s] = t]
    /\ tangled' = (tangled \/ (t.op \in ImageOps /\ Overlaps(s, ImageOps)))
    /\ crossed' = (crossed \/ (t.op \in StatusOps /\ Overlaps(s, StatusOps)))
    /\ UNCHANGED <<status, links>>

\* No other transaction has flushed the row of a.
Free(s, a) == \A o \in Sessions \ {s} : a \notin tx[o].locks

Advance(s, t) == tx' = [tx EXCEPT ![s] = t] /\ UNCHANGED <<status, links, requests, tangled, crossed>>

\* The request is over, well or not.
Close(s) == tx' = [tx EXCEPT ![s] = Idle] /\ UNCHANGED <<requests, tangled, crossed>>

Rollback(s) == tx[s] # Idle /\ Close(s) /\ UNCHANGED <<status, links>>

\* Mutant: an image is the primary only if asked to be.
AttachAsWanted(s, a, wanted) ==
    Open(s, [op |-> "attach", asset |-> a, primary |-> wanted, saw |-> status,
             clears |-> IF wanted THEN Primaries ELSE {}, locks |-> {}, at |-> "read"])

\* attach_asset: the first image, or one asked to be, becomes the primary.
Attach(s, a, wanted) ==
    LET primary == wanted \/ Attached = {}
    IN  Open(s, [op |-> "attach", asset |-> a, primary |-> primary, saw |-> status,
                 clears |-> IF primary THEN Primaries ELSE {}, locks |-> {}, at |-> "read"])

\* set_primary_asset
SetPrimary(s, a) ==
    /\ a \in Attached
    /\ Open(s, [op |-> "promote", asset |-> a, primary |-> TRUE, saw |-> status,
                clears |-> Primaries, locks |-> {}, at |-> "read"])

\* clear_primary: the UPDATE of the rows it selected, which must be there.
ClearPrimary(s) ==
    LET t == tx[s]
    IN  /\ t.op \in {"attach", "promote"} /\ t.at = "read"
        /\ t.clears \subseteq Attached /\ \A a \in t.clears : Free(s, a)
        /\ Advance(s, [t EXCEPT !.at = "cleared", !.locks = t.clears])

Cleared(t) == [b \in Attached |-> IF b \in t.clears THEN [links[b] EXCEPT !.primary = FALSE] ELSE links[b]]

\* The partial unique index: one primary a product.
OnePrimary(table) == Cardinality({b \in DOMAIN table : table[b].primary}) <= 1

\* The insert (uq_product_asset allows one link an asset), the status, and
\* the commit.
CommitAttach(s) ==
    LET t == tx[s]
        inserted == [b \in Attached \cup {t.asset} |->
                        IF b = t.asset THEN [primary |-> t.primary, order |-> NextOrder]
                                       ELSE Cleared(t)[b]]
    IN  /\ t.op = "attach" /\ t.at = "cleared"
        /\ t.asset \notin Attached
        /\ OnePrimary(inserted)
        /\ links' = inserted
        /\ status' = IF t.saw = "DRAFT" THEN "ASSETS_READY" ELSE status
        /\ Close(s)

CommitPrimary(s) ==
    LET t == tx[s]
        promoted == [Cleared(t) EXCEPT ![t.asset].primary = TRUE]
    IN  /\ t.op = "promote" /\ t.at = "cleared"
        /\ t.asset \in Attached /\ Free(s, t.asset)
        /\ OnePrimary(promoted)
        /\ links' = promoted
        /\ Close(s)
        /\ UNCHANGED status

\* detach_asset
Detach(s, a) ==
    /\ a \in Attached
    /\ Open(s, [op |-> "detach", asset |-> a, primary |-> links[a].primary, saw |-> status,
                heir |-> {}, last |-> FALSE, locks |-> {}, at |-> "read"])

\* The DELETE, and what remains as the transaction sees it then.
DeleteLink(s) ==
    LET t == tx[s]
        remaining == Attached \ {t.asset}
    IN  /\ t.op = "detach" /\ t.at = "read" /\ Free(s, t.asset)
        /\ \/ remaining = {} /\ Advance(s, [t EXCEPT !.at = "deleted", !.locks = {t.asset}, !.last = TRUE])
           \/ \E a \in remaining :
                /\ Leads(a, remaining)
                /\ Advance(s, [t EXCEPT !.at = "deleted", !.locks = {t.asset},
                      !.heir = IF t.primary /\ ~links[a].primary THEN {a} ELSE {}])

\* Mutant: the last image leaves the status as it is.
CommitDetachOnly(s) ==
    LET t == tx[s]
        left == Without(links, {t.asset})
    IN  /\ t.op = "detach" /\ t.at = "deleted"
        /\ t.heir \subseteq DOMAIN left /\ \A b \in t.heir : Free(s, b)
        /\ links' = [b \in DOMAIN left |-> IF b \in t.heir THEN [left[b] EXCEPT !.primary = TRUE] ELSE left[b]]
        /\ Close(s) /\ UNCHANGED status

\* The next image takes over, and the status falls back with the last one.
CommitDetach(s) ==
    LET t == tx[s]
        left == Without(links, {t.asset})
        promoted == [b \in DOMAIN left |-> IF b \in t.heir THEN [left[b] EXCEPT !.primary = TRUE] ELSE left[b]]
    IN  /\ t.op = "detach" /\ t.at = "deleted"
        /\ t.heir \subseteq DOMAIN left /\ \A b \in t.heir : Free(s, b)
        /\ OnePrimary(promoted)
        /\ links' = promoted
        /\ status' = IF t.last /\ t.saw = "ASSETS_READY" THEN "DRAFT" ELSE status
        /\ Close(s)

\* transition: the product moves from the status as it was read.
Move(s, targets, path) ==
    /\ \A i \in DOMAIN path : CanTransition(IF i = 1 THEN status ELSE path[i - 1], path[i])
    /\ Open(s, [op |-> "move", saw |-> status, target |-> targets, locks |-> {}, at |-> "read"])

\* archive_product
Archive(s) == Move(s, "ARCHIVED", <<"ARCHIVED">>)

\* mark_reviewed: a verified fact is there (see ProductTruth).
MarkReviewed(s) == Move(s, "READY", <<"READY">>)

\* analyze: images first, then the provider; the status as it was read is
\* what the transitions start from.
Analyze(s) ==
    /\ Attached # {}
    /\ Move(s, "REVIEW_REQUIRED", <<"ANALYZING", "REVIEW_REQUIRED">>)

\* A status that did not change is not sent; an analysis passes through
\* ANALYZING and always sends it. Its failure rolls back: Rollback.
CommitMove(s) ==
    LET t == tx[s]
    IN  /\ t.op = "move"
        /\ status' = IF t.saw = t.target /\ t.target # "REVIEW_REQUIRED" THEN status ELSE t.target
        /\ Close(s)
        /\ UNCHANGED links

Next ==
    \E s \in Sessions :
        \/ \E a \in Assets, wanted \in BOOLEAN : Attach(s, a, wanted)
        \/ \E a \in Assets : SetPrimary(s, a) \/ Detach(s, a)
        \/ ClearPrimary(s)
        \/ CommitAttach(s)
        \/ CommitPrimary(s)
        \/ DeleteLink(s)
        \/ CommitDetach(s)
        \/ Archive(s)
        \/ MarkReviewed(s)
        \/ Analyze(s)
        \/ CommitMove(s)
        \/ Rollback(s)

Spec == Init /\ [][Next]_vars

-----------------------------------------------------------------------------
\* Rows and transactions have their shapes, and the bound is kept.
TypeOK ==
    /\ status \in ProductStatuses
    /\ Attached \subseteq Assets /\ \A a \in Attached : links[a] \in LinkRows
    /\ \A s \in Sessions : tx[s].op \in {"none", "move"} \cup ImageOps
    /\ requests \in 0 .. MaxRequests

\* A product with images has a primary one: no sequence of attaching,
\* promoting and detaching loses it, unless two such requests overlapped.
PrimaryKept == ~tangled /\ Attached # {} => Primaries # {}

\* DRAFT means that there is no image, ASSETS_READY that there is one, unless
\* requests that go by the status or the images overlapped.
StatusFollowsImages ==
    ~tangled /\ ~crossed =>
        /\ status = "DRAFT" => Attached = {}
        /\ status = "ASSETS_READY" => Attached # {}

\* An archived product is brought back by no request that began after it was
\* archived: only by one that read its status before.
ArchivedStays ==
    [][status = "ARCHIVED" /\ status' # "ARCHIVED" =>
         \E s \in Sessions : tx[s].op \in StatusOps /\ tx'[s] = Idle /\ tx[s].saw # "ARCHIVED"]_vars
=============================================================================
