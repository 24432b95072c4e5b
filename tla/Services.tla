------------------------------- MODULE Services -------------------------------
(***************************************************************************)
(* The services of backend_core/services that share no row with each other:*)
(* their requests, workers and operators take turns, each step a step of   *)
(* one service, and nothing but the set of sessions is common to two of    *)
(* them. Each service is a module of its own, and so are its actions.      *)
(***************************************************************************)
EXTENDS Integers, FiniteSets

CONSTANTS
    Sessions,                          \* API requests under way
    MaxRequests,                       \* bound: requests, by service
    Facts, Claims, Values,             \* see ProductTruth
    Images,                            \* see Products, Assets
    Durations, ShotDurations, ShotsPerBoard, PlansPerRound, \* see Story
    Edits,                             \* see PostProduction
    Takes, Lengths, Logos, BatchSize,  \* see Cut
    Uploads, Generated,                \* see Media
    Users, Founder,                    \* see Membership
    Tokens, Lifetime, MaxAttempts, MaxTime, \* see SignIn
    Kits, Templates,                   \* see Branding
    Jobs, Wanted, Providers, Capability, Default, FailureThreshold, MaxRetries, MaxSwitches \* see Router

\* A key names the asset of a browser or of a worker.
ASSUME MediaAssumption == Uploads \cap Generated = {}
\* A workspace is created by one of its users.
ASSUME StaffAssumption == IsFiniteSet(Users) /\ Founder \in Users
\* jwt_refresh_token_ttl, in half seconds, is a second or more.
ASSUME SignAssumption == Lifetime \in Nat /\ Lifetime >= 2
\* A storyboard has shots, and MIN_CLIP_MS is positive.
ASSUME CutAssumption == IsFiniteSet(Takes) /\ Takes # {} /\ Lengths \subseteq Nat \ {0}
\* A round proposes some number of plans, a draft some number of shots, which
\* last as many hundredths of a second as a number says.
ASSUME StoryAssumption == PlansPerRound \in Nat /\ ShotsPerBoard \in Nat /\ ShotDurations \subseteq Nat
\* The bounds are numbers, and the clock may stand at 1.
ASSUME BoundsAssumption ==
    /\ MaxRequests \in [{"truth", "goods", "story", "post", "media", "staff", "sign", "brand"} -> Nat]
    /\ BatchSize \in Nat /\ MaxTime \in Nat \ {0} /\ MaxRetries \in Nat /\ MaxSwitches \in Nat
\* The settings name a provider there is.
ASSUME RouterAssumption == Default \in Providers

VARIABLES
    facts, claims, confirmed, overtaken, truthTx, truthRequests,
    status, links, tangled, crossed, goodsTx, goodsRequests,
    project, plans, scripts, boards, chosen, accepted, raced, storyTx, storyRequests,
    material, renders, postJobs, queue, kept, mixed, postTx, postRequests,
    stored, work, steps, asked, shifted,
    rows, objects, removed, replaced, doubled, mediaTx, mediaRequests,
    role, staffCrossed, staffTx, staffRequests,
    account, ends, denied, attempts, window, now, spent, overlapped, orphaned, signTx, signRequests,
    kits, templates, named, applied, brandTangled, brandTx, brandRequests,
    configs, routedJobs, finished, worker, operator, switches, closed, routerCrossed
-----------------------------------------------------------------------------
T == INSTANCE ProductTruth WITH MaxRequests <- MaxRequests.truth, tx <- truthTx, requests <- truthRequests
G == INSTANCE Products WITH Assets <- Images, MaxRequests <- MaxRequests.goods, tx <- goodsTx, requests <- goodsRequests
S == INSTANCE Story WITH MaxRequests <- MaxRequests.story, tx <- storyTx, requests <- storyRequests
P == INSTANCE PostProduction WITH
         MaxRequests <- MaxRequests.post, jobs <- postJobs, tx <- postTx, requests <- postRequests
C == INSTANCE Cut
M == INSTANCE Media WITH MaxRequests <- MaxRequests.media, tx <- mediaTx, requests <- mediaRequests
W == INSTANCE Membership WITH
         MaxRequests <- MaxRequests.staff, crossed <- staffCrossed, tx <- staffTx, requests <- staffRequests
A == INSTANCE SignIn WITH MaxRequests <- MaxRequests.sign, tx <- signTx, requests <- signRequests
B == INSTANCE Branding WITH
         MaxRequests <- MaxRequests.brand, tangled <- brandTangled, tx <- brandTx, requests <- brandRequests
R == INSTANCE Router WITH jobs <- routedJobs, crossed <- routerCrossed
-----------------------------------------------------------------------------
\* The variables of each service.
truth == <<facts, claims, confirmed, overtaken, truthTx, truthRequests>>
goods == <<status, links, tangled, crossed, goodsTx, goodsRequests>>
story == <<project, plans, scripts, boards, chosen, accepted, raced, storyTx, storyRequests>>
post == <<material, renders, postJobs, queue, kept, mixed, postTx, postRequests>>
cut == <<stored, work, steps, asked, shifted>>
media == <<rows, objects, removed, replaced, doubled, mediaTx, mediaRequests>>
staff == <<role, staffCrossed, staffTx, staffRequests>>
sign == <<account, ends, denied, attempts, window, now, spent, overlapped, orphaned, signTx, signRequests>>
brand == <<kits, templates, named, applied, brandTangled, brandTx, brandRequests>>
router == <<configs, routedJobs, finished, worker, operator, switches, closed, routerCrossed>>

vars == <<truth, goods, story, post, cut, media, staff, sign, brand, router>>

Init == T!Init /\ G!Init /\ S!Init /\ P!Init /\ C!Init /\ M!Init /\ W!Init /\ A!Init /\ B!Init /\ R!Init

\* A step of one service.
TruthMoves == T!Next /\ UNCHANGED <<goods, story, post, cut, media, staff, sign, brand, router>>
GoodsMove == G!Next /\ UNCHANGED <<truth, story, post, cut, media, staff, sign, brand, router>>
StoryMoves == S!Next /\ UNCHANGED <<truth, goods, post, cut, media, staff, sign, brand, router>>
PostMoves == P!Next /\ UNCHANGED <<truth, goods, story, cut, media, staff, sign, brand, router>>
CutMoves == C!Next /\ UNCHANGED <<truth, goods, story, post, media, staff, sign, brand, router>>
MediaMove == M!Next /\ UNCHANGED <<truth, goods, story, post, cut, staff, sign, brand, router>>
StaffMoves == W!Next /\ UNCHANGED <<truth, goods, story, post, cut, media, sign, brand, router>>
SignMoves == A!Next /\ UNCHANGED <<truth, goods, story, post, cut, media, staff, brand, router>>
BrandMoves == B!Next /\ UNCHANGED <<truth, goods, story, post, cut, media, staff, sign, router>>
RouterMoves == R!Next /\ UNCHANGED <<truth, goods, story, post, cut, media, staff, sign, brand>>

Next ==
    \/ TruthMoves \/ GoodsMove \/ StoryMoves \/ PostMoves \/ CutMoves
    \/ MediaMove \/ StaffMoves \/ SignMoves \/ BrandMoves \/ RouterMoves

Spec == Init /\ [][Next]_vars
-----------------------------------------------------------------------------
\* Rows, transactions and counters of every service have their shapes.
TypeOK ==
    /\ T!TypeOK /\ G!TypeOK /\ S!TypeOK /\ P!TypeOK /\ C!TypeOK
    /\ M!TypeOK /\ W!TypeOK /\ A!TypeOK /\ B!TypeOK /\ R!TypeOK

\* ProductTruth: a fact that is VERIFIED has its time.
VerifiedIsStamped == T!VerifiedIsStamped
\* ProductTruth: a checkable claim that may be broadcast has a verified fact.
VerifiedClaimsAreBacked == T!VerifiedClaimsAreBacked
\* ProductTruth: a VERIFIED fact says what was confirmed.
ConfirmedAsSeen == T!ConfirmedAsSeen

\* Products: a product with images has a primary one.
PrimaryKept == G!PrimaryKept
\* Products: DRAFT and ASSETS_READY say whether there are images.
StatusFollowsImages == G!StatusFollowsImages
\* Products: no later request brings an archived product back.
ArchivedStays == G!ArchivedStays

\* Story: a plan that was selected leaves one selected until the next round.
ChoiceKept == S!ChoiceKept
\* Story: a new round of plans leaves none selected.
NewRoundClearsChoice == S!NewRoundClearsChoice
\* Story: a project with an approved script or storyboard keeps one.
ApprovalKept == S!ApprovalKept
\* Story: the total of a storyboard is that of its shots.
TotalIsSum == S!TotalIsSum

\* PostProduction: no render that was flushed is lost to a duplicate job.
FlushedRenderSurvives == P!FlushedRenderSurvives
\* PostProduction: the newest timeline has the edits that were answered.
EditsKept == P!EditsKept
\* PostProduction: the job of a composition names a render of it.
JobComposesItsKey == P!JobComposesItsKey

\* Cut: every clip is encoded once, without gap or overlap.
EveryTakeOnce == C!EveryTakeOnce
\* Cut: the timeline is as it was last asked to be.
CutAsAsked == C!CutAsAsked

\* Media: the object of a READY asset is the one that was checked.
ReadyIsVerified == M!ReadyIsVerified
\* Media: no PENDING row is left for an object that a rejection deleted.
DeletionIsRecorded == M!DeletionIsRecorded
\* Media: what was decided about an upload stays.
DecisionStands == M!DecisionStands

\* Membership: a workspace has an owner.
OwnerRemains == W!OwnerRemains

\* SignIn: a refresh token is exchanged at most once.
RotatedOnce == A!RotatedOnce
\* SignIn: the counter of sign-ins ends.
WindowEnds == A!WindowEnds

\* Branding: the kit that was named last is the default.
NamedIsDefault == B!NamedIsDefault
\* Branding: a template counts how often it was applied.
UsesCounted == B!UsesCounted

\* Router: a breaker has trips exactly when it was opened.
TripsMatchBreaker == R!TripsMatchBreaker
\* Router: a provider that was turned on is tried again.
EnabledIsClosed == R!EnabledIsClosed
=============================================================================
