# Verification of AI-SHIPIN (aipvs)

TLA+ models of the backend of this repository, model-checked with TLC and
proved about with TLAPS. `B/` below stands for
`packages/backend-core/src/backend_core/`. The manifest is `PROJECT.json`: it
maps every definition to the source lines it translates, and lists the runs,
the mutants, the hazards, the findings and the theorems.

## The system

A workspace describes a product, has a script and storyboard written for it,
generates one video clip a shot through an external provider, adds speech,
renders and checks the result. The HTTP API (`apps/api`) runs one database
transaction a request; Celery workers (`apps/worker`) run the long work, one
short transaction a step; PostgreSQL holds all state of record, Redis holds
job locks, rate limits and revoked tokens, and beat fires a periodic sweep.

| Component | State | Operations | Talks to |
|---|---|---|---|
| Credit ledger, `B/services/credit_ledger.py` | account row, append-only rows under unique keys | ensure_account, reserve, capture, release, grant | called in the transaction of the job that pays |
| Jobs, `B/services/jobs.py` | `generation_jobs`, `provider_jobs` | create, transition, complete, fail, cancel | ledger, runners, reaper, API |
| Video runner, `B/jobs/runner.py` | Redis lock, shot status, clips | one attempt: lock, load, submit, poll, ingest, complete | jobs, router, provider, storage |
| Reaper, `B/jobs/reaper.py` | none of its own | sweep every five minutes | jobs, the Redis locks |
| TTS, render, QC runners, `B/jobs/*_runner.py` | tracks, renders, reports | one attempt each | jobs, storage |
| Batch import, `B/services/batch.py`, `B/jobs/batch_runner.py` | batches and items | import, claim, dispatch, run, roll up, retry, cancel | products, projects, Celery |
| Provider router, `B/services/router.py` | provider configs, breaker | score, route, record failure or success | job history, video runner |
| Uploads, `B/services/uploads.py` | media assets | presign, complete, reject | storage |
| Product truth, `B/services/product_truth.py` | facts, claims | verify, reject, update, demote | products, creative |
| Storyboards, creative, projects | versions and statuses | generate, edit, approve, supersede, transition | video jobs |
| Editor and render planning, `B/services/editor.py`, `B/render/` | timelines | pure edit operations, subtitles, plans | renders |
| Post-production, `B/services/post_production.py` | renders by version, their jobs | voiceover, compose, render, check | editor, jobs, Celery |
| Authentication, `B/services/auth.py` | users, Redis denylist and counters | register, login, refresh, logout | every route |
| Workspaces, `B/services/workspaces.py` | members and their roles | invite, change, remove | every route |
| Branding, `B/services/branding.py` | kits, templates | create, update, delete, apply | projects |
| Moderation, audit, cost, admin | records, rows | screen, record, quote, report | every route |
| Prompt compiler, `B/prompts/compiler.py`, `B/services/storyboards.py` | none of its own | compile, recompile, pick references | storyboards, video runner |
| Provider adapters, `B/providers/` | the mock's jobs, in memory | build, generate, submit, poll, download | runners, creative, products |
| Web frontend, `apps/web/src/lib` | upload list, polled jobs | reducer, poll loop | API |

What is hard about it: every service reads a row, decides, and writes it at a
later commit with nothing locked in between (the ledger's account row is the
exception); a job is touched by an API request, several workers and the reaper
at once; messages are acknowledged late and so delivered again; processes die
between a commit and the message that should follow it; locks expire under
live attempts.

What makes each component correct:

- ledger: the account agrees with its rows at every commit; no job is charged
  twice; a reservation that does not fit is refused by name; a hold comes back
  as it was taken;
- jobs: a job that is over holds no money, a charge is for a clip, a job is
  submitted once, a submitted job ends, a lock is freed;
- batch: a claim takes no more than the bound, a row is run once a claim, every
  claimed row is run, an invalid row never is;
- router: a breaker opens after consecutive failures and closes after success;
- product truth: a verified fact has its time and says what was confirmed, and
  no verified claim rests on a rejected fact;
- products: a product with images has a primary one, and its status follows them;
- storyboards, creative, projects: one approved version at a time, one selected
  plan, a storyboard's total is that of its shots;
- uploads: READY means a verified object exists, and what was decided stays;
- editor and render: an edit costs no shot, a timeline is as it was asked to be,
  no edit is lost to a later render;
- sign-in: a refresh token is exchanged once; a counter of attempts ends;
- workspaces: an owner remains;
- branding: the kit named last is the default, every use of a template counts.

Most of these hold between requests that do not overlap, and the code has no
lock that makes them hold otherwise. The models have every overlap, and a
history variable records the ones that break a promise (`overtaken`, `tangled`,
`crossed`, `raced`, `mixed`, `replaced`, `doubled`, `overlapped`, `orphaned`,
`shifted`).
A property then says that the promise holds unless that very overlap happened,
so it names the races the code is open to and rules out all others.

## Modules

| Module | What it is |
|---|---|
| `Tally` | totals of tables of amounts, as cardinalities, so that one update needs no induction over the rows |
| `Escrow` | the abstract specification of the ledger: each job's money moves forward through fresh, held, returned or charged, and grants cover it all |
| `CreditLedger` | one workspace's account and concurrent sessions |
| `VideoJobs` | the video pipeline: API, queue, workers, lock, reaper |
| `Batch`, `Intake` | one imported batch: requests, dispatchers and workers over its rows; from the lines of a file to those rows |
| `Columns` | what a flush sends: the columns that changed against the row as read |
| `Router` | routing and the circuit breaker, over the jobs of several workers and an operator |
| `ProductTruth`, `Products` | facts and claims of one product; its images and status |
| `Story`, `ShotFitting` | one project's plans, scripts and storyboards; drafted durations fitted to it |
| `PostProduction`, `Cut` | renders, timelines and their jobs; what edits do to a timeline |
| `Narration`, `Composition`, `Quality` | cues of a segment; the ffmpeg command of a timeline; the checks of a file |
| `Media` | uploads and ingestion over object storage |
| `SignIn`, `Membership`, `Branding` | one account and its tokens; one workspace's members; its kits and templates |
| `Quotes`, `Screening` | estimates and reservations; moderation of a request's texts |
| `Prompts`, `Writing`, `Adapters` | a shot's prompt and its images; a script and the calls that write it; which provider is built, what its answers mean |
| `MCCreditLedger`, `MCVideoJobs`, `MCBatch` | symmetry, and a check of `Total` against the library's sum |
| `Services` | the ten services that share no row, composed: their steps interleave, and each invariant has its name here |
| `MCServices` | which service of `Services` moves, and the checks of the pure algorithms |
| `CreditLedgerProofs`, `VideoJobsProofs`, `BatchProofs` | theorems and proofs about the module of that name |
| `CatalogueProofs` | about `ProductTruth` and `Products` |
| `StoryProofs` | about `Story` |
| `MediaProofs` | about `Media`, `PostProduction` and `Cut` |
| `AccountProofs` | about `SignIn`, `Membership` and `Branding` |
| `ServicesProofs` | about `Router`, and the types of all services |

### CreditLedger

`books` is the committed account and its rows, `draft` the uncommitted view of
the session that has the row lock (`holder`), `pc` and `call` where each session
is. One action is one database round trip: `CheckKey` is the idempotency read,
`EnsureAccount` and `InsertAccount` are `ensure_account`, `LockAccount` is
`SELECT ... FOR UPDATE`, `Apply` computes and flushes, `Commit` and `Rollback`
end the caller's transaction. A transaction may hold several calls, as a sweep
does. `Flush` applies the CHECK constraints and the unique index.

Modelling decisions:

- Credits are enabled; with `ENABLE_CREDITS` off the service is a no-op. Jobs
  made while it was off have no reservation: `Init` starts with any such set.
- Amounts are whole ten-thousandths of a credit, the unit `_round` keeps.
- READ COMMITTED. The locked SELECT returns the current row: the instance
  `ensure_account` returned is not kept by `reserve` or `grant`, so the identity
  map's weak reference is gone when the second SELECT runs.
- `capture` is called with any amount of `Amounts`, above or below the
  reservation, though no caller passes `actual_cost` today.
- The signup row is the term `SignupGrant` in `SpentMatchesCaptures`.

### VideoJobs

`status`, `retries`, `started`, `shot`, `money`, `produced` are the job's rows;
`money` is the set of kinds of ledger rows the job has, written as CreditLedger
writes them. `lock` and `messages` are Redis and the broker. Each worker has a
label `pc`, and `seen` is the row its open transaction read: `Load`,
`OpenTransaction` and `Poll` read it, and `LoadCommit`, `Record`, `PollCommit`,
`Complete`, `FailCommit`, `TimeoutCommit` and `StopCommit` decide on it and
write. `Written` says what SQLAlchemy sends: only columns that changed against
the row as read. `CancelRead`/`CancelCommit` and `SweepRead`/`SweepCommit`/
`SweepUnlock` do the same for the API and the reaper. `mark` tells whether the
attempt has submitted on record, and whether it stamped `started_at`.

Modelling decisions:

- A job stands for one shot and prompt (its idempotency key). A request for an
  existing job enqueues it again, as the bulk endpoint does.
- A submission, a poll and an ingestion have any outcome the adapters report.
  Rows the pipeline never reads back (progress, provider attempts, audit) and
  backoff delays are left out. Routing only writes the provider's name.
- The lock's TTL is the whole video budget, so it does not expire before the
  submission of the attempt that took it is recorded (`LockExpires`). The stuck
  threshold (3600 s) is above the hard time limit of a task (2100 s), so a
  `started_at` is not old while the attempt that stamped it lives (`GrowsOld`).
  A later attempt has no such protection, because `started_at` is never reset.
- `Abort` is the soft time limit or an uncaught error; `Die` a killed process,
  whose message is delivered again or lost with the broker connection.
- The reaper runs one sweep at a time: beat fires it and a sweep is short. Its
  `limit` of 100 rows is above the number of jobs in any instance.

### Batch

`batch` and `item` are the rows of `batches` and `batch_items`, with the columns
the code decides on, `holder` the row locks, `dispatches` and `runs` the two
kinds of messages. A session is an API request or a worker process: `task` is
what it is for, `pc` where it is, `read` and `saw` the rows and the batch its
transaction read, `rollup` the batch `_refresh_counts` has prepared. `Start` or
`Dispatch`, `Claim` and `ClaimCommit` are `claim_next` for a request and for the
dispatcher, which then sends (`SendRun`, `SendDispatch`). `TakeRun`,
`MarkRunning`, `LoadRow`, `Finish` and `RunCommit` are `run_item`; `Refuse`
turns it into `_fail`, which goes the same way with the other outcome. `Retry`,
`Cancel` and their commits are the other endpoints. `Updated` is what
SQLAlchemy sends, as `Written` is in VideoJobs.

Modelling decisions:

- Reads of one transaction that follow each other are one step: the batch and
  the count, the batch and the rows to retry, the flush of a row and the counts
  after it. What lies between a read and the commit that rests on it is not.
- `create_from_upload` is the initial state: any split of rows into pending and
  invalid ones.
- In `_refresh_counts` the batch is read again: the instance `_create_project`
  loaded is not kept, so the identity map has dropped it.
- Locks on several rows are taken at once. The code takes them one by one, and
  may meet a deadlock, which PostgreSQL breaks: that is `Rollback`.
- The dispatcher's 30 s countdown is a message that waits.

`Intake` is what comes before and inside: `Parsed` numbers and validates the
lines of a file, `Created` is the initial state of `Batch`, `BriefFrom` and
`Materialises` are the inside of `run_item`. A cell is empty, too long for its
column, or a value; header names and encodings are left out.

### The services: ProductTruth, Products, Story, Media, Membership, Branding

A request is one transaction of a session: an action reads the rows and decides
(`VerifyFact`, `AttachAsset`, `ApproveScript`, ...), another commits what it
flushed, `Rollback` is any failure in between. `tx` keeps what was read. What
is written is `Columns!Merged` of the row as it is by then, since SQLAlchemy
sends only the columns a request changed; a time that is stamped anew is always
sent. A bulk UPDATE (`clear_plan_selection`, `supersede`, the default of a kit)
chooses its rows by what is committed when it starts, waits for the rows
another transaction wrote, and locks them.

Modelling decisions:

- Texts, names and media keys are model values or left out. A fact's text is a
  small number, so that an edit can be seen to change it.
- `Story`: a new storyboard has any shots that pass the validation of their total
  (`BoardsAreFitted` checks that `ShotFitting` gives such shots of some draft). A request
  that finds no verified fact is a `Rollback`.
- `Media`: a PUT is possible as long as the row exists, since the signed URL
  does not know of it. HEAD, the first bytes and the whole content are three
  reads of an object that may change between them. Two histories keep apart what
  may befall them: a PUT during a completion or after a decision, and a second
  completion. The rejection of
  `_reject` is its own transaction and is committed even if the request fails.
- `Membership`: the permission matrix is that of `domain/enums.py`. A request
  reads the caller's role, the row and the number of owners at once, as they
  follow each other without a lock.
- `Branding`: the partial unique index refuses the second of two defaults, and
  the request rolls back.

### SignIn

`ends` and `denied` are in half seconds, because a token ends on a whole second
while a denial is cut to whole seconds from the moment it is written. A call to
Redis is a step: INCR and EXPIRE of the counter are two, the look-up of the
denylist and the denial are two. Access tokens are checked without state and
are left out; a session that dies between two calls is `Fail`.

### Router

`configs` are the rows of `provider_configs`, `finished` the jobs in the health
window in order of `finished_at`, `worker[j]` what the one attempt at job j is
doing. `Judge`/`Trip` and `ReadSuccess`/`Close` are the two transactions a
runner opens for `record_failure` and `record_success`, each a read and a later
commit; `NoteLost` is that they are best effort. `OpenSwitch`/`CommitSwitch` is
`set_enabled`. `until` is null, to come or past; `Elapse` is time. The score is
that of `_score` over a common denominator.

### PostProduction and Cut

`renders` holds a project's renders by version, each with what its timeline was
composed of (`base`) and the edits it carries; `jobs` is keyed by idempotency
key. `compose_timeline`, `next_version` and the insert are steps of their own
(`CreateRender` or `ComposeDraft`, `Number`, then the flush or the commit), so a
version may be taken by the time its row is inserted; the insert waits for
another one of that version (`VersionFree`). `draft`, which `get_timeline`,
`apply` and `rerender` begin with, makes the first row in their transaction
(`FirstDraft`): `apply` edits that row, `rerender` adds another one after it.
A composition inserts its render before it looks for the job. `Attempt` is the first transaction of the TTS and render runners:
it takes the message and asks the job machine for CREATED -> PROCESSING, which
has no such edge, so the rest of those runners is unreachable and not modelled
(`PostVoiceJobStarts`). `Cut` is what `apply_operations` does to the VIDEO
track: the operations of a batch work on a copy, which is resequenced once, when
it is stored; a refusal stores nothing; `Encoded` is what `build_render_plan` makes of the result.

### Algorithms

`ShotFitting`, `Narration`, `Composition`, `Quality`, `Quotes`, `Screening`,
`Intake`, `Prompts` (what a shot asks for and with which images), `Writing` (what
a script may be, the calls that write it and how long it is to say) and
`Adapters` (which provider is built, and what its answers mean) are operators. Their arithmetic is exact in the unit the code rounds
to; where a binary float may round a tie the other way the module says so.
`MCServices` states each property as an assumption over small inputs, which TLC
evaluates; some say that a divergence exists (`ShortSegmentsLoseWords`).

## Runs

| Run | Shows |
|---|---|
| `CreditLedger` | two sessions, two jobs, one top-up key, amounts 1 and 2, signup grant 2: the account matches its rows, overdrafts are refused by name, and the ledger implements `Escrow` |
| `VideoJobs` | one job, two workers, one retry, two messages: settled when final, charged for a clip, first submission exclusive |
| `VideoJobsLiveness` | one job, one worker, two retries: a submitted job ends, a lock is freed |
| `Batch` | two rows, two sessions, three requests, two failures: one run a claim, invalid rows stay |
| `Services` | each of the ten services on its own instance: their invariants and action properties; the algorithms on every small input |
| `LedgerFirstJobRaceAbsorbed` | violated: the loser of the account insert loses its job row |
| `LedgerSecondWriteAbsorbed` | violated: the second of two concurrent captures raises |
| `VideoTimeoutReleasesHold` | violated: TIMEOUT keeps the reservation |
| `VideoReapedJobIsCarried` | violated: a reaped job returns to QUEUED without a message |
| `VideoNoChargeAfterRelease` | violated: a cancel that overlaps a completion is charged |
| `BatchQueuedRowStarts` | violated: a row the start request claims is never started |
| `PostVoiceJobStarts` | violated: a voiceover job a worker takes is never started |

Each property of a passing run has a mutant in `PROJECT.json`, an operator
beside the original that changes it as a plausible bug would.

`Services` moves one service at a time (`part` in `MCServices`); the others rest
in an initial state. The services share no rows, so a product of their state
spaces would say no more than their union, which is what TLC explores.

Bounds. In the ledger, a signup grant of 2 with amounts 1 and 2 lets two jobs
fit together, or exclude each other, or be charged more than they held; two
sessions are what each race needs, and two jobs are what a hold of one against
a charge of another needs. One job suffices for the pipeline: jobs share
workers and the sweep's commit, and neither lets one job's rows depend on
another's. Two workers give duplicate attempts; `MaxMessages = 2` bounds
requests, not redeliveries or retries, and gives both workers a message.
`MaxRetries = 1` covers a retried and an exhausted failure; the liveness run
takes 2, so that a sweep can meet a job it has already returned. Deadlock is
not checked in VideoJobs because a finished job, asked for no more, may rest;
the ledger can always begin a call, and its run checks deadlock. In Batch, two rows give a
claim something to leave behind and a roll-up a second opinion. A start claims a
tranche that is never sent (`BatchQueuedRowStarts`), so a row runs only if a
dispatcher finds room to claim it: one sent by a retry that found nothing failed,
or by a start that found the rows held by another start, which then rolls back.
`MaxRequests = 3` is two such requests and a retry or a cancellation of what came
of them, and `MaxFailures = 2` that rollback and one more failure; `MaxAttempts = 2` lets a row be retried once. With the
requests used up a batch may rest, so deadlock is not checked. Symmetry is
sound: `ImplementsEscrow` is a safety property, and the liveness runs use none.

In `Services` every race is between two sessions, and `MaxRequests` is as long
as the longest history a property is about:

| Service | Instance |
|---|---|
| ProductTruth | one fact, one claim, two texts, 5 requests: record, confirm, propose, verify, and one that overlaps |
| Products | three images, 4 requests: a primary to detach and two to promote |
| Story | durations 8 and 12, shots of 4 or 6, two shots a board, one plan a round, 3 requests |
| PostProduction | one edit, 3 requests: compose, edit, compose again |
| Cut | three clips of length 1 or 2, one logo, batches of two operations |
| Media | one upload, one generated file, 3 completions |
| Membership | three users, 4 requests: two owners, a third user, a way back |
| SignIn | two tokens, lifetime 6 half seconds, one attempt a window, 2 sign-ins, time to 5 |
| Branding | two kits, two templates, 4 requests |
| Router | two jobs, of which one prefers a provider; two providers, threshold 1, one retry, the switch used twice |

A service whose requests are used up rests, so deadlock is not checked.
`Sessions` and the refresh tokens are symmetric; users are not, as one founded
the workspace. Every clock and counter is capped in a guard by a constant of its module
(`MaxRequests`, `MaxTime`, `MaxSwitches`).

Fairness (`VideoJobs!Fairness`). A running worker takes its next step, an
enqueue that is due happens, the broker hands a waiting message to some worker,
TTLs run out and clocks advance, beat fires: weak fairness. Strong fairness of
`BudgetEnds`: the deadline check runs at every poll, so polling does not
outlast the budget. Strong fairness of `SweepCommit`: a sweep may die, not
every one. Requests, cancellations, deaths and losses are never obliged.
`StartedEnds` needs the sweep: a killed attempt, or a job the sweep returned to
the queue without a message, is ended by a later one. It says nothing of a job
that was never submitted: one whose message was lost is returned by no query.

`Batch!Fairness`: sessions go on, and waiting messages are delivered; strong
fairness, as a worker is free only between tasks. The counterexample to
`QueuedRowStarts` has no failure in it. `PostProduction!FairSpec`: a waiting
message is taken by some worker. The counterexample to `QueuedJobStarts` is a
message that was taken.

## Proofs

Every invariant and every action property of a passing run is a theorem, for
every value of the constants; so is the ledger's refinement. A theorem of
`Services` is about all ten services at once: a step of another service leaves
the variables alone, and each service's own steps keep its inductive invariant.

Assumptions on the constants:

| Assumption | Says | Because |
|---|---|---|
| `LedgerAssumption` | amounts are naturals, top-ups are positive | amounts are never negative, and `grant` is called with a positive one |
| `JobsAssumption` | retry limit and message bound are naturals, `NoWorker` is no worker | a setting, a bound, a null |
| `BatchAssumption` | finitely many numbered rows, a concurrency from 1 to 20, bounds that are naturals, `Nobody` is no session | a file is finite, a CHECK limits the concurrency, a null |
| `MediaAssumption` | browsers and workers write under different keys | keys are fresh UUIDs |
| `StaffAssumption` | finitely many users, of whom one founded the workspace | `create` adds its caller |
| `SignAssumption` | a token lives a second or more | `jwt_refresh_token_ttl` has a lower limit |
| `CutAssumption` | a storyboard has finitely many shots and at least one, of positive lengths | a generated board is never empty |
| `StoryAssumption` | how many plans and shots there are, and how long a shot lasts, are naturals | counts, and hundredths of a second, to which the code rounds |
| `RouterAssumption` | the default provider is one of the providers | the settings name one |
| `BoundsAssumption` | the bounds are naturals, the clock may stand at 1 | the models' own bounds |

The ledger, the pipeline and imports:

- `TypeCorrect`, `HoldsAddUp`, `ChargesAddUp`, `OverdraftRefusedByName`: the
  inductive invariant has both the books and the draft add up (`Sound`), the
  draft extend the books, and each job being created by one session only. The
  last part is needed: a stale idempotency read would otherwise reserve for a
  job already settled, and its row would count as no hold. `TotalUpdate` is the
  arithmetic: one update of a table changes its total by the difference.
- `LedgerImplementsEscrow`: the draft extending the books is what makes a commit
  one escrow step, however many calls it holds.
- `VideoTypeCorrect`, `FinalJobsAreSettled`, `ChargesAreForClips`,
  `FirstSubmissionIsExclusive`: the strengthening says that only existing jobs
  are queued, that a worker about to complete has ingested its clip, and that
  before a first recorded submission the worker that is submitting holds the lock.
- `RunsAreClaimed`: messages to run a row, and sessions that are about to send
  one or are running it, never outnumber its attempts. The induction follows
  each session by its place in the code: the rows of an uncommitted claim are
  locked and still say what was read of them, so the commit raises `attempts`
  for every message that will follow, whatever overlaps; a redelivered message
  replaces the worker that lost it.
- `InvalidRowsAreLeft`: no message and no session's rows are ever about an
  INVALID row, and a commit sends only what was changed of the rows it read.
- `BatchTypeCorrect`: a claim is a first part of the rows that wait, as long as
  the room that was counted, so one claim never has more than `max_concurrency`
  rows. That the first `n` of any rows are at most `n` (`FirstIsLimited`) goes by the
  greatest of them.

One product (`CatalogueProofs`):

- `VerifiedFactsAreStamped`: what a transaction sends decides, not what it read.
  Whoever makes a fact VERIFIED sends the time, whoever clears the time sends
  another status, and that keeps any row stamped.
- `FactsSayWhatWasConfirmed`, `BroadcastClaimsAreBacked`: columns alone do not
  settle these. The invariant says who else is at work: a withdrawal of a fact
  that nothing overtook is the only request about it, has found every claim that
  cites it, and demotes them in the commit that withdraws; so whoever is about to
  verify a claim still has the facts it found, or is on record as overtaken.
- `APrimaryRemains`, `StatusIsOfTheImages`, `ArchivedIsLeftOnlyByStaleReads`: a
  request that overlapped no other still has the row it read, the primary image
  it found and, if it decides by it, the status. ARCHIVED is the end of the
  status machine for whoever reads it.

One project (`StoryProofs`):

- `OnePlanStaysChosen`, `ARoundStartsUnchosen`, `AnApprovalRemains`: what the
  properties except has to be in the history from the moment the overlap begins,
  not from the commit (`SpoiledIsRaced`). Then a request can count on what it
  read (`Current`): a round has every selected plan locked, a document read as
  approved is approved. The unique indexes give "at most one"; that it is not
  none is the invariant.
- `TotalsFollowShots`: a total is a fold over the shots. What a fold computes is
  proved by induction over the numbers in the form of a set (`SetInduction`: a
  set of numbers with 0 and the successor of each of its members is `Nat`), which
  the provers can use without instantiating an operator. So any draft has a total.

Media and renders (`MediaProofs`):

- `ChecksAreOfOneObject`, `RejectionsAreRecorded`, `DecisionsStand`: the invariant
  follows what a completion saw in its three calls, while nobody puts the object
  again (`replaced`) and no second completion runs (`doubled`); a row is decided
  before its object is deleted. That a decision stands excepts `doubled`
  alone: only another completion can decide a row while one is under way, and one
  that begins later finds it decided, whatever is PUT.
- `FlushedRendersSurvive`, `EditsAreKept`, `JobsComposeTheirKeys`: a render is
  inserted under its version before it looks for its job's key, so the row that was
  flushed is the next version and alone, and of two that compose the same timeline one waits; an edit
  that overlapped nothing holds the newest timeline.
- `TakesAreEncodedOnce`, `CutsAreAsAsked`: the start of a clip is a fold over the
  clips before it, proved to be the running sum by `SetInduction`. The invariant
  has one clip for each shot, the stored ones in a row, and all as long as
  was asked, through every batch of operations, stored or refused.

People (`AccountProofs`):

- `TokensRotateOnce`: a denial, cut to whole seconds, reaches to within the last
  half second of its token, and two sessions that hold one token are on record
  as overlapping.
- `TheWindowEnds`: a counter without an end has a session between INCR and EXPIRE,
  or one that failed there.
- `AnOwnerRemains`: as long as nothing crossed, who is about to unseat an owner
  leaves another behind, and who is about to change or remove somebody else does
  not meet an owner.
- `TheNamedKitIsDefault`, `UsesAreCounted`: of a kit or template that two requests
  were never about at once, the row becomes what the request meant, though
  only columns that changed are sent.

Providers (`ServicesProofs`):

- `BreakersAreWhole`: a worker or the operator holds a row that may be stale. Each
  held row is whole itself; one about to be tripped or closed changes both
  columns, since the window that opens is a new time and a worker that closes a
  breaker read an opened one; an operator's row was inserted. So every merge
  is whole again.
- `EnabledBreakersStayClosed`: a breaker the operator closed has no worker about
  to trip it, unless a judgement crossed the switch; and a switch that nothing
  crossed and that read a closed breaker commits onto a closed one, though it
  sends neither column.

`ServicesAreTyped` collects the types of the ten services. They are not
only shapes: that totals are numbers rests on the folds, that a token ends when
it may on what clocks sessions read, that uses are bounded on how requests are
counted, and that no job is counted twice in the health window on how a
job that finishes again moves in it (`RemoveFirstOnce`).

Only model-checked: `StartedEnds` and `LockFreed`, since liveness under fairness
is out of TLAPS's reach here, and the algorithms, which `MCServices` evaluates on
every small input: their recursion over data would need induction with an
operator as a parameter. `Total` equals the library's fold on small tables,
evaluated by TLC in `MCCreditLedger`.

## Where the code and its words part

The violated runs are the `findings` of the manifest. Met while modelling, and
stated without a run of their own:

- Projects: the duration may be edited after the shots were made
  (`B/services/projects.py:152`), so a storyboard may be fitted to an older one.
- Branding: a template is not checked again for its fit when it is updated; a
  project that names a deleted kit, which deleting is said to leave alone, has
  its directives refused.
- Moderation: "a record is written for every outcome" — a block raises, and the
  request's rollback takes the record with it (`BlockedLeavesNoTrace`).
- Subtitles: stretching short cues to the minimum loses words at the end of a
  segment or runs past it (`ShortSegmentsLoseWords`, `StretchedCuesOverrun`).
- Quality: the drift of a duration is graded WARNING and so never rendered again,
  and no check is named `container`, though the set of checks worth a new
  render has both.
- Router: with no candidate the default provider is used even if disabled; a
  routed job is polled at the default one; refusals that are retried never
  reach the health window.
- Editor: lengthening any clip but the last raises; a logo is bound to the clip
  that was first when it was set; the ffmpeg command has no trim, so clips
  are encoded whole and only the duration that quality control expects is
  shorter; the gain of the voice is not used. Composing from the shots discards
  edits.
- Uploads: a READY or FAILED row can be overwritten by a completion that
  overlapped; a PUT after READY changes the object; a probe that times out
  rejects a good video.
- Renders: a re-used render job leaves the new render PENDING.
- Projects again: nothing moves one to GENERATING; attach, detach and promote of
  a product's images may lock rows in opposite orders.
- Product truth: an edited fact does not send its product back to review, and an
  analysis proposes rejected facts anew.
- Import: a line without cells shifts the numbers of the rows below it in a
  .csv (`BlankLinesShiftNumbers`, "the line number the user sees"); what is
  beyond 500 rows is dropped, not refused; a duration of `inf` fails the whole
  file; a brand or language that is too long passes and fails when it is run
  (`SomeRowsFailLate`).
- Prompts: the consistency rules close a prompt, and the adapter sends only its
  first 1000 characters and no negative prompt, so the rules may stay behind
  (`SomeRulesAreCut`); what the job records of the request is the full length.
  Locking a shot adds the rules and not the reference image
  (`SomeLocksComeLate`). An image keeps the role OTHER until somebody changes
  it, and is no identity reference.
- Adapters: the video provider of a route ignores USE_MOCK_PROVIDERS
  (`SomeArePaidAllTheSame`) and its key is not among those checked at boot
  (`VideoBootsWithout`); a routed mock job is polled at another instance, which
  does not know it (`RoutedMocksFail`); a submission that is accepted without an
  id is sent again (`SomeAreTakenTwice`); durations are cut to whole seconds, so
  the clips are shorter than the film (`SomeClipsFallShort`). No code calls
  `cancel`: a cancelled job goes on at the vendor.
- Writing: the budget counts letters at the rate of Chinese characters, so an
  English script that is judged to fit is over before half of the film
  (`EnglishIsShort`); a provider error that asks to be retried becomes a 502 that
  is not retryable, although its message says to try again
  (`SomeRetriesAreLost`).

## Not modelled, and the plan

The manifest lists every component with its status. What is left:

1. A composition of `VideoJobs` with `CreditLedger` for one job, so that `money`
   is implemented by ledger rows rather than assumed to be; and in it the bulk
   generate request, whose handler of a duplicate key rolls back the jobs made
   before it.
2. The runners of `PostProduction` beyond their first transaction, once the job
   machine lets them pass; then the quality loop as a run and not as algorithm.
3. How the final status of a batch relates to its items when roll-ups do not
   overlap.
4. Proofs about the algorithms that are no recursion: quotes, screening, the
   decisions of the adapters.

Not planned: the vendors' payload formats, the wording of prompts and of the
mock's texts, moderation word lists, audit rows, which compute or forward data
without a state of their own; signatures of
storage URLs and address checks of downloads; the pages of the frontend, whose
upload list and job poller are rebuilt from the server's answers (the poller
stops for good once its jobs have settled, even if one is started again);
migrations and infrastructure.
