------------------------------ MODULE VideoJobs ------------------------------
(***************************************************************************)
(* The video generation pipeline: services/jobs.py, jobs/runner.py,        *)
(* jobs/reaper.py, the generate endpoints and the aipvs.video.generate     *)
(* task, around the rows of generation_jobs, the Redis lock joblock:{job}  *)
(* and the Celery queue.                                                   *)
(*                                                                         *)
(* Every database transaction of a worker, of the cancel endpoint and of   *)
(* the reaper is a read of the job row and, later, a commit: nothing locks *)
(* the row in between, so the commit writes what the service decided from  *)
(* the row it read. SQLAlchemy's UPDATE carries the columns that changed,  *)
(* so a status the service left as it read it is not written. Each job     *)
(* pays through CreditLedger; here a job's money is the set of its ledger  *)
(* rows.                                                                   *)
(***************************************************************************)
EXTENDS Integers, FiniteSets

CONSTANTS Jobs,         \* generation jobs, one shot each
          Workers,      \* Celery worker processes on the video queue
          NoWorker,     \* the Redis lock is free
          MaxRetries,   \* settings.job_max_retries
          MaxMessages   \* bound: requests stop at this many messages of a job

ASSUME JobsAssumption ==
    /\ MaxRetries \in Nat
    /\ MaxMessages \in Nat
    /\ NoWorker \notin Workers

VARIABLES
    \* rows
    status, retries, started, shot,
    money,       \* kinds of ledger rows the job has
    produced,    \* a clip was ingested for the job
    \* Redis and the broker
    lock,        \* who set joblock:{job}; its value "1" does not say
    messages,    \* messages on the queue, delayed ones included
    \* the API
    asked,       \* requests that committed and have not enqueued yet
    cancelling,  \* the row a cancel request read
    \* workers
    pc, task, seen, mark, again,
    \* the reaper
    sweep, swept

rows == <<status, retries, started, shot, money, produced>>
broker == <<lock, messages>>
api == <<asked, cancelling>>
workers == <<pc, task, seen, mark, again>>
reaper == <<sweep, swept>>
vars == <<rows, broker, api, workers, reaper>>

-----------------------------------------------------------------------------
(* The job machine of domain/enums.py.                                     *)

Statuses == {"CREATED", "QUEUED", "SUBMITTED", "PROCESSING",
             "COMPLETED", "FAILED", "CANCELED", "TIMEOUT"}

\* TERMINAL_JOB_STATUSES
Terminal == {"COMPLETED", "FAILED", "CANCELED", "TIMEOUT"}

\* _JOB_TRANSITIONS
Moves == [CREATED    |-> {"QUEUED", "CANCELED", "FAILED"},
          QUEUED     |-> {"SUBMITTED", "CANCELED", "FAILED", "TIMEOUT"},
          SUBMITTED  |-> {"PROCESSING", "COMPLETED", "FAILED", "CANCELED", "TIMEOUT"},
          PROCESSING |-> {"COMPLETED", "FAILED", "CANCELED", "TIMEOUT"},
          FAILED     |-> {"QUEUED"},
          TIMEOUT    |-> {"QUEUED"},
          COMPLETED  |-> {},
          CANCELED   |-> {}]

\* can_transition_job
CanMove(from, to) == from = to \/ to \in Moves[from]

(* A job's ledger rows, as CreditLedger writes them.                       *)

Holding(m) == m = {"reserve"}

AfterRelease(m) == IF Holding(m) THEN m \cup {"release"} ELSE m

\* Mutant: a capture that takes nothing when the hold is gone.
AfterCaptureOfHold(m) == IF Holding(m) THEN m \cup {"capture"} ELSE m

AfterCapture(m) == m \cup {"capture"}

\* A capture without a live hold may take more than is available, and then
\* the reserved <= balance constraint aborts the transaction.
CaptureMayFail(m) == ~Holding(m) /\ "capture" \notin m

-----------------------------------------------------------------------------
(* What a transaction read of a job row, and what it writes back.          *)

Row(j) == [status |-> status[j], retries |-> retries[j]]

Snapshots == [status : Statuses, retries : 0 .. MaxRetries]

NoRow == [status |-> "CREATED", retries |-> 0]

\* The status column after a commit that moved the job it read as r to s.
Written(j, r, s) == IF s = r.status THEN status[j] ELSE s

SetStatus(j, r, s) == status' = [status EXCEPT ![j] = Written(j, r, s)]

\* JobService.fail: whether the row it read gets another attempt, where it
\* goes, and whether the job machine lets it (through FAILED if need be).
\* (Mutant: one retry too many.)
WillRetryOnceMore(r, retryable) == retryable /\ r.retries <= MaxRetries

WillRetry(r, retryable) == retryable /\ r.retries < MaxRetries

FailTarget(r, retryable) == IF WillRetry(r, retryable) THEN "QUEUED" ELSE "FAILED"

CanFail(r, retryable) ==
    \/ CanMove(r.status, "FAILED")
    \/ WillRetry(r, retryable) /\ CanMove(r.status, "QUEUED")

\* A retry read as QUEUED clears error_code alone. If the row is FAILED by now,
\* the failed_jobs_explain_themselves constraint aborts the transaction.
ClearsFailedCode(j, r, retryable) ==
    WillRetry(r, retryable) /\ r.status = "QUEUED" /\ status[j] = "FAILED"

RetriesAfter(j, r, retryable) ==
    IF WillRetry(r, retryable) THEN r.retries + 1 ELSE retries[j]

\* (Mutant: FAILED written directly, without the release.)
MoneyAfterDirectWrite(j, r, retryable) == money[j]

MoneyAfter(j, r, retryable) ==
    IF WillRetry(r, retryable) THEN money[j] ELSE AfterRelease(money[j])

-----------------------------------------------------------------------------
Init ==
    /\ status = [j \in Jobs |-> "ABSENT"]
    /\ retries = [j \in Jobs |-> 0]
    /\ started = [j \in Jobs |-> "never"]
    /\ shot = [j \in Jobs |-> "PENDING"]
    /\ money = [j \in Jobs |-> {}]
    /\ produced = [j \in Jobs |-> FALSE]
    /\ lock = [j \in Jobs |-> NoWorker]
    /\ messages = [j \in Jobs |-> 0]
    /\ asked = {}
    /\ cancelling = [j \in Jobs |-> {}]
    /\ pc = [w \in Workers |-> "idle"]
    /\ task \in [Workers -> Jobs]
    /\ seen = [w \in Workers |-> NoRow]
    /\ mark = [w \in Workers |-> "early"]
    /\ again = [w \in Workers |-> FALSE]
    /\ sweep = "idle"
    /\ swept = [j \in Jobs |-> {}]

-----------------------------------------------------------------------------
(* The API.                                                                *)

\* The messages of a job, on the queue or unacknowledged.
Carried(j) == messages[j] + Cardinality({w \in Workers : pc[w] # "idle" /\ task[w] = j})

\* A generate request: the job and its reservation commit together, or the
\* job of this shot and prompt exists already. A shot with a take is skipped.
Generate(j) ==
    /\ j \notin asked /\ Carried(j) < MaxMessages
    /\ shot[j] # "READY"
    /\ asked' = asked \cup {j}
    /\ IF status[j] = "ABSENT"
       THEN /\ status' = [status EXCEPT ![j] = "CREATED"]
            /\ money' = [money EXCEPT ![j] = {"reserve"}]
            /\ shot' = [shot EXCEPT ![j] = "QUEUED"]
       ELSE UNCHANGED <<status, money, shot>>
    /\ UNCHANGED <<retries, started, produced, cancelling, broker, workers, reaper>>

\* _enqueue_all, after the commit.
Enqueue(j) ==
    /\ j \in asked
    /\ asked' = asked \ {j}
    /\ messages' = [messages EXCEPT ![j] = @ + 1]
    /\ UNCHANGED <<rows, lock, cancelling, workers, reaper>>

\* The API process dies, or the broker refuses, between commit and enqueue.
EnqueueLost(j) ==
    /\ j \in asked
    /\ asked' = asked \ {j}
    /\ UNCHANGED <<rows, broker, cancelling, workers, reaper>>

\* A cancel request reads the job, and leaves a finished one alone.
CancelRead(j) ==
    /\ cancelling[j] = {}
    /\ status[j] \in Statuses \ Terminal
    /\ cancelling' = [cancelling EXCEPT ![j] = {Row(j)}]
    /\ UNCHANGED <<rows, broker, asked, workers, reaper>>

\* It commits CANCELED and the release, whatever the row is by now.
CancelCommit(j) ==
    /\ \E r \in cancelling[j] : SetStatus(j, r, "CANCELED")
    /\ money' = [money EXCEPT ![j] = AfterRelease(@)]
    /\ cancelling' = [cancelling EXCEPT ![j] = {}]
    /\ UNCHANGED <<retries, started, shot, produced, broker, asked, workers, reaper>>

-----------------------------------------------------------------------------
(* A worker: one attempt at one job, from the message to the ack.          *)

Goto(w, label) == pc' = [pc EXCEPT ![w] = label]

Stay(w) == UNCHANGED <<task, mark, again>>

\* A step that reads the job row opens a transaction; what it read is gone
\* when the transaction ends, and the attempt's locals when the attempt ends.
ReadRow(w) == seen' = [seen EXCEPT ![w] = Row(task[w])]

Close(w) == seen' = [seen EXCEPT ![w] = NoRow]

Forget(w) ==
    /\ Close(w)
    /\ mark' = [mark EXCEPT ![w] = "early"]
    /\ again' = [again EXCEPT ![w] = FALSE]
    /\ UNCHANGED task

\* Mutant: the lock is taken inside the try, so its finally deletes a lock that
\* another worker holds.
TakeInsideTry(w, j) ==
    /\ pc[w] = "idle" /\ messages[j] > 0
    /\ messages' = [messages EXCEPT ![j] = @ - 1]
    /\ IF lock[j] = NoWorker
       THEN /\ lock' = [lock EXCEPT ![j] = w]
            /\ Goto(w, "load")
            /\ task' = [task EXCEPT ![w] = j]
       ELSE /\ lock' = [lock EXCEPT ![j] = NoWorker]
            /\ UNCHANGED <<pc, task>>
    /\ UNCHANGED <<rows, api, seen, mark, again, reaper>>

\* The broker delivers a message, and SET NX takes the lock or finds it set.
\* A message that finds it set is acknowledged: JobLockedError is not an error.
Take(w, j) ==
    /\ pc[w] = "idle" /\ messages[j] > 0
    /\ messages' = [messages EXCEPT ![j] = @ - 1]
    /\ \/ /\ lock[j] = NoWorker
          /\ lock' = [lock EXCEPT ![j] = w]
          /\ Goto(w, "load")
          /\ task' = [task EXCEPT ![w] = j]
       \/ /\ lock[j] # NoWorker
          /\ UNCHANGED <<lock, pc, task>>
    /\ UNCHANGED <<rows, api, seen, mark, again, reaper>>

\* _load_request reads the row: a job that is not waiting is somebody else's.
Load(w) ==
    /\ pc[w] = "load"
    /\ \/ status[task[w]] \in {"CREATED", "QUEUED"} /\ Goto(w, "loaded") /\ ReadRow(w)
       \/ status[task[w]] \notin {"CREATED", "QUEUED"} /\ Goto(w, "exit") /\ Close(w)
    /\ Stay(w) /\ UNCHANGED <<rows, broker, api, reaper>>

\* It fetches the reference images and commits CREATED -> QUEUED.
LoadCommit(w) ==
    /\ pc[w] = "loaded"
    /\ SetStatus(task[w], seen[w], "QUEUED")
    /\ Goto(w, "submit")
    /\ Stay(w) /\ Close(w)
    /\ UNCHANGED <<retries, started, shot, money, produced, broker, api, reaper>>

\* provider.submit accepts the request, refuses it, or cannot be reached.
Submit(w) ==
    /\ pc[w] = "submit"
    /\ \E label \in {"record", "fail", "retry"} : Goto(w, label)
    /\ Stay(w) /\ UNCHANGED <<seen, rows, broker, api, reaper>>

\* A transaction that will move the row opens by reading it.
Opening == [record |-> "recording", complete |-> "completing", fail |-> "failing",
            retry |-> "retrying", timeout |-> "timing", stop |-> "stopping"]

OpenTransaction(w) ==
    /\ pc[w] \in DOMAIN Opening
    /\ ReadRow(w)
    /\ Goto(w, Opening[pc[w]])
    /\ Stay(w) /\ UNCHANGED <<rows, broker, api, reaper>>

\* A refused transition raises out of the attempt: the transaction rolls back
\* and the lock is released on the way out.
Raise(w) ==
    /\ Goto(w, "exit")
    /\ Stay(w) /\ Close(w)
    /\ UNCHANGED <<rows, broker, api, reaper>>

\* SUBMITTED and the ProviderJob row; started_at is stamped once per job.
Record(w) ==
    LET j == task[w] IN
    /\ pc[w] = "recording"
    /\ IF ~CanMove(seen[w].status, "SUBMITTED") THEN Raise(w)
       ELSE /\ SetStatus(j, seen[w], "SUBMITTED")
            /\ started' = [started EXCEPT ![j] = IF @ = "never" THEN "recent" ELSE @]
            /\ mark' = [mark EXCEPT ![w] =
                          IF started[j] = "never" THEN "stamped" ELSE "recorded"]
            /\ Goto(w, "poll")
            /\ Close(w) /\ UNCHANGED <<task, again>>
            /\ UNCHANGED <<retries, shot, money, produced, broker, api, reaper>>

\* _poll_until_done, one poll: PENDING or RUNNING, or the provider is done, or
\* cannot be reached.
Poll(w) ==
    /\ pc[w] = "poll"
    /\ \/ ReadRow(w) /\ Goto(w, "polled")
       \/ /\ \E label \in {"ingest", "fail", "retry", "stop"} : Goto(w, label)
          /\ UNCHANGED seen
    /\ Stay(w) /\ UNCHANGED <<rows, broker, api, reaper>>

\* The transaction of an unfinished poll: SUBMITTED becomes PROCESSING once the
\* provider reports RUNNING, and stays while it reports PENDING. Unfinished
\* past the deadline is a TimeoutError.
PollCommit(w) ==
    /\ pc[w] = "polled"
    /\ \/ seen[w].status = "SUBMITTED" /\ SetStatus(task[w], seen[w], "PROCESSING")
       \/ UNCHANGED status
    /\ Goto(w, "poll") \/ Goto(w, "timeout")
    /\ Stay(w) /\ Close(w)
    /\ UNCHANGED <<retries, started, shot, money, produced, broker, api, reaper>>

\* ingest_provider_media commits a MediaAsset, or storage fails.
Ingest(w) ==
    /\ pc[w] = "ingest"
    /\ \/ /\ produced' = [produced EXCEPT ![task[w]] = TRUE]
          /\ Goto(w, "complete")
       \/ Goto(w, "retry") /\ UNCHANGED produced
    /\ Stay(w) /\ Close(w)
    /\ UNCHANGED <<status, retries, started, shot, money, broker, api, reaper>>

\* COMPLETED, the capture and the shot's take, in one commit.
Complete(w) ==
    LET j == task[w] IN
    /\ pc[w] = "completing"
    /\ \/ /\ CanMove(seen[w].status, "COMPLETED")
          /\ SetStatus(j, seen[w], "COMPLETED")
          /\ money' = [money EXCEPT ![j] = AfterCapture(@)]
          /\ shot' = [shot EXCEPT ![j] = "READY"]
          /\ Goto(w, "exit")
          /\ Stay(w) /\ Close(w)
          /\ UNCHANGED <<retries, started, produced, broker, api, reaper>>
       \/ /\ ~CanMove(seen[w].status, "COMPLETED") \/ CaptureMayFail(money[j])
          /\ Raise(w)

\* _record_failure.
FailCommit(w) ==
    LET j == task[w]
        r == seen[w]
        retryable == pc[w] = "retrying"
    IN
    /\ pc[w] \in {"failing", "retrying"}
    /\ IF ~CanFail(r, retryable) \/ ClearsFailedCode(j, r, retryable) THEN Raise(w)
       ELSE /\ SetStatus(j, r, FailTarget(r, retryable))
            /\ retries' = [retries EXCEPT ![j] = RetriesAfter(j, r, retryable)]
            /\ money' = [money EXCEPT ![j] = MoneyAfter(j, r, retryable)]
            /\ shot' = IF WillRetry(r, retryable) THEN shot
                       ELSE [shot EXCEPT ![j] = "FAILED"]
            /\ again' = [again EXCEPT ![w] = WillRetry(r, retryable)]
            /\ Goto(w, "exit")
            /\ Close(w) /\ UNCHANGED <<task, mark>>
            /\ UNCHANGED <<started, produced, broker, api, reaper>>

\* _record_timeout: TIMEOUT, and nothing else.
TimeoutCommit(w) ==
    /\ pc[w] = "timing"
    /\ IF ~CanMove(seen[w].status, "TIMEOUT") THEN Raise(w)
       ELSE /\ SetStatus(task[w], seen[w], "TIMEOUT")
            /\ Goto(w, "exit")
            /\ Stay(w) /\ Close(w)
            /\ UNCHANGED <<retries, started, shot, money, produced, broker, api, reaper>>

\* The provider reports CANCELED: JobService.cancel.
StopCommit(w) ==
    LET j == task[w] IN
    /\ pc[w] = "stopping"
    /\ IF seen[w].status \in Terminal THEN UNCHANGED <<status, money>>
       ELSE /\ SetStatus(j, seen[w], "CANCELED")
            /\ money' = [money EXCEPT ![j] = AfterRelease(@)]
    /\ Goto(w, "exit")
    /\ Stay(w) /\ Close(w)
    /\ UNCHANGED <<retries, started, shot, produced, broker, api, reaper>>

\* The attempt ends: finally deletes the lock, whoever set it, a retry is
\* enqueued, and the message is acknowledged.
Exit(w) ==
    /\ pc[w] = "exit"
    /\ lock' = [lock EXCEPT ![task[w]] = NoWorker]
    /\ messages' = [messages EXCEPT ![task[w]] = IF again[w] THEN @ + 1 ELSE @]
    /\ Goto(w, "idle")
    /\ Forget(w) /\ UNCHANGED <<rows, api, reaper>>

\* The soft time limit, or an error nobody catches, ends the attempt early;
\* an open transaction rolls back.
Abort(w) ==
    /\ pc[w] \notin {"idle", "exit"}
    /\ Raise(w)

\* The worker is killed: the lock stays, and the unacknowledged message is
\* delivered again, or is gone with the process that held it.
Die(w) ==
    /\ pc[w] # "idle"
    /\ Goto(w, "idle")
    /\ \/ messages' = [messages EXCEPT ![task[w]] = @ + 1]
       \/ UNCHANGED messages
    /\ Forget(w) /\ UNCHANGED <<lock, rows, api, reaper>>

-----------------------------------------------------------------------------
(* Time.                                                                   *)

\* Mutant: the lock is set without an expiry.
LockStays(j) == FALSE

\* The lock's TTL is the whole video budget, so it outlives the submission of
\* the attempt that took it, and not always the rest of the attempt.
LockExpires(j) ==
    /\ lock[j] # NoWorker
    /\ ~(pc[lock[j]] # "idle" /\ task[lock[j]] = j /\ mark[lock[j]] = "early")
    /\ lock' = [lock EXCEPT ![j] = NoWorker]
    /\ UNCHANGED <<messages, rows, api, workers, reaper>>

\* started_at passes the stuck threshold, which is above the hard time limit
\* of the attempt that stamped it.
GrowsOld(j) ==
    /\ started[j] = "recent"
    /\ ~\E w \in Workers : pc[w] # "idle" /\ task[w] = j /\ mark[w] = "stamped"
    /\ started' = [started EXCEPT ![j] = "old"]
    /\ UNCHANGED <<status, retries, shot, money, produced, broker, api, workers, reaper>>

-----------------------------------------------------------------------------
(* The reaper: one sweep at a time, from beat.                             *)

\* Mutant: a sweep that leaves QUEUED jobs to the queue.
StuckAtProvider(j) == status[j] \in {"SUBMITTED", "PROCESSING"} /\ started[j] = "old"

\* find_stuck
Stuck(j) == status[j] \in {"QUEUED", "SUBMITTED", "PROCESSING"} /\ started[j] = "old"

SweepRead ==
    /\ sweep = "idle"
    /\ \E j \in Jobs : Stuck(j)
    /\ swept' = [j \in Jobs |-> IF Stuck(j) THEN {Row(j)} ELSE {}]
    /\ sweep' = "write"
    /\ UNCHANGED <<rows, broker, api, workers>>

\* JobService.fail(JOB_TIMEOUT) on every row it read, in one commit.
SweepCommit ==
    /\ sweep = "write"
    /\ LET Reaped(j) == swept[j] # {}
           r(j) == CHOOSE x \in swept[j] : TRUE
       IN  /\ \A j \in Jobs : Reaped(j) => ~ClearsFailedCode(j, r(j), TRUE)
           /\ status' = [j \in Jobs |->
                IF Reaped(j) THEN Written(j, r(j), FailTarget(r(j), TRUE)) ELSE status[j]]
           /\ retries' = [j \in Jobs |->
                IF Reaped(j) THEN RetriesAfter(j, r(j), TRUE) ELSE retries[j]]
           /\ money' = [j \in Jobs |->
                IF Reaped(j) THEN MoneyAfter(j, r(j), TRUE) ELSE money[j]]
    /\ sweep' = "unlock"
    /\ UNCHANGED <<started, shot, produced, broker, api, workers, swept>>

\* Then it deletes their locks.
SweepUnlock ==
    /\ sweep = "unlock"
    /\ lock' = [j \in Jobs |-> IF swept[j] # {} THEN NoWorker ELSE lock[j]]
    /\ sweep' = "idle"
    /\ swept' = [j \in Jobs |-> {}]
    /\ UNCHANGED <<messages, rows, api, workers>>

\* The worker running the sweep dies, or its transaction is refused.
SweepDies ==
    /\ sweep # "idle"
    /\ sweep' = "idle"
    /\ swept' = [j \in Jobs |-> {}]
    /\ UNCHANGED <<rows, broker, api, workers>>

-----------------------------------------------------------------------------
Request(j) ==
    Generate(j) \/ Enqueue(j) \/ EnqueueLost(j) \/ CancelRead(j) \/ CancelCommit(j)

\* What a worker does by itself, once it has a message.
Attempt(w) ==
    \/ Load(w) \/ LoadCommit(w) \/ Submit(w) \/ OpenTransaction(w) \/ Record(w)
    \/ Poll(w) \/ PollCommit(w) \/ Ingest(w) \/ Complete(w)
    \/ FailCommit(w) \/ TimeoutCommit(w) \/ StopCommit(w) \/ Exit(w)

Worker(w) ==
    \/ \E j \in Jobs : Take(w, j)
    \/ Attempt(w) \/ Abort(w) \/ Die(w)

Reaper == SweepRead \/ SweepCommit \/ SweepUnlock \/ SweepDies

Next ==
    \/ \E j \in Jobs : Request(j) \/ LockExpires(j) \/ GrowsOld(j)
    \/ \E w \in Workers : Worker(w)
    \/ Reaper

Spec == Init /\ [][Next]_vars

(***************************************************************************)
(* Fairness: processes that run keep running, the broker delivers, clocks  *)
(* advance, polling does not outlast the attempt's budget (strong fairness *)
(* of BudgetEnds, met at every poll) and beat fires. Nothing obliges a     *)
(* user to ask or to cancel, a process to die or a message to be lost;     *)
(* sweeps may die, but not every one that starts (strong fairness of       *)
(* SweepCommit).                                                           *)
(***************************************************************************)
BudgetEnds(w) == PollCommit(w) /\ pc'[w] = "timeout"

Fairness ==
    /\ \A j \in Jobs :
        /\ WF_vars(Enqueue(j)) /\ WF_vars(CancelCommit(j))
        /\ WF_vars(LockExpires(j)) /\ WF_vars(GrowsOld(j))
        /\ WF_vars(\E w \in Workers : Take(w, j))
    /\ \A w \in Workers : WF_vars(Attempt(w)) /\ SF_vars(BudgetEnds(w))
    /\ WF_vars(SweepRead) /\ SF_vars(SweepCommit) /\ WF_vars(SweepUnlock)

FairSpec == Spec /\ Fairness

-----------------------------------------------------------------------------
(* Properties.                                                             *)

PcTypes == {"idle", "load", "loaded", "submit", "poll", "polled", "ingest", "exit"}
           \cup DOMAIN Opening \cup {Opening[p] : p \in DOMAIN Opening}

\* Every variable has its type; retries never pass job_max_retries, though a
\* stale row may write retry_count back to an earlier value.
TypeOK ==
    /\ status \in [Jobs -> Statuses \cup {"ABSENT"}]
    /\ retries \in [Jobs -> 0 .. MaxRetries]
    /\ started \in [Jobs -> {"never", "recent", "old"}]
    /\ shot \in [Jobs -> {"PENDING", "QUEUED", "READY", "FAILED"}]
    /\ money \in [Jobs -> SUBSET {"reserve", "capture", "release"}]
    /\ produced \in [Jobs -> BOOLEAN]
    /\ lock \in [Jobs -> Workers \cup {NoWorker}]
    /\ messages \in [Jobs -> Nat]
    /\ asked \subseteq Jobs
    /\ cancelling \in [Jobs -> SUBSET Snapshots]
    /\ pc \in [Workers -> PcTypes]
    /\ task \in [Workers -> Jobs]
    /\ seen \in [Workers -> Snapshots]
    /\ mark \in [Workers -> {"early", "recorded", "stamped"}]
    /\ again \in [Workers -> BOOLEAN]
    /\ sweep \in {"idle", "write", "unlock"}
    /\ swept \in [Jobs -> SUBSET Snapshots]

\* Whatever transactions overwrite each other, a job that reads COMPLETED,
\* FAILED or CANCELED no longer holds a reservation: every commit that writes
\* one of them captures or releases in the same transaction.
SettledWhenFinal ==
    \A j \in Jobs :
        status[j] \in {"COMPLETED", "FAILED", "CANCELED"} => ~Holding(money[j])

\* A job is charged only for a clip that was ingested, and a job that reads
\* COMPLETED was charged: no late or duplicate attempt separates the three.
ChargedForAClip ==
    \A j \in Jobs :
        /\ "capture" \in money[j] => produced[j]
        /\ status[j] = "COMPLETED" => "capture" \in money[j]

Submitting(w, j) == pc[w] # "idle" /\ task[w] = j /\ mark[w] = "early"

\* Until a submission of a job is on record, the Redis lock keeps two workers
\* from submitting it: the case the runner's header names, where a redelivered
\* or repeated message meets a worker still on its first attempt.
FirstSubmissionExclusive ==
    \A j \in Jobs : started[j] = "never" =>
        \A v, w \in Workers : Submitting(v, j) /\ Submitting(w, j) => v = w

\* A job whose submission was recorded reaches a terminal status, by its
\* worker, or by the sweep after worker, message or lock are lost.
StartedEnds == \A j \in Jobs : started[j] # "never" ~> status[j] \in Terminal

\* A dead worker never wedges a job: its lock is freed.
LockFreed == \A j \in Jobs : lock[j] # NoWorker ~> lock[j] = NoWorker

\* What services/jobs.py says of failure: "Either way the reservation is
\* released". A job that timed out is over too.
TimeoutReleasesHold == \A j \in Jobs : status[j] = "TIMEOUT" => ~Holding(money[j])

\* What jobs/reaper.py says: a reaped job with attempts left goes back to the
\* queue, and dropping its lock lets the retry start now. When the sweep is
\* done with a job it put back in QUEUED, a message carries that job.
ReapedJobIsCarried ==
    [][\A j \in Jobs : SweepUnlock /\ swept[j] # {} /\ status[j] = "QUEUED" =>
          j \in asked \/ Carried(j) > 0]_vars

\* What credit_ledger.py says: a job whose reservation was returned, because
\* it failed or was cancelled, is not charged.
NoChargeAfterRelease == \A j \in Jobs : ~({"capture", "release"} \subseteq money[j])
=============================================================================
