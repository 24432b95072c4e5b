-------------------------------- MODULE Batch --------------------------------
(***************************************************************************)
(* services/batch.py, jobs/batch_runner.py, the batch tasks of the worker  *)
(* and the batch endpoints: one imported batch, its rows, and concurrent   *)
(* requests and tasks that claim, run, retry and cancel them.              *)
(*                                                                         *)
(* Every session reads, decides and commits later. Only claim_next locks   *)
(* what it reads (FOR UPDATE SKIP LOCKED); a row that was written stays    *)
(* locked until the transaction ends, and a write to a locked row waits.   *)
(* UPDATE carries the columns that changed against the row as it was read. *)
(* Reads of one transaction that follow each other are one step.           *)
(* Tasks are acknowledged when they end: one whose worker dies is delivered*)
(* again, or lost with it.                                                 *)
(***************************************************************************)
EXTENDS Integers, FiniteSets

CONSTANTS Rows,           \* row numbers of the imported file
          Sessions,       \* API requests and worker processes
          MaxConcurrency, \* batch.max_concurrency
          Nobody,         \* no session holds the row
          MaxRequests,    \* bound: start, retry and cancel requests
          MaxFailures,    \* bound: rollbacks nobody handles, and deaths
          MaxAttempts     \* bound: a row claimed so often is not retried

ASSUME BatchAssumption ==
    /\ Rows \subseteq Nat /\ IsFiniteSet(Rows)
    /\ MaxConcurrency \in 1 .. 20
    /\ MaxRequests \in Nat /\ MaxFailures \in Nat /\ MaxAttempts \in Nat
    /\ Nobody \notin Sessions

VARIABLES
    batch,      \* the row of batches
    item,       \* the rows of batch_items
    holder,     \* whose open transaction has the row locked
    dispatches, \* messages of aipvs.batch.dispatch
    runs,       \* messages of aipvs.batch.run_item, by row
    requests,   \* how many requests there were
    failures,   \* how many of all transactions and processes ended badly
    pc, task,   \* what each session is doing, and for what
    read,       \* the rows of batch_items its transaction is about, as read
    saw,        \* the batch as its transaction read it
    rollup,     \* the batch as _refresh_counts leaves it
    count       \* the capacity claim_next finds; then the rows still waiting

vars == <<batch, item, holder, dispatches, runs, requests, failures, pc, task, read, saw, rollup, count>>

rows == <<batch, item, holder>>
queue == <<dispatches, runs, requests, failures>>

-----------------------------------------------------------------------------
ItemStatuses == {"PENDING", "INVALID", "QUEUED", "RUNNING", "COMPLETED", "FAILED", "SKIPPED"}

\* TERMINAL_BATCH_ITEM
TerminalItem == {"COMPLETED", "FAILED", "INVALID", "SKIPPED"}

BatchStatuses == {"READY", "RUNNING", "COMPLETED", "PARTIAL", "FAILED", "CANCELED"}

Having(statuses) == {i \in Rows : item[i].status \in statuses}

InFlight == Having({"QUEUED", "RUNNING"})

\* What an UPDATE makes of a row that is now so, for an object read as old.
Updated(now, old, new) ==
    [column \in DOMAIN now |-> IF new[column] = old[column] THEN now[column] ELSE new[column]]

\* The rows when the transaction of s has written New of each one it read.
ItemsAfter(s, New(_)) ==
    [i \in Rows |-> IF i \in DOMAIN read[s]
                    THEN Updated(item[i], read[s][i], New(read[s][i]))
                    ELSE item[i]]

\* No other session has a row that s is about to write.
Free(s) == \A i \in DOMAIN read[s] : holder[i] \in {Nobody, s}

\* The rows once the transaction of s is over.
Unlocked(s) == [i \in Rows |-> IF holder[i] = s THEN Nobody ELSE holder[i]]

-----------------------------------------------------------------------------
NoBatch == [status |-> "READY", completed |-> 0, failed |-> 0]
NoItem == [status |-> "PENDING", attempts |-> 0]

\* create_from_upload
Init ==
    /\ item \in [Rows -> [status : {"PENDING", "INVALID"}, attempts : {0}]]
    /\ batch = [NoBatch EXCEPT !.status =
                  IF Having({"PENDING"}) = {} THEN "FAILED" ELSE "READY"]
    /\ holder = [i \in Rows |-> Nobody]
    /\ dispatches = 0
    /\ runs = [i \in Rows |-> 0]
    /\ requests = 0 /\ failures = 0
    /\ pc = [s \in Sessions |-> "idle"]
    /\ task = [s \in Sessions |-> "none"]
    /\ read = [s \in Sessions |-> <<>>]
    /\ saw = [s \in Sessions |-> NoBatch]
    /\ rollup = [s \in Sessions |-> NoBatch]
    /\ count = [s \in Sessions |-> 0]

Goto(s, label) == pc' = [pc EXCEPT ![s] = label]
Begin(s, kind) == task' = [task EXCEPT ![s] = kind]
Read(s, S) == read' = [read EXCEPT ![s] = [i \in S |-> item[i]]]
See(s) == saw' = [saw EXCEPT ![s] = batch]

\* The transaction of s is over: it still goes on about the rows S, and has
\* forgotten what it read.
Keep(s, S) == read' = [read EXCEPT ![s] = [i \in S |-> NoItem]]
Forget(s) ==
    /\ saw' = [saw EXCEPT ![s] = NoBatch]
    /\ rollup' = [rollup EXCEPT ![s] = NoBatch]

\* The request or task is over.
Rest(s) ==
    /\ Goto(s, "idle") /\ Begin(s, "none") /\ Keep(s, {}) /\ Forget(s)
    /\ count' = [count EXCEPT ![s] = 0]

-----------------------------------------------------------------------------
(* start_batch, dispatch and claim_next.                                   *)

\* claim_next reads the batch and counts what is in flight: one of its early
\* returns, or the capacity that is left.
CountInFlight(s) ==
    LET capacity == MaxConcurrency - Cardinality(InFlight)
        open == batch.status \in {"READY", "RUNNING"} /\ capacity > 0
    IN  /\ See(s)
        /\ Goto(s, IF open THEN "select" ELSE "claimed")
        /\ count' = [count EXCEPT ![s] = IF open THEN capacity ELSE 0]

\* A user asks.
Request(s) ==
    /\ pc[s] = "idle" /\ requests < MaxRequests
    /\ requests' = requests + 1
    /\ UNCHANGED <<rows, dispatches, runs, failures>>

\* A start request; or a worker takes a dispatch message.
Start(s) ==
    /\ Request(s)
    /\ Begin(s, "start") /\ CountInFlight(s)
    /\ UNCHANGED <<read, rollup>>

Dispatch(s) ==
    /\ pc[s] = "idle" /\ dispatches > 0
    /\ dispatches' = dispatches - 1
    /\ Begin(s, "dispatch") /\ CountInFlight(s)
    /\ UNCHANGED <<rows, runs, requests, failures, read, rollup>>

\* Mutant: the LIMIT is left out.
FirstOfAll(S, n) == S

\* ORDER BY row_number LIMIT n
First(S, n) == {i \in S : Cardinality({k \in S : k < i}) < n}

\* Mutant: a plain SELECT, which does not see who is claiming.
ClaimUnlocked(s) ==
    /\ pc[s] = "select"
    /\ Read(s, First(Having({"PENDING"}), count[s]))
    /\ Goto(s, "claimed")
    /\ UNCHANGED <<rows, queue, task, saw, rollup, count>>

\* FOR UPDATE SKIP LOCKED
Claim(s) ==
    /\ pc[s] = "select"
    /\ LET claimed == First({i \in Having({"PENDING"}) : holder[i] = Nobody}, count[s]) IN
        /\ Read(s, claimed)
        /\ holder' = [i \in Rows |-> IF i \in claimed THEN s ELSE holder[i]]
    /\ Goto(s, "claimed")
    /\ UNCHANGED <<batch, item, queue, task, saw, rollup, count>>

\* The claim is written and committed. A dispatcher has counted what waits,
\* queued rows included and its own not; a start request keeps nothing of its
\* claim.
ClaimCommit(s) ==
    LET claimed == DOMAIN read[s]
        Queued(row) == [status |-> "QUEUED", attempts |-> row.attempts + 1]
        started == [saw[s] EXCEPT !.status =
                      IF claimed # {} /\ @ = "READY" THEN "RUNNING" ELSE @]
    IN  /\ pc[s] = "claimed" /\ Free(s)
        /\ item' = ItemsAfter(s, Queued)
        /\ batch' = Updated(batch, saw[s], started)
        /\ holder' = Unlocked(s)
        /\ Keep(s, IF task[s] = "dispatch" THEN claimed ELSE {})
        /\ count' = [count EXCEPT ![s] = Cardinality(Having({"PENDING", "QUEUED"}) \ claimed)]
        /\ Goto(s, "send") /\ Forget(s)
        /\ UNCHANGED <<queue, task>>

\* run_batch_item.apply_async, for each row started.
SendRun(s) ==
    /\ pc[s] = "send"
    /\ \E i \in DOMAIN read[s] :
        /\ runs' = [runs EXCEPT ![i] = @ + 1]
        /\ Keep(s, DOMAIN read[s] \ {i})
    /\ UNCHANGED <<rows, dispatches, requests, failures, pc, task, saw, rollup, count>>

\* Then dispatch_batch: requests always, the dispatcher while rows remain.
SendDispatch(s) ==
    /\ pc[s] = "send" /\ DOMAIN read[s] = {}
    /\ dispatches' = IF task[s] = "dispatch" /\ count[s] = 0
                     THEN dispatches ELSE dispatches + 1
    /\ Rest(s)
    /\ UNCHANGED <<rows, runs, requests, failures>>

-----------------------------------------------------------------------------
(* run_item.                                                               *)

\* A worker takes a row's message and reads the row, whatever it has become.
TakeRun(s) ==
    /\ pc[s] = "idle"
    /\ \E i \in Rows :
        /\ runs[i] > 0
        /\ runs' = [runs EXCEPT ![i] = @ - 1]
        /\ Read(s, {i})
    /\ Begin(s, "run") /\ Goto(s, "mark")
    /\ UNCHANGED <<rows, dispatches, requests, failures, saw, rollup, count>>

\* mark_running, in a transaction of its own.
MarkRunning(s) ==
    LET Running(row) == [row EXCEPT !.status = "RUNNING"]
    IN  /\ pc[s] = "mark" /\ Free(s)
        /\ item' = ItemsAfter(s, Running)
        /\ Keep(s, DOMAIN read[s]) /\ Goto(s, "open")
        /\ UNCHANGED <<batch, holder, queue, task, saw, rollup, count>>

\* The second transaction, or _fail's, reads the row again.
LoadRow(s) ==
    /\ pc[s] = "open"
    /\ Read(s, DOMAIN read[s])
    /\ Goto(s, "work")
    /\ UNCHANGED <<rows, queue, task, saw, rollup, count>>

\* mark_completed, mark_failed: the rows with the outcome written.
Ended(s) ==
    LET Outcome(row) == [row EXCEPT !.status = IF task[s] = "run" THEN "COMPLETED" ELSE "FAILED"]
    IN  ItemsAfter(s, Outcome)

\* Where the items put a batch that was in the given status.
RolledUp(status, completed, failed, outstanding) ==
    CASE outstanding > 0                 -> status
      [] outstanding = 0 /\ failed = 0   -> "COMPLETED"
      [] outstanding = 0 /\ failed > 0 /\ completed > 0 -> "PARTIAL"
      [] outstanding = 0 /\ failed > 0 /\ completed = 0 -> "FAILED"

\* The row is flushed, and so locked; _refresh_counts reads the batch, and the
\* items as its transaction sees them.
Finish(s) ==
    LET Among(statuses) == Cardinality({i \in Rows : Ended(s)[i].status \in statuses})
        completed == Among({"COMPLETED"})
        failed == Among({"FAILED"})
        status == RolledUp(batch.status, completed, failed, Among(ItemStatuses \ TerminalItem))
    IN  /\ pc[s] = "work" /\ Free(s)
        /\ holder' = [i \in Rows |-> IF i \in DOMAIN read[s] THEN s ELSE holder[i]]
        /\ See(s)
        /\ rollup' = [rollup EXCEPT ![s] =
                        [status |-> status, completed |-> completed, failed |-> failed]]
        /\ Goto(s, "counted")
        /\ UNCHANGED <<batch, item, queue, task, read, count>>

\* The product or the project is refused: the transaction rolls back, and
\* _fail starts another.
Refuse(s) ==
    /\ task[s] = "run" /\ pc[s] \in {"work", "counted"}
    /\ holder' = Unlocked(s)
    /\ Begin(s, "fail") /\ Keep(s, DOMAIN read[s]) /\ Goto(s, "open") /\ Forget(s)
    /\ UNCHANGED <<batch, item, queue, count>>

RunCommit(s) ==
    /\ pc[s] = "counted"
    /\ item' = Ended(s)
    /\ batch' = Updated(batch, saw[s], rollup[s])
    /\ holder' = Unlocked(s)
    /\ Begin(s, "run") /\ Keep(s, DOMAIN read[s]) /\ Goto(s, "done") /\ Forget(s)
    /\ UNCHANGED <<queue, count>>

\* The task returns, and its message is acknowledged.
Acknowledge(s) ==
    /\ pc[s] = "done"
    /\ Rest(s)
    /\ UNCHANGED <<rows, queue>>

-----------------------------------------------------------------------------
(* retry_batch and cancel_batch.                                           *)

\* Mutant: the rows that failed validation are retried too.
RetriedWithInvalid(kind) ==
    Having(IF kind = "retry" THEN {"FAILED", "INVALID"} ELSE {"PENDING"})

\* items(status=FAILED), items(status=PENDING)
Asked(kind) == Having(IF kind = "retry" THEN {"FAILED"} ELSE {"PENDING"})

\* Both read the batch, and the rows they ask for.
Retry(s) ==
    /\ Request(s)
    /\ \A i \in Asked("retry") : item[i].attempts < MaxAttempts
    /\ Begin(s, "retry") /\ See(s) /\ Read(s, Asked("retry")) /\ Goto(s, "asked")
    /\ UNCHANGED <<rollup, count>>

Cancel(s) ==
    /\ Request(s)
    /\ Begin(s, "cancel") /\ See(s) /\ Read(s, Asked("cancel")) /\ Goto(s, "asked")
    /\ UNCHANGED <<rollup, count>>

\* retry_failed
RetryCommit(s) ==
    LET Pending(row) == [row EXCEPT !.status = "PENDING"]
        reopened == IF DOMAIN read[s] = {} THEN saw[s]
                    ELSE [saw[s] EXCEPT !.status = "RUNNING", !.failed = 0]
    IN  /\ pc[s] = "asked" /\ task[s] = "retry" /\ Free(s)
        /\ item' = ItemsAfter(s, Pending)
        /\ batch' = Updated(batch, saw[s], reopened)
        /\ Keep(s, {}) /\ Goto(s, "send") /\ Forget(s)
        /\ UNCHANGED <<holder, queue, task, count>>

\* cancel
CancelCommit(s) ==
    LET Skipped(row) == [row EXCEPT !.status = "SKIPPED"]
    IN  /\ pc[s] = "asked" /\ task[s] = "cancel" /\ Free(s)
        /\ item' = ItemsAfter(s, Skipped)
        /\ batch' = Updated(batch, saw[s], [saw[s] EXCEPT !.status = "CANCELED"])
        /\ Rest(s)
        /\ UNCHANGED <<holder, queue>>

-----------------------------------------------------------------------------
\* A session ends badly, in the middle of anything: its open transaction, if
\* it has one, rolls back.
Break(s) ==
    /\ pc[s] # "idle" /\ failures < MaxFailures
    /\ failures' = failures + 1
    /\ holder' = Unlocked(s)
    /\ Rest(s)
    /\ UNCHANGED <<batch, item, requests>>

\* A transaction is refused (a deadlock between the row of the batch and one
\* of its items is one way), an error nobody catches ends a task, a process is
\* gone with the message it held.
Rollback(s) == Break(s) /\ UNCHANGED <<dispatches, runs>>

\* The process dies, and its message is delivered again.
DieAndRedeliver(s) ==
    /\ Break(s)
    /\ \/ task[s] = "dispatch" /\ dispatches' = dispatches + 1 /\ UNCHANGED runs
       \/ /\ task[s] \in {"run", "fail"}
          /\ runs' = [i \in Rows |-> IF i \in DOMAIN read[s] THEN runs[i] + 1 ELSE runs[i]]
          /\ UNCHANGED dispatches

-----------------------------------------------------------------------------
\* What a request or task does by itself, once it has begun.
Proceed(s) ==
    \/ Claim(s) \/ ClaimCommit(s) \/ SendRun(s) \/ SendDispatch(s)
    \/ MarkRunning(s) \/ LoadRow(s) \/ Finish(s) \/ RunCommit(s) \/ Acknowledge(s)
    \/ RetryCommit(s) \/ CancelCommit(s)

Next ==
    \E s \in Sessions :
        \/ Start(s) \/ Retry(s) \/ Cancel(s) \/ Dispatch(s) \/ TakeRun(s)
        \/ Proceed(s)
        \/ Refuse(s) \/ Rollback(s) \/ DieAndRedeliver(s)

Spec == Init /\ [][Next]_vars

(***************************************************************************)
(* Fairness: a session that has begun goes on, and waiting messages are    *)
(* delivered, those of rows even when workers are busy with dispatching.   *)
(* Nothing obliges a user to ask, or anything to fail.                     *)
(***************************************************************************)
Fairness ==
    /\ \A s \in Sessions : WF_vars(Proceed(s))
    /\ SF_vars(\E s \in Sessions : Dispatch(s))
    /\ SF_vars(\E s \in Sessions : TakeRun(s))

FairSpec == Spec /\ Fairness

-----------------------------------------------------------------------------
(* Properties.                                                             *)

Labels == {"idle", "select", "claimed", "send", "mark", "open", "work",
           "counted", "done", "asked"}

Items == [status : ItemStatuses, attempts : Nat]
Batches == [status : BatchStatuses, completed : Nat, failed : Nat]

\* Every variable has its type; one claim never takes more rows than
\* max_concurrency allows.
TypeOK ==
    /\ batch \in Batches
    /\ item \in [Rows -> Items]
    /\ holder \in [Rows -> Sessions \cup {Nobody}]
    /\ dispatches \in Nat
    /\ runs \in [Rows -> Nat]
    /\ requests \in 0 .. MaxRequests /\ failures \in 0 .. MaxFailures
    /\ pc \in [Sessions -> Labels]
    /\ task \in [Sessions -> {"none", "start", "dispatch", "run", "fail", "retry", "cancel"}]
    /\ DOMAIN read = Sessions
    /\ \A s \in Sessions :
        /\ DOMAIN read[s] \subseteq Rows
        /\ \A i \in DOMAIN read[s] : read[s][i] \in Items
        /\ task[s] \in {"start", "dispatch"} => Cardinality(DOMAIN read[s]) <= MaxConcurrency
    /\ saw \in [Sessions -> Batches]
    /\ rollup \in [Sessions -> Batches]
    /\ count \in [Sessions -> Nat]

\* The sessions about to send a run of row i, or running it.
Engaged(i) ==
    {s \in Sessions :
        /\ i \in DOMAIN read[s]
        /\ task[s] \in {"run", "fail"} \/ (task[s] = "dispatch" /\ pc[s] = "send")}

\* Two dispatchers never start the same row for one claim: messages of a row
\* and sessions engaged with it are no more than the times it was claimed,
\* through redelivery, retries, cancellation and rollbacks.
OneRunPerClaim ==
    \A i \in Rows : runs[i] + Cardinality(Engaged(i)) <= item[i].attempts

\* A row that failed validation stays as it was imported: no claim, retry, run
\* or cancellation, however late it commits, writes it.
InvalidRowsStay ==
    [][\A i \in Rows : item[i].status = "INVALID" => item'[i] = item[i]]_vars

\* What dispatch_batch and start_batch say of a batch: as many items as
\* concurrency allows are claimed and started, and the worker claims the next
\* as each finishes. A claimed row leaves QUEUED.
QueuedRowStarts ==
    \A i \in Rows : item[i].status = "QUEUED" ~> item[i].status # "QUEUED"
=============================================================================
