---------------------------- MODULE VideoJobsProofs ----------------------------
(***************************************************************************)
(* Proofs that every reachable state of VideoJobs keeps the invariants its *)
(* run checks, for any jobs, workers, retry limit and message bound.       *)
(*                                                                         *)
(* The inductive invariant IInv adds to the types and the properties what  *)
(* each of them rests on: a row a transaction reads exists (Existing), the *)
(* clip is ingested before the capture (Charges), and a worker that has    *)
(* not recorded its submission holds the lock of a job nobody recorded     *)
(* one for (Locks).                                                        *)
(***************************************************************************)
EXTENDS VideoJobs, TLAPS

\* Only a job that exists is requested, queued or worked on.
Existing ==
    \A j \in Jobs : status[j] = "ABSENT" =>
        /\ j \notin asked
        /\ messages[j] = 0
        /\ \A w \in Workers : pc[w] # "idle" => task[w] # j

\* ChargedForAClip, and a worker about to complete has ingested its clip.
Charges ==
    /\ ChargedForAClip
    /\ \A w \in Workers : pc[w] \in {"complete", "completing"} => produced[task[w]]

\* A worker's mark tells how far its submission is, a sweep only reads jobs
\* with a recorded submission, and before there is one the lock is the mutex.
Locks ==
    /\ \A w \in Workers : pc[w] = "idle" => mark[w] = "early"
    /\ \A w \in Workers : mark[w] # "early" => started[task[w]] # "never"
    /\ \A w \in Workers, j \in Jobs :
        started[j] = "never" /\ Submitting(w, j) => lock[j] = w
    /\ \A j \in Jobs : swept[j] # {} => started[j] # "never"

\* The inductive invariant.
IInv ==
    /\ TypeOK
    /\ Existing
    /\ SettledWhenFinal
    /\ Charges
    /\ Locks

-----------------------------------------------------------------------------
\* The labels of a worker, spelled out.
LEMMA PcNames ==
    PcTypes = {"idle", "load", "loaded", "submit", "poll", "polled", "ingest", "exit",
               "record", "recording", "complete", "completing", "fail", "failing",
               "retry", "retrying", "timeout", "timing", "stop", "stopping"}
<1>1. DOMAIN Opening = {"record", "complete", "fail", "retry", "timeout", "stop"}
  BY DEF Opening
<1>2. {Opening[p] : p \in DOMAIN Opening} =
          {"recording", "completing", "failing", "retrying", "timing", "stopping"}
  BY <1>1 DEF Opening
<1>3. QED
  BY <1>1, <1>2 DEF PcTypes

\* A worker that goes to a label has a label.
LEMMA GotoType ==
    ASSUME TypeOK, NEW w \in Workers, NEW label \in PcTypes, Goto(w, label)
    PROVE  pc' \in [Workers -> PcTypes]
BY DEF TypeOK, Goto

\* What a worker read is the row of a job that exists, or nothing.
LEMMA SeenType ==
    ASSUME TypeOK, NEW w \in Workers,
           Close(w) \/ (ReadRow(w) /\ status[task[w]] # "ABSENT")
    PROVE  seen' \in [Workers -> Snapshots]
<1>1. CASE Close(w)
  BY <1>1, JobsAssumption DEF TypeOK, Close, NoRow, Snapshots, Statuses
<1>2. CASE ReadRow(w) /\ status[task[w]] # "ABSENT"
  BY <1>2 DEF TypeOK, ReadRow, Row, Snapshots
<1>3. QED
  BY <1>1, <1>2

\* A commit that moves a job writes a status, and moves no other job.
LEMMA StatusType ==
    ASSUME TypeOK, NEW j \in Jobs, NEW r, NEW s \in Statuses, SetStatus(j, r, s)
    PROVE  /\ status' \in [Jobs -> Statuses \cup {"ABSENT"}]
           /\ status'[j] \in {status[j], s}
           /\ \A k \in Jobs \ {j} : status'[k] = status[k]
BY DEF TypeOK, SetStatus, Written

\* A job's ledger rows stay ledger rows, and neither row leaves a live hold.
LEMMA Settling ==
    ASSUME NEW m \in SUBSET {"reserve", "capture", "release"}
    PROVE  /\ AfterRelease(m) \in SUBSET {"reserve", "capture", "release"}
           /\ AfterCapture(m) \in SUBSET {"reserve", "capture", "release"}
           /\ ~Holding(AfterRelease(m))
           /\ ~Holding(AfterCapture(m))
BY DEF AfterRelease, AfterCapture, Holding

-----------------------------------------------------------------------------
\* Every step keeps the types.
LEMMA TypeStep ==
    ASSUME IInv, [Next]_vars
    PROVE  TypeOK'
<1>0. CASE UNCHANGED vars
  BY <1>0 DEF IInv, TypeOK, vars, rows, broker, api, workers, reaper
<1>1. ASSUME NEW j \in Jobs, Generate(j)
       PROVE  TypeOK'
  <2>1. /\ status' \in [Jobs -> Statuses \cup {"ABSENT"}]
        /\ shot' \in [Jobs -> {"PENDING", "QUEUED", "READY", "FAILED"}]
        /\ money' \in [Jobs -> SUBSET {"reserve", "capture", "release"}]
        /\ asked' \subseteq Jobs
    BY <1>1 DEF IInv, TypeOK, Generate, Statuses
  <2>2. QED
    BY <1>1, <2>1 DEF IInv, TypeOK, Generate, broker, workers, reaper
<1>2. ASSUME NEW j \in Jobs, Enqueue(j)
       PROVE  TypeOK'
  BY <1>2 DEF IInv, TypeOK, Enqueue, rows, workers, reaper
<1>3. ASSUME NEW j \in Jobs, EnqueueLost(j)
       PROVE  TypeOK'
  BY <1>3 DEF IInv, TypeOK, EnqueueLost, rows, broker, workers, reaper
<1>4. ASSUME NEW j \in Jobs, CancelRead(j)
       PROVE  TypeOK'
  <2>1. Row(j) \in Snapshots
    BY <1>4 DEF IInv, TypeOK, CancelRead, Row, Snapshots
  <2>2. cancelling' \in [Jobs -> SUBSET Snapshots]
    BY <1>4, <2>1 DEF IInv, TypeOK, CancelRead
  <2>3. QED
    BY <1>4, <2>2 DEF IInv, TypeOK, CancelRead, rows, broker, workers, reaper
<1>5. ASSUME NEW j \in Jobs, CancelCommit(j)
       PROVE  TypeOK'
  <2>1. status' \in [Jobs -> Statuses \cup {"ABSENT"}]
    BY <1>5, StatusType DEF IInv, CancelCommit, Statuses
  <2>2. money' \in [Jobs -> SUBSET {"reserve", "capture", "release"}]
    BY <1>5, Settling DEF IInv, TypeOK, CancelCommit
  <2>3. cancelling' \in [Jobs -> SUBSET Snapshots]
    BY <1>5 DEF IInv, TypeOK, CancelCommit
  <2>4. QED
    BY <1>5, <2>1, <2>2, <2>3 DEF IInv, TypeOK, CancelCommit, broker, workers, reaper
<1>6. ASSUME NEW j \in Jobs, LockExpires(j)
       PROVE  TypeOK'
  BY <1>6 DEF IInv, TypeOK, LockExpires, rows, api, workers, reaper
<1>7. ASSUME NEW j \in Jobs, GrowsOld(j)
       PROVE  TypeOK'
  BY <1>7 DEF IInv, TypeOK, GrowsOld, broker, api, workers, reaper
<1>8. ASSUME NEW w \in Workers, NEW j \in Jobs, Take(w, j)
       PROVE  TypeOK'
  <2>1. /\ messages' \in [Jobs -> Nat]
        /\ lock' \in [Jobs -> Workers \cup {NoWorker}]
        /\ task' \in [Workers -> Jobs]
    BY <1>8 DEF IInv, TypeOK, Take
  <2>2. pc' \in [Workers -> PcTypes]
    BY <1>8, PcNames, GotoType DEF IInv, TypeOK, Take
  <2>3. QED
    BY <1>8, <2>1, <2>2 DEF IInv, TypeOK, Take, rows, api, reaper
<1>9. ASSUME NEW w \in Workers, Load(w)
       PROVE  TypeOK'
  <2>1. pc' \in [Workers -> PcTypes]
    BY <1>9, PcNames, GotoType DEF IInv, Load
  <2>2. seen' \in [Workers -> Snapshots]
    BY <1>9, SeenType DEF IInv, Load
  <2>3. QED
    BY <1>9, <2>1, <2>2 DEF IInv, TypeOK, Load, Stay, rows, broker, api, reaper
<1>10. ASSUME NEW w \in Workers, LoadCommit(w)
       PROVE  TypeOK'
  <2>1. pc' \in [Workers -> PcTypes] /\ seen' \in [Workers -> Snapshots]
    BY <1>10, PcNames, GotoType, SeenType DEF IInv, LoadCommit
  <2>2. status' \in [Jobs -> Statuses \cup {"ABSENT"}]
    BY <1>10, StatusType DEF IInv, TypeOK, LoadCommit, Statuses
  <2>3. QED
    BY <1>10, <2>1, <2>2 DEF IInv, TypeOK, LoadCommit, Stay, broker, api, reaper
<1>11. ASSUME NEW w \in Workers, Submit(w)
       PROVE  TypeOK'
  <2>1. pc' \in [Workers -> PcTypes]
    BY <1>11, PcNames, GotoType DEF IInv, Submit
  <2>2. QED
    BY <1>11, <2>1 DEF IInv, TypeOK, Submit, Stay, rows, broker, api, reaper
<1>12. ASSUME NEW w \in Workers, OpenTransaction(w)
       PROVE  TypeOK'
  <2>1. pc[w] # "idle" /\ Opening[pc[w]] \in PcTypes
    BY <1>12, PcNames DEF OpenTransaction, Opening
  <2>2. pc' \in [Workers -> PcTypes]
    BY <1>12, <2>1, GotoType DEF IInv, OpenTransaction
  <2>3. status[task[w]] # "ABSENT"
    BY <2>1 DEF IInv, TypeOK, Existing
  <2>4. seen' \in [Workers -> Snapshots]
    BY <1>12, <2>3, SeenType DEF IInv, OpenTransaction
  <2>5. QED
    BY <1>12, <2>2, <2>4 DEF IInv, TypeOK, OpenTransaction, Stay, rows, broker, api, reaper
<1>13. ASSUME NEW w \in Workers, Record(w)
       PROVE  TypeOK'
  <2>1. CASE Raise(w)
    <3>1. pc' \in [Workers -> PcTypes] /\ seen' \in [Workers -> Snapshots]
      BY <2>1, PcNames, GotoType, SeenType DEF IInv, Raise
    <3>2. QED
      BY <2>1, <3>1 DEF IInv, TypeOK, Raise, Stay, rows, broker, api, reaper
  <2>2. CASE ~Raise(w)
    <3>1. pc' \in [Workers -> PcTypes] /\ seen' \in [Workers -> Snapshots]
      BY <1>13, <2>2, PcNames, GotoType, SeenType DEF IInv, Record
    <3>2. status' \in [Jobs -> Statuses \cup {"ABSENT"}]
      BY <1>13, <2>2, StatusType DEF IInv, TypeOK, Record, Statuses
    <3>3. /\ started' \in [Jobs -> {"never", "recent", "old"}]
          /\ mark' \in [Workers -> {"early", "recorded", "stamped"}]
      BY <1>13, <2>2 DEF IInv, TypeOK, Record
    <3>4. QED
      BY <1>13, <2>2, <3>1, <3>2, <3>3 DEF IInv, TypeOK, Record, broker, api, reaper
  <2>3. QED
    BY <2>1, <2>2
<1>14. ASSUME NEW w \in Workers, Poll(w)
       PROVE  TypeOK'
  <2>1. pc' \in [Workers -> PcTypes]
    BY <1>14, PcNames, GotoType DEF IInv, Poll
  <2>2. seen' \in [Workers -> Snapshots]
    <3>1. status[task[w]] # "ABSENT"
      BY <1>14 DEF IInv, TypeOK, Existing, Poll
    <3>2. QED
      BY <1>14, <3>1, SeenType DEF IInv, TypeOK, Poll
  <2>3. QED
    BY <1>14, <2>1, <2>2 DEF IInv, TypeOK, Poll, Stay, rows, broker, api, reaper
<1>15. ASSUME NEW w \in Workers, PollCommit(w)
       PROVE  TypeOK'
  <2>1. pc' \in [Workers -> PcTypes] /\ seen' \in [Workers -> Snapshots]
    BY <1>15, PcNames, GotoType, SeenType DEF IInv, PollCommit
  <2>2. status' \in [Jobs -> Statuses \cup {"ABSENT"}]
    BY <1>15, StatusType DEF IInv, TypeOK, PollCommit, Statuses
  <2>3. QED
    BY <1>15, <2>1, <2>2 DEF IInv, TypeOK, PollCommit, Stay, broker, api, reaper
<1>16. ASSUME NEW w \in Workers, Ingest(w)
       PROVE  TypeOK'
  <2>1. pc' \in [Workers -> PcTypes] /\ seen' \in [Workers -> Snapshots]
    BY <1>16, PcNames, GotoType, SeenType DEF IInv, Ingest
  <2>2. produced' \in [Jobs -> BOOLEAN]
    BY <1>16 DEF IInv, TypeOK, Ingest
  <2>3. QED
    BY <1>16, <2>1, <2>2 DEF IInv, TypeOK, Ingest, Stay, broker, api, reaper
<1>17. ASSUME NEW w \in Workers, Complete(w)
       PROVE  TypeOK'
  <2>1. CASE Raise(w)
    <3>1. pc' \in [Workers -> PcTypes] /\ seen' \in [Workers -> Snapshots]
      BY <2>1, PcNames, GotoType, SeenType DEF IInv, Raise
    <3>2. QED
      BY <2>1, <3>1 DEF IInv, TypeOK, Raise, Stay, rows, broker, api, reaper
  <2>2. CASE ~Raise(w)
    <3>1. pc' \in [Workers -> PcTypes] /\ seen' \in [Workers -> Snapshots]
      BY <1>17, <2>2, PcNames, GotoType, SeenType DEF IInv, Complete
    <3>2. status' \in [Jobs -> Statuses \cup {"ABSENT"}]
      BY <1>17, <2>2, StatusType DEF IInv, TypeOK, Complete, Statuses
    <3>3. /\ money' \in [Jobs -> SUBSET {"reserve", "capture", "release"}]
          /\ shot' \in [Jobs -> {"PENDING", "QUEUED", "READY", "FAILED"}]
      BY <1>17, <2>2, Settling DEF IInv, TypeOK, Complete
    <3>4. QED
      BY <1>17, <2>2, <3>1, <3>2, <3>3 DEF IInv, TypeOK, Complete, Stay, broker, api, reaper
  <2>3. QED
    BY <2>1, <2>2
<1>18. ASSUME NEW w \in Workers, FailCommit(w)
       PROVE  TypeOK'
  <2>1. CASE Raise(w)
    <3>1. pc' \in [Workers -> PcTypes] /\ seen' \in [Workers -> Snapshots]
      BY <2>1, PcNames, GotoType, SeenType DEF IInv, Raise
    <3>2. QED
      BY <2>1, <3>1 DEF IInv, TypeOK, Raise, Stay, rows, broker, api, reaper
  <2>2. CASE ~Raise(w)
    <3>1. pc' \in [Workers -> PcTypes] /\ seen' \in [Workers -> Snapshots]
      BY <1>18, <2>2, PcNames, GotoType, SeenType DEF IInv, FailCommit
    <3>2. status' \in [Jobs -> Statuses \cup {"ABSENT"}]
      BY <1>18, <2>2, StatusType DEF IInv, TypeOK, FailCommit, FailTarget, Statuses
    <3>3. /\ money' \in [Jobs -> SUBSET {"reserve", "capture", "release"}]
          /\ shot' \in [Jobs -> {"PENDING", "QUEUED", "READY", "FAILED"}]
      BY <1>18, <2>2, Settling, SMTT(30) DEF IInv, TypeOK, FailCommit, MoneyAfter
    <3>4. /\ retries' \in [Jobs -> 0 .. MaxRetries]
          /\ again' \in [Workers -> BOOLEAN]
      <4> DEFINE r == seen[w]
                 retryable == pc[w] = "retrying"
      <4>1. RetriesAfter(task[w], r, retryable) \in 0 .. MaxRetries
        BY JobsAssumption DEF IInv, TypeOK, RetriesAfter, WillRetry, Snapshots
      <4>2. WillRetry(r, retryable) \in BOOLEAN
        BY DEF WillRetry
      <4>3. /\ retries' = [retries EXCEPT ![task[w]] = RetriesAfter(task[w], r, retryable)]
            /\ again' = [again EXCEPT ![w] = WillRetry(r, retryable)]
        BY <1>18, <2>2 DEF FailCommit
      <4> HIDE DEF r, retryable
      <4>4. QED
        BY <4>1, <4>2, <4>3 DEF IInv, TypeOK
    <3>5. QED
      BY <1>18, <2>2, <3>1, <3>2, <3>3, <3>4
      DEF IInv, TypeOK, FailCommit, broker, api, reaper
  <2>3. QED
    BY <2>1, <2>2
<1>19. ASSUME NEW w \in Workers, TimeoutCommit(w)
       PROVE  TypeOK'
  <2>1. CASE Raise(w)
    <3>1. pc' \in [Workers -> PcTypes] /\ seen' \in [Workers -> Snapshots]
      BY <2>1, PcNames, GotoType, SeenType DEF IInv, Raise
    <3>2. QED
      BY <2>1, <3>1 DEF IInv, TypeOK, Raise, Stay, rows, broker, api, reaper
  <2>2. CASE ~Raise(w)
    <3>1. pc' \in [Workers -> PcTypes] /\ seen' \in [Workers -> Snapshots]
      BY <1>19, <2>2, PcNames, GotoType, SeenType DEF IInv, TimeoutCommit
    <3>2. status' \in [Jobs -> Statuses \cup {"ABSENT"}]
      BY <1>19, <2>2, StatusType DEF IInv, TypeOK, TimeoutCommit, Statuses
    <3>3. QED
      BY <1>19, <2>2, <3>1, <3>2 DEF IInv, TypeOK, TimeoutCommit, Stay, broker, api, reaper
  <2>3. QED
    BY <2>1, <2>2
<1>20. ASSUME NEW w \in Workers, StopCommit(w)
       PROVE  TypeOK'
  <2>1. pc' \in [Workers -> PcTypes] /\ seen' \in [Workers -> Snapshots]
    BY <1>20, PcNames, GotoType, SeenType DEF IInv, StopCommit
  <2>2. status' \in [Jobs -> Statuses \cup {"ABSENT"}]
    BY <1>20, StatusType DEF IInv, TypeOK, StopCommit, Statuses
  <2>3. money' \in [Jobs -> SUBSET {"reserve", "capture", "release"}]
    BY <1>20, Settling DEF IInv, TypeOK, StopCommit
  <2>4. QED
    BY <1>20, <2>1, <2>2, <2>3 DEF IInv, TypeOK, StopCommit, Stay, broker, api, reaper
<1>21. ASSUME NEW w \in Workers, Exit(w)
       PROVE  TypeOK'
  <2>1. pc' \in [Workers -> PcTypes] /\ seen' \in [Workers -> Snapshots]
    BY <1>21, PcNames, GotoType, SeenType DEF IInv, Exit, Forget
  <2>2. /\ lock' \in [Jobs -> Workers \cup {NoWorker}]
        /\ messages' \in [Jobs -> Nat]
    BY <1>21 DEF IInv, TypeOK, Exit
  <2>3. /\ mark' \in [Workers -> {"early", "recorded", "stamped"}]
        /\ again' \in [Workers -> BOOLEAN]
    BY <1>21 DEF IInv, TypeOK, Exit, Forget
  <2>4. QED
    BY <1>21, <2>1, <2>2, <2>3 DEF IInv, TypeOK, Exit, Forget, rows, api, reaper
<1>22. ASSUME NEW w \in Workers, Abort(w)
       PROVE  TypeOK'
  <2>1. pc' \in [Workers -> PcTypes] /\ seen' \in [Workers -> Snapshots]
    BY <1>22, PcNames, GotoType, SeenType DEF IInv, Abort, Raise
  <2>2. QED
    BY <1>22, <2>1 DEF IInv, TypeOK, Abort, Raise, Stay, rows, broker, api, reaper
<1>23. ASSUME NEW w \in Workers, Die(w)
       PROVE  TypeOK'
  <2>1. pc' \in [Workers -> PcTypes] /\ seen' \in [Workers -> Snapshots]
    BY <1>23, PcNames, GotoType, SeenType DEF IInv, Die, Forget
  <2>2. messages' \in [Jobs -> Nat]
    BY <1>23 DEF IInv, TypeOK, Die
  <2>3. /\ mark' \in [Workers -> {"early", "recorded", "stamped"}]
        /\ again' \in [Workers -> BOOLEAN]
    BY <1>23 DEF IInv, TypeOK, Die, Forget
  <2>4. QED
    BY <1>23, <2>1, <2>2, <2>3 DEF IInv, TypeOK, Die, Forget, rows, api, reaper
<1>24. ASSUME SweepRead
       PROVE  TypeOK'
  BY <1>24, JobsAssumption DEF IInv, TypeOK, Existing, Snapshots, NoRow,
      Statuses, PcTypes, Opening, SweepRead, Row, Stuck, rows, broker, api,
      workers
<1>25. ASSUME SweepCommit
       PROVE  TypeOK'
  BY <1>25, JobsAssumption DEF IInv, TypeOK, Existing, Snapshots, NoRow,
      Statuses, PcTypes, Opening, SweepCommit, Written, FailTarget,
      RetriesAfter, MoneyAfter, AfterRelease, Holding, WillRetry, broker, api,
      workers
<1>26. ASSUME SweepUnlock
       PROVE  TypeOK'
  BY <1>26 DEF IInv, TypeOK, SweepUnlock, rows, api, workers
<1>27. ASSUME SweepDies
       PROVE  TypeOK'
  BY <1>27 DEF IInv, TypeOK, SweepDies, rows, broker, api, workers
<1>28. QED
  BY <1>0, <1>1, <1>2, <1>3, <1>4, <1>5, <1>6, <1>7, <1>8, <1>9, <1>10, <1>11,
     <1>12, <1>13, <1>14, <1>15, <1>16, <1>17, <1>18, <1>19, <1>20, <1>21,
     <1>22, <1>23, <1>24, <1>25, <1>26, <1>27
  DEF Next, Request, Worker, Attempt, Reaper

\* Every step keeps Existing: only a request makes a job appear or a message for
\* it, and a worker is busy with what a message named.
LEMMA ExistingStep ==
    ASSUME IInv, [Next]_vars
    PROVE  Existing'
<1>0. CASE UNCHANGED vars
  BY <1>0 DEF IInv, TypeOK, Existing, vars, rows, broker, api, workers
<1>1. ASSUME NEW j \in Jobs, Generate(j)
       PROVE  Existing'
  BY <1>1 DEF IInv, TypeOK, Existing, Generate, broker, workers
<1>2. ASSUME NEW j \in Jobs, Enqueue(j)
       PROVE  Existing'
  BY <1>2 DEF IInv, TypeOK, Existing, Enqueue, rows, workers
<1>3. ASSUME NEW j \in Jobs, EnqueueLost(j)
       PROVE  Existing'
  BY <1>3 DEF IInv, TypeOK, Existing, EnqueueLost, rows, broker, workers
<1>4. ASSUME NEW j \in Jobs, CancelRead(j)
       PROVE  Existing'
  BY <1>4 DEF IInv, TypeOK, Existing, CancelRead, rows, broker, workers
<1>5. ASSUME NEW j \in Jobs, CancelCommit(j)
       PROVE  Existing'
  BY <1>5 DEF IInv, TypeOK, Existing, CancelCommit, SetStatus, Written, broker,
      workers
<1>6. ASSUME NEW j \in Jobs, LockExpires(j)
       PROVE  Existing'
  BY <1>6 DEF IInv, TypeOK, Existing, LockExpires, rows, api, workers
<1>7. ASSUME NEW j \in Jobs, GrowsOld(j)
       PROVE  Existing'
  BY <1>7 DEF IInv, TypeOK, Existing, GrowsOld, broker, api, workers
<1>8. ASSUME NEW w \in Workers, NEW j \in Jobs, Take(w, j)
       PROVE  Existing'
  BY <1>8 DEF IInv, TypeOK, Existing, Take, Goto, rows, api
<1>9. ASSUME NEW w \in Workers, Load(w)
       PROVE  Existing'
  BY <1>9 DEF IInv, TypeOK, Existing, Load, Goto, Stay, rows, broker, api
<1>10. ASSUME NEW w \in Workers, LoadCommit(w)
       PROVE  Existing'
  BY <1>10 DEF IInv, TypeOK, Existing, LoadCommit, Goto, Stay, SetStatus,
      Written, broker, api
<1>11. ASSUME NEW w \in Workers, Submit(w)
       PROVE  Existing'
  BY <1>11 DEF IInv, TypeOK, Existing, Submit, Goto, Stay, rows, broker, api
<1>12. ASSUME NEW w \in Workers, OpenTransaction(w)
       PROVE  Existing'
  <2>1. pc[w] # "idle"
    BY <1>12 DEF OpenTransaction, Opening
  <2>2. /\ UNCHANGED <<status, asked, messages, task>>
        /\ \A v \in Workers \ {w} : pc'[v] = pc[v]
    BY <1>12 DEF IInv, TypeOK, OpenTransaction, Goto, Stay, rows, broker, api
  <2>3. QED
    BY <2>1, <2>2 DEF IInv, Existing
<1>13. ASSUME NEW w \in Workers, Record(w)
       PROVE  Existing'
  BY <1>13 DEF IInv, TypeOK, Existing, Record, Goto, Stay, SetStatus, Written,
      Raise, rows, broker, api
<1>14. ASSUME NEW w \in Workers, Poll(w)
       PROVE  Existing'
  BY <1>14 DEF IInv, TypeOK, Existing, Poll, Goto, Stay, rows, broker, api
<1>15. ASSUME NEW w \in Workers, PollCommit(w)
       PROVE  Existing'
  BY <1>15 DEF IInv, TypeOK, Existing, PollCommit, Goto, Stay, SetStatus,
      Written, broker, api
<1>16. ASSUME NEW w \in Workers, Ingest(w)
       PROVE  Existing'
  BY <1>16 DEF IInv, TypeOK, Existing, Ingest, Goto, Stay, broker, api
<1>17. ASSUME NEW w \in Workers, Complete(w)
       PROVE  Existing'
  BY <1>17 DEF IInv, TypeOK, Existing, Complete, Goto, Stay, SetStatus, Written,
      Raise, rows, broker, api
<1>18. ASSUME NEW w \in Workers, FailCommit(w)
       PROVE  Existing'
  BY <1>18 DEF IInv, TypeOK, Existing, FailCommit, Goto, Stay, SetStatus,
      Written, Raise, FailTarget, WillRetry, rows, broker, api
<1>19. ASSUME NEW w \in Workers, TimeoutCommit(w)
       PROVE  Existing'
  BY <1>19 DEF IInv, TypeOK, Existing, TimeoutCommit, Goto, Stay, SetStatus,
      Written, Raise, rows, broker, api
<1>20. ASSUME NEW w \in Workers, StopCommit(w)
       PROVE  Existing'
  BY <1>20 DEF IInv, TypeOK, Existing, StopCommit, Goto, Stay, SetStatus,
      Written, broker, api
<1>21. ASSUME NEW w \in Workers, Exit(w)
       PROVE  Existing'
  BY <1>21 DEF IInv, TypeOK, Existing, Exit, Goto, Forget, rows, api
<1>22. ASSUME NEW w \in Workers, Abort(w)
       PROVE  Existing'
  BY <1>22 DEF IInv, TypeOK, Existing, Abort, Goto, Stay, Raise, rows, broker,
      api
<1>23. ASSUME NEW w \in Workers, Die(w)
       PROVE  Existing'
  BY <1>23 DEF IInv, TypeOK, Existing, Die, Goto, Forget, rows, api
<1>24. ASSUME SweepRead
       PROVE  Existing'
  BY <1>24 DEF IInv, TypeOK, Existing, SweepRead, Stuck, rows, broker, api,
      workers
<1>25. ASSUME SweepCommit
       PROVE  Existing'
  BY <1>25 DEF IInv, TypeOK, Existing, SweepCommit, Written, FailTarget,
      WillRetry, broker, api, workers
<1>26. ASSUME SweepUnlock
       PROVE  Existing'
  BY <1>26 DEF IInv, TypeOK, Existing, SweepUnlock, rows, api, workers
<1>27. ASSUME SweepDies
       PROVE  Existing'
  BY <1>27 DEF IInv, TypeOK, Existing, SweepDies, rows, broker, api, workers
<1>28. QED
  BY <1>0, <1>1, <1>2, <1>3, <1>4, <1>5, <1>6, <1>7, <1>8, <1>9, <1>10, <1>11,
     <1>12, <1>13, <1>14, <1>15, <1>16, <1>17, <1>18, <1>19, <1>20, <1>21,
     <1>22, <1>23, <1>24, <1>25, <1>26, <1>27
  DEF Next, Request, Worker, Attempt, Reaper

\* Every step settles what it finishes: a commit that may leave a job COMPLETED,
\* FAILED or CANCELED also captures or releases, and no other touches the money.
LEMMA MoneyStep ==
    ASSUME IInv, [Next]_vars
    PROVE  SettledWhenFinal'
<1>0. CASE UNCHANGED vars
  BY <1>0 DEF IInv, SettledWhenFinal, Holding, vars, rows
<1>1. ASSUME NEW j \in Jobs, Generate(j)
       PROVE  SettledWhenFinal'
  <2>1. \A k \in Jobs \ {j} : status'[k] = status[k] /\ money'[k] = money[k]
    BY <1>1 DEF IInv, TypeOK, Generate
  <2>2. CASE status[j] = "ABSENT"
    <3>1. status'[j] = "CREATED"
      BY <1>1, <2>2 DEF IInv, TypeOK, Generate
    <3>2. QED
      BY <2>1, <3>1 DEF IInv, SettledWhenFinal, Holding
  <2>3. CASE status[j] # "ABSENT"
    BY <1>1, <2>3 DEF IInv, SettledWhenFinal, Holding, Generate
  <2>4. QED
    BY <2>2, <2>3
<1>2. ASSUME NEW j \in Jobs, Enqueue(j)
       PROVE  SettledWhenFinal'
  BY <1>2 DEF IInv, SettledWhenFinal, Holding, Enqueue, rows
<1>3. ASSUME NEW j \in Jobs, EnqueueLost(j)
       PROVE  SettledWhenFinal'
  BY <1>3 DEF IInv, SettledWhenFinal, Holding, EnqueueLost, rows
<1>4. ASSUME NEW j \in Jobs, CancelRead(j)
       PROVE  SettledWhenFinal'
  BY <1>4 DEF IInv, SettledWhenFinal, Holding, CancelRead, rows
<1>5. ASSUME NEW j \in Jobs, CancelCommit(j)
       PROVE  SettledWhenFinal'
  <2>1. \A k \in Jobs \ {j} : status'[k] = status[k] /\ money'[k] = money[k]
    BY <1>5 DEF IInv, TypeOK, CancelCommit, SetStatus
  <2>2. ~Holding(money'[j])
    BY <1>5, Settling DEF IInv, TypeOK, CancelCommit
  <2>3. QED
    BY <1>5, <2>1, <2>2 DEF IInv, SettledWhenFinal
<1>6. ASSUME NEW j \in Jobs, LockExpires(j)
       PROVE  SettledWhenFinal'
  BY <1>6 DEF IInv, SettledWhenFinal, Holding, LockExpires, rows
<1>7. ASSUME NEW j \in Jobs, GrowsOld(j)
       PROVE  SettledWhenFinal'
  BY <1>7 DEF IInv, SettledWhenFinal, Holding, GrowsOld
<1>8. ASSUME NEW w \in Workers, NEW j \in Jobs, Take(w, j)
       PROVE  SettledWhenFinal'
  BY <1>8 DEF IInv, SettledWhenFinal, Holding, Take, rows
<1>9. ASSUME NEW w \in Workers, Load(w)
       PROVE  SettledWhenFinal'
  BY <1>9 DEF IInv, SettledWhenFinal, Holding, Load, rows
<1>10. ASSUME NEW w \in Workers, LoadCommit(w)
       PROVE  SettledWhenFinal'
  BY <1>10 DEF IInv, SettledWhenFinal, Holding, LoadCommit, SetStatus, Written
<1>11. ASSUME NEW w \in Workers, Submit(w)
       PROVE  SettledWhenFinal'
  BY <1>11 DEF IInv, SettledWhenFinal, Holding, Submit, rows
<1>12. ASSUME NEW w \in Workers, OpenTransaction(w)
       PROVE  SettledWhenFinal'
  BY <1>12 DEF IInv, SettledWhenFinal, Holding, OpenTransaction, rows
<1>13. ASSUME NEW w \in Workers, Record(w)
       PROVE  SettledWhenFinal'
  <2>1. \A k \in Jobs : status'[k] \in {status[k], "SUBMITTED"}
    BY <1>13, StatusType DEF IInv, TypeOK, Record, Raise, rows, Statuses
  <2>2. money' = money
    BY <1>13 DEF Record, Raise, rows
  <2>3. QED
    BY <2>1, <2>2 DEF IInv, SettledWhenFinal, Holding
<1>14. ASSUME NEW w \in Workers, Poll(w)
       PROVE  SettledWhenFinal'
  BY <1>14 DEF IInv, SettledWhenFinal, Holding, Poll, rows
<1>15. ASSUME NEW w \in Workers, PollCommit(w)
       PROVE  SettledWhenFinal'
  BY <1>15, JobsAssumption DEF IInv, SettledWhenFinal, Holding, TypeOK,
      Existing, Statuses, Snapshots, Terminal, PollCommit, Goto, Stay, Close,
      SetStatus, Written
<1>16. ASSUME NEW w \in Workers, Ingest(w)
       PROVE  SettledWhenFinal'
  BY <1>16 DEF IInv, SettledWhenFinal, Holding, Ingest
<1>17. ASSUME NEW w \in Workers, Complete(w)
       PROVE  SettledWhenFinal'
  <2>1. CASE Raise(w)
    BY <2>1 DEF IInv, SettledWhenFinal, Holding, Raise, rows
  <2>2. CASE ~Raise(w)
    <3>1. \A k \in Jobs \ {task[w]} : status'[k] = status[k] /\ money'[k] = money[k]
      BY <1>17, <2>2 DEF IInv, TypeOK, Complete, SetStatus
    <3>2. ~Holding(money'[task[w]])
      BY <1>17, <2>2, Settling DEF IInv, TypeOK, Complete
    <3>3. QED
      BY <3>1, <3>2 DEF IInv, SettledWhenFinal, Holding
  <2>3. QED
    BY <2>1, <2>2
<1>18. ASSUME NEW w \in Workers, FailCommit(w)
       PROVE  SettledWhenFinal'
  <2> DEFINE j == task[w]
             r == seen[w]
             retryable == pc[w] = "retrying"
  <2>1. CASE Raise(w)
    BY <2>1 DEF IInv, SettledWhenFinal, Holding, Raise, rows
  <2>2. CASE ~Raise(w)
    <3>1. /\ SetStatus(j, r, FailTarget(r, retryable))
          /\ money' = [money EXCEPT ![j] = MoneyAfter(j, r, retryable)]
      BY <1>18, <2>2 DEF FailCommit
    <3> j \in Jobs
      BY DEF IInv, TypeOK
    <3> HIDE DEF j, r, retryable
    <3>2. \A k \in Jobs \ {j} : status'[k] = status[k] /\ money'[k] = money[k]
      BY <3>1 DEF IInv, TypeOK, SetStatus
    <3>3. CASE WillRetry(r, retryable)
      <4>1. status'[j] \in {status[j], "QUEUED"}
        BY <3>1, <3>3, StatusType DEF IInv, FailTarget, Statuses
      <4>2. money'[j] = money[j]
        BY <3>1, <3>3 DEF IInv, TypeOK, MoneyAfter
      <4>3. QED
        BY <3>2, <4>1, <4>2 DEF IInv, SettledWhenFinal, Holding
    <3>4. CASE ~WillRetry(r, retryable)
      <4>1. money'[j] = AfterRelease(money[j])
        BY <3>1, <3>4 DEF IInv, TypeOK, MoneyAfter
      <4>2. ~Holding(money'[j])
        BY <4>1, Settling DEF IInv, TypeOK
      <4>3. QED
        BY <3>2, <4>2 DEF IInv, SettledWhenFinal, Holding
    <3>5. QED
      BY <3>3, <3>4
  <2>3. QED
    BY <2>1, <2>2
<1>19. ASSUME NEW w \in Workers, TimeoutCommit(w)
       PROVE  SettledWhenFinal'
  <2>1. \A k \in Jobs : status'[k] \in {status[k], "TIMEOUT"}
    BY <1>19, StatusType DEF IInv, TypeOK, TimeoutCommit, Raise, rows, Statuses
  <2>2. money' = money
    BY <1>19 DEF TimeoutCommit, Raise, rows
  <2>3. QED
    BY <2>1, <2>2 DEF IInv, SettledWhenFinal, Holding
<1>20. ASSUME NEW w \in Workers, StopCommit(w)
       PROVE  SettledWhenFinal'
  <2>1. CASE seen[w].status \in Terminal
    BY <1>20, <2>1 DEF IInv, SettledWhenFinal, Holding, StopCommit
  <2>2. CASE seen[w].status \notin Terminal
    <3>1. \A k \in Jobs \ {task[w]} : status'[k] = status[k] /\ money'[k] = money[k]
      BY <1>20, <2>2 DEF IInv, TypeOK, StopCommit, SetStatus
    <3>2. ~Holding(money'[task[w]])
      BY <1>20, <2>2, Settling DEF IInv, TypeOK, StopCommit
    <3>3. QED
      BY <3>1, <3>2 DEF IInv, SettledWhenFinal, Holding
  <2>3. QED
    BY <2>1, <2>2
<1>21. ASSUME NEW w \in Workers, Exit(w)
       PROVE  SettledWhenFinal'
  BY <1>21 DEF IInv, SettledWhenFinal, Holding, Exit, Forget, rows
<1>22. ASSUME NEW w \in Workers, Abort(w)
       PROVE  SettledWhenFinal'
  BY <1>22 DEF IInv, SettledWhenFinal, Holding, Abort, Raise, rows
<1>23. ASSUME NEW w \in Workers, Die(w)
       PROVE  SettledWhenFinal'
  BY <1>23 DEF IInv, SettledWhenFinal, Holding, Die, Forget, rows
<1>24. ASSUME SweepRead
       PROVE  SettledWhenFinal'
  BY <1>24 DEF IInv, SettledWhenFinal, Holding, SweepRead, Stuck, rows
<1>25. ASSUME SweepCommit
       PROVE  SettledWhenFinal'
  <2> DEFINE r(k) == CHOOSE x \in swept[k] : TRUE
  <2>1. SUFFICES ASSUME NEW k \in Jobs
                 PROVE  status'[k] \in {"COMPLETED", "FAILED", "CANCELED"} => ~Holding(money'[k])
    BY DEF SettledWhenFinal, Holding
  <2>2. CASE swept[k] = {}
    <3>1. status'[k] = status[k] /\ money'[k] = money[k]
      BY <1>25, <2>2 DEF SweepCommit
    <3>2. QED
      BY <3>1 DEF IInv, SettledWhenFinal, Holding
  <2>3. CASE swept[k] # {}
    <3>1. /\ status'[k] = Written(k, r(k), FailTarget(r(k), TRUE))
          /\ money'[k] = MoneyAfter(k, r(k), TRUE)
      BY <1>25, <2>3 DEF SweepCommit
    <3> HIDE DEF r
    <3>2. CASE WillRetry(r(k), TRUE)
      <4>1. money'[k] = money[k] /\ status'[k] \in {status[k], "QUEUED"}
        BY <3>1, <3>2 DEF MoneyAfter, Written, FailTarget
      <4>2. QED
        BY <4>1 DEF IInv, SettledWhenFinal, Holding
    <3>3. CASE ~WillRetry(r(k), TRUE)
      BY <3>1, <3>3, Settling DEF IInv, TypeOK, MoneyAfter
    <3>4. QED
      BY <3>2, <3>3
  <2>4. QED
    BY <2>2, <2>3
<1>26. ASSUME SweepUnlock
       PROVE  SettledWhenFinal'
  BY <1>26 DEF IInv, SettledWhenFinal, Holding, SweepUnlock, rows
<1>27. ASSUME SweepDies
       PROVE  SettledWhenFinal'
  BY <1>27 DEF IInv, SettledWhenFinal, Holding, SweepDies, rows
<1>28. QED
  BY <1>0, <1>1, <1>2, <1>3, <1>4, <1>5, <1>6, <1>7, <1>8, <1>9, <1>10, <1>11,
     <1>12, <1>13, <1>14, <1>15, <1>16, <1>17, <1>18, <1>19, <1>20, <1>21,
     <1>22, <1>23, <1>24, <1>25, <1>26, <1>27
  DEF Next, Request, Worker, Attempt, Reaper

\* Every step keeps Charges: the capture comes after the ingest in an attempt,
\* and COMPLETED only with the capture.
LEMMA ChargeStep ==
    ASSUME IInv, [Next]_vars
    PROVE  Charges'
<1>0. CASE UNCHANGED vars
  BY <1>0 DEF IInv, TypeOK, Charges, ChargedForAClip, vars, rows, workers
<1>1. ASSUME NEW j \in Jobs, Generate(j)
       PROVE  Charges'
  BY <1>1 DEF IInv, TypeOK, Charges, ChargedForAClip, Generate, workers
<1>2. ASSUME NEW j \in Jobs, Enqueue(j)
       PROVE  Charges'
  BY <1>2 DEF IInv, TypeOK, Charges, ChargedForAClip, Enqueue, rows, workers
<1>3. ASSUME NEW j \in Jobs, EnqueueLost(j)
       PROVE  Charges'
  BY <1>3 DEF IInv, TypeOK, Charges, ChargedForAClip, EnqueueLost, rows, workers
<1>4. ASSUME NEW j \in Jobs, CancelRead(j)
       PROVE  Charges'
  BY <1>4 DEF IInv, TypeOK, Charges, ChargedForAClip, CancelRead, rows, workers
<1>5. ASSUME NEW j \in Jobs, CancelCommit(j)
       PROVE  Charges'
  BY <1>5 DEF IInv, TypeOK, Charges, ChargedForAClip, CancelCommit, SetStatus,
      Written, AfterRelease, Holding, workers
<1>6. ASSUME NEW j \in Jobs, LockExpires(j)
       PROVE  Charges'
  BY <1>6 DEF IInv, TypeOK, Charges, ChargedForAClip, LockExpires, rows, workers
<1>7. ASSUME NEW j \in Jobs, GrowsOld(j)
       PROVE  Charges'
  BY <1>7 DEF IInv, TypeOK, Charges, ChargedForAClip, GrowsOld, workers
<1>8. ASSUME NEW w \in Workers, NEW j \in Jobs, Take(w, j)
       PROVE  Charges'
  BY <1>8 DEF IInv, TypeOK, Charges, ChargedForAClip, Take, Goto, rows
<1>9. ASSUME NEW w \in Workers, Load(w)
       PROVE  Charges'
  BY <1>9 DEF IInv, TypeOK, Charges, ChargedForAClip, Load, Goto, Stay, rows
<1>10. ASSUME NEW w \in Workers, LoadCommit(w)
       PROVE  Charges'
  BY <1>10 DEF IInv, TypeOK, Charges, ChargedForAClip, LoadCommit, Goto, Stay,
      SetStatus, Written
<1>11. ASSUME NEW w \in Workers, Submit(w)
       PROVE  Charges'
  BY <1>11 DEF IInv, TypeOK, Charges, ChargedForAClip, Submit, Goto, Stay, rows
<1>12. ASSUME NEW w \in Workers, OpenTransaction(w)
       PROVE  Charges'
  BY <1>12, JobsAssumption DEF IInv, TypeOK, Charges, ChargedForAClip,
      SettledWhenFinal, Holding, Existing, Statuses, Snapshots, Terminal,
      Opening, NoRow, PcTypes, OpenTransaction, Goto, Stay, ReadRow, Row, rows
<1>13. ASSUME NEW w \in Workers, Record(w)
       PROVE  Charges'
  BY <1>13 DEF IInv, TypeOK, Charges, ChargedForAClip, Record, Goto, Stay,
      SetStatus, Written, Raise, rows
<1>14. ASSUME NEW w \in Workers, Poll(w)
       PROVE  Charges'
  BY <1>14 DEF IInv, TypeOK, Charges, ChargedForAClip, Poll, Goto, Stay, rows
<1>15. ASSUME NEW w \in Workers, PollCommit(w)
       PROVE  Charges'
  BY <1>15 DEF IInv, TypeOK, Charges, ChargedForAClip, PollCommit, Goto, Stay,
      SetStatus, Written
<1>16. ASSUME NEW w \in Workers, Ingest(w)
       PROVE  Charges'
  <2>1. \A k \in Jobs : produced[k] => produced'[k]
    BY <1>16 DEF IInv, TypeOK, Ingest
  <2>2. pc'[w] = "complete" => produced'[task[w]]
    BY <1>16 DEF IInv, TypeOK, Ingest, Goto
  <2>3. pc'[w] # "completing"
    BY <1>16 DEF IInv, TypeOK, Ingest, Goto
  <2>4. \A v \in Workers \ {w} : pc'[v] = pc[v]
    BY <1>16 DEF IInv, TypeOK, Ingest, Goto
  <2>5. UNCHANGED <<status, money, task>>
    BY <1>16 DEF Ingest, Stay
  <2>6. ChargedForAClip'
    BY <2>1, <2>5 DEF IInv, Charges, ChargedForAClip
  <2>7. QED
    BY <2>1, <2>2, <2>3, <2>4, <2>5, <2>6 DEF IInv, TypeOK, Charges
<1>17. ASSUME NEW w \in Workers, Complete(w)
       PROVE  Charges'
  BY <1>17 DEF IInv, TypeOK, Charges, ChargedForAClip, Complete, Goto, Stay,
      SetStatus, Written, Raise, AfterCapture, rows
<1>18. ASSUME NEW w \in Workers, FailCommit(w)
       PROVE  Charges'
  BY <1>18 DEF IInv, TypeOK, Charges, ChargedForAClip, FailCommit, Goto, Stay,
      SetStatus, Written, Raise, FailTarget, MoneyAfter, AfterRelease, Holding,
      WillRetry, rows
<1>19. ASSUME NEW w \in Workers, TimeoutCommit(w)
       PROVE  Charges'
  BY <1>19 DEF IInv, TypeOK, Charges, ChargedForAClip, TimeoutCommit, Goto,
      Stay, SetStatus, Written, Raise, rows
<1>20. ASSUME NEW w \in Workers, StopCommit(w)
       PROVE  Charges'
  BY <1>20 DEF IInv, TypeOK, Charges, ChargedForAClip, StopCommit, Goto, Stay,
      SetStatus, Written, AfterRelease, Holding
<1>21. ASSUME NEW w \in Workers, Exit(w)
       PROVE  Charges'
  BY <1>21 DEF IInv, TypeOK, Charges, ChargedForAClip, Exit, Goto, Forget, rows
<1>22. ASSUME NEW w \in Workers, Abort(w)
       PROVE  Charges'
  BY <1>22 DEF IInv, TypeOK, Charges, ChargedForAClip, Abort, Goto, Stay, Raise,
      rows
<1>23. ASSUME NEW w \in Workers, Die(w)
       PROVE  Charges'
  BY <1>23 DEF IInv, TypeOK, Charges, ChargedForAClip, Die, Goto, Forget, rows
<1>24. ASSUME SweepRead
       PROVE  Charges'
  BY <1>24 DEF IInv, TypeOK, Charges, ChargedForAClip, SweepRead, Stuck, rows,
      workers
<1>25. ASSUME SweepCommit
       PROVE  Charges'
  BY <1>25 DEF IInv, TypeOK, Charges, ChargedForAClip, SweepCommit, Written,
      FailTarget, MoneyAfter, AfterRelease, Holding, WillRetry, workers
<1>26. ASSUME SweepUnlock
       PROVE  Charges'
  BY <1>26 DEF IInv, TypeOK, Charges, ChargedForAClip, SweepUnlock, rows,
      workers
<1>27. ASSUME SweepDies
       PROVE  Charges'
  BY <1>27 DEF IInv, TypeOK, Charges, ChargedForAClip, SweepDies, rows, workers
<1>28. QED
  BY <1>0, <1>1, <1>2, <1>3, <1>4, <1>5, <1>6, <1>7, <1>8, <1>9, <1>10, <1>11,
     <1>12, <1>13, <1>14, <1>15, <1>16, <1>17, <1>18, <1>19, <1>20, <1>21,
     <1>22, <1>23, <1>24, <1>25, <1>26, <1>27
  DEF Next, Request, Worker, Attempt, Reaper

\* Every step keeps Locks: before the first submission is recorded, only the
\* worker that set the lock deletes it, and it does not expire.
LEMMA LockStep ==
    ASSUME IInv, [Next]_vars
    PROVE  Locks'
<1>0. CASE UNCHANGED vars
  BY <1>0 DEF IInv, TypeOK, Locks, Submitting, vars, rows, broker, workers,
      reaper
<1>1. ASSUME NEW j \in Jobs, Generate(j)
       PROVE  Locks'
  BY <1>1 DEF IInv, TypeOK, Locks, Submitting, Generate, broker, workers, reaper
<1>2. ASSUME NEW j \in Jobs, Enqueue(j)
       PROVE  Locks'
  BY <1>2 DEF IInv, TypeOK, Locks, Submitting, Enqueue, rows, workers, reaper
<1>3. ASSUME NEW j \in Jobs, EnqueueLost(j)
       PROVE  Locks'
  BY <1>3 DEF IInv, TypeOK, Locks, Submitting, EnqueueLost, rows, broker,
      workers, reaper
<1>4. ASSUME NEW j \in Jobs, CancelRead(j)
       PROVE  Locks'
  BY <1>4 DEF IInv, TypeOK, Locks, Submitting, CancelRead, rows, broker,
      workers, reaper
<1>5. ASSUME NEW j \in Jobs, CancelCommit(j)
       PROVE  Locks'
  BY <1>5 DEF IInv, TypeOK, Locks, Submitting, CancelCommit, broker, workers,
      reaper
<1>6. ASSUME NEW j \in Jobs, LockExpires(j)
       PROVE  Locks'
  BY <1>6 DEF IInv, TypeOK, Locks, Submitting, LockExpires, rows, workers,
      reaper
<1>7. ASSUME NEW j \in Jobs, GrowsOld(j)
       PROVE  Locks'
  BY <1>7 DEF IInv, TypeOK, Locks, Submitting, GrowsOld, broker, workers, reaper
<1>8. ASSUME NEW w \in Workers, NEW j \in Jobs, Take(w, j)
       PROVE  Locks'
  <2>1. CASE lock[j] = NoWorker /\ lock' = [lock EXCEPT ![j] = w]
    <3>1. /\ Goto(w, "load")
          /\ task' = [task EXCEPT ![w] = j]
          /\ UNCHANGED <<started, mark, swept>>
      BY <1>8, <2>1, JobsAssumption DEF Take, IInv, TypeOK, rows, reaper
    <3>2. \A v \in Workers : ~Submitting(v, j) \/ started[j] # "never"
      BY <2>1, JobsAssumption DEF IInv, Locks
    <3>3. QED
      BY <1>8, <2>1, <3>1, <3>2 DEF IInv, TypeOK, Locks, Submitting, Goto, Take
  <2>2. CASE UNCHANGED <<lock, pc, task>>
    BY <1>8, <2>2 DEF IInv, Locks, Submitting, Take, rows, reaper
  <2>3. QED
    BY <1>8, <2>1, <2>2 DEF Take
<1>9. ASSUME NEW w \in Workers, Load(w)
       PROVE  Locks'
  BY <1>9 DEF IInv, TypeOK, Locks, Submitting, Load, Goto, Stay, rows, broker,
      reaper
<1>10. ASSUME NEW w \in Workers, LoadCommit(w)
       PROVE  Locks'
  BY <1>10 DEF IInv, TypeOK, Locks, Submitting, LoadCommit, Goto, Stay, broker,
      reaper
<1>11. ASSUME NEW w \in Workers, Submit(w)
       PROVE  Locks'
  BY <1>11 DEF IInv, TypeOK, Locks, Submitting, Submit, Goto, Stay, rows,
      broker, reaper
<1>12. ASSUME NEW w \in Workers, OpenTransaction(w)
       PROVE  Locks'
  BY <1>12, JobsAssumption DEF IInv, TypeOK, Locks, Submitting, Existing,
      Statuses, Snapshots, Opening, NoRow, PcTypes, OpenTransaction, Goto, Stay,
      ReadRow, Row, rows, broker, reaper
<1>13. ASSUME NEW w \in Workers, Record(w)
       PROVE  Locks'
  <2>1. CASE Raise(w)
    BY <1>13, <2>1 DEF IInv, TypeOK, Locks, Submitting, Raise, Stay, Goto, Record, rows, broker, reaper
  <2>2. CASE ~Raise(w)
    <3>1. /\ started' = [started EXCEPT ![task[w]] = IF @ = "never" THEN "recent" ELSE @]
          /\ mark' = [mark EXCEPT ![w] =
                        IF started[task[w]] = "never" THEN "stamped" ELSE "recorded"]
          /\ Goto(w, "poll")
          /\ UNCHANGED <<task, lock, swept>>
      BY <1>13, <2>2 DEF Record, broker, reaper
    <3>2. QED
      BY <1>13, <3>1 DEF IInv, TypeOK, Locks, Submitting, Goto, Record
  <2>3. QED
    BY <2>1, <2>2
<1>14. ASSUME NEW w \in Workers, Poll(w)
       PROVE  Locks'
  BY <1>14 DEF IInv, TypeOK, Locks, Submitting, Poll, Goto, Stay, rows, broker,
      reaper
<1>15. ASSUME NEW w \in Workers, PollCommit(w)
       PROVE  Locks'
  BY <1>15 DEF IInv, TypeOK, Locks, Submitting, PollCommit, Goto, Stay, broker,
      reaper
<1>16. ASSUME NEW w \in Workers, Ingest(w)
       PROVE  Locks'
  BY <1>16 DEF IInv, TypeOK, Locks, Submitting, Ingest, Goto, Stay, broker,
      reaper
<1>17. ASSUME NEW w \in Workers, Complete(w)
       PROVE  Locks'
  BY <1>17 DEF IInv, TypeOK, Locks, Submitting, Complete, Goto, Stay, Raise,
      rows, broker, reaper
<1>18. ASSUME NEW w \in Workers, FailCommit(w)
       PROVE  Locks'
  BY <1>18 DEF IInv, TypeOK, Locks, Submitting, FailCommit, Goto, Stay, Raise,
      rows, broker, reaper
<1>19. ASSUME NEW w \in Workers, TimeoutCommit(w)
       PROVE  Locks'
  BY <1>19 DEF IInv, TypeOK, Locks, Submitting, TimeoutCommit, Goto, Stay,
      Raise, rows, broker, reaper
<1>20. ASSUME NEW w \in Workers, StopCommit(w)
       PROVE  Locks'
  BY <1>20 DEF IInv, TypeOK, Locks, Submitting, StopCommit, Goto, Stay, broker,
      reaper
<1>21. ASSUME NEW w \in Workers, Exit(w)
       PROVE  Locks'
  BY <1>21 DEF IInv, TypeOK, Locks, Submitting, Exit, Goto, Forget, rows, reaper
<1>22. ASSUME NEW w \in Workers, Abort(w)
       PROVE  Locks'
  BY <1>22 DEF IInv, TypeOK, Locks, Submitting, Abort, Goto, Stay, Raise, rows,
      broker, reaper
<1>23. ASSUME NEW w \in Workers, Die(w)
       PROVE  Locks'
  BY <1>23 DEF IInv, TypeOK, Locks, Submitting, Die, Goto, Forget, rows, reaper
<1>24. ASSUME SweepRead
       PROVE  Locks'
  BY <1>24 DEF IInv, TypeOK, Locks, Submitting, SweepRead, Stuck, rows, broker,
      workers
<1>25. ASSUME SweepCommit
       PROVE  Locks'
  BY <1>25 DEF IInv, TypeOK, Locks, Submitting, SweepCommit, broker, workers
<1>26. ASSUME SweepUnlock
       PROVE  Locks'
  BY <1>26 DEF IInv, TypeOK, Locks, Submitting, SweepUnlock, rows, workers
<1>27. ASSUME SweepDies
       PROVE  Locks'
  BY <1>27 DEF IInv, TypeOK, Locks, Submitting, SweepDies, rows, broker, workers
<1>28. QED
  BY <1>0, <1>1, <1>2, <1>3, <1>4, <1>5, <1>6, <1>7, <1>8, <1>9, <1>10, <1>11,
     <1>12, <1>13, <1>14, <1>15, <1>16, <1>17, <1>18, <1>19, <1>20, <1>21,
     <1>22, <1>23, <1>24, <1>25, <1>26, <1>27
  DEF Next, Request, Worker, Attempt, Reaper

-----------------------------------------------------------------------------
\* The invariant holds initially.
LEMMA InitInv == Init => IInv
<1>1. SUFFICES ASSUME Init PROVE IInv
  OBVIOUS
<1>2. TypeOK
  <2>1. "idle" \in PcTypes
    BY PcNames
  <2>2. QED
    BY <1>1, <2>1, JobsAssumption DEF Init, TypeOK, Snapshots, NoRow, Statuses
<1>3. Existing
  BY <1>1 DEF Init, Existing
<1>4. SettledWhenFinal
  BY <1>1 DEF Init, SettledWhenFinal, Holding
<1>5. Charges
  BY <1>1 DEF Init, Charges, ChargedForAClip
<1>6. Locks
  BY <1>1 DEF Init, Locks, Submitting
<1>7. QED
  BY <1>2, <1>3, <1>4, <1>5, <1>6 DEF IInv

\* IInv is an invariant: it holds initially and every step of a request, a
\* worker, the clock or the sweep keeps each of its parts.
THEOREM VideoInvariance == Spec => []IInv
<1>1. IInv /\ [Next]_vars => IInv'
  BY TypeStep, ExistingStep, MoneyStep, ChargeStep, LockStep DEF IInv
<1>2. QED
  BY InitInv, <1>1, PTL DEF Spec

\* Every variable has its type, retry_count within job_max_retries included.
THEOREM VideoTypeCorrect == Spec => []TypeOK
<1>1. IInv => TypeOK
  BY DEF IInv
<1>2. QED
  BY VideoInvariance, <1>1, PTL

\* No job that reads COMPLETED, FAILED or CANCELED holds a reservation,
\* whatever stale rows the worker, the cancel request and the sweep commit.
THEOREM FinalJobsAreSettled == Spec => []SettledWhenFinal
<1>1. IInv => SettledWhenFinal
  BY DEF IInv
<1>2. QED
  BY VideoInvariance, <1>1, PTL

\* Only an ingested clip is charged, and a COMPLETED job is charged.
THEOREM ChargesAreForClips == Spec => []ChargedForAClip
<1>1. IInv => ChargedForAClip
  BY DEF IInv, Charges
<1>2. QED
  BY VideoInvariance, <1>1, PTL

\* Until a submission of a job is on record at most one worker submits it.
THEOREM FirstSubmissionIsExclusive == Spec => []FirstSubmissionExclusive
<1>1. IInv => FirstSubmissionExclusive
  BY DEF IInv, Locks, FirstSubmissionExclusive
<1>2. QED
  BY VideoInvariance, <1>1, PTL
=============================================================================
