--------------------------- MODULE PostProduction -----------------------------
(***************************************************************************)
(* services/post_production.py, the draft of services/editor.py and the    *)
(* start of jobs/tts_runner.py and render_runner.py: the renders of one    *)
(* project, the timeline each holds, and the jobs that are to produce them,*)
(* under concurrent requests of v1/renders.py and v1/editor.py.            *)
(*                                                                         *)
(* A timeline is what it was composed of and which edits it carries. What  *)
(* an edit does to it is in Cut. No runner passes its first transaction    *)
(* (see Attempt), so a render never leaves PENDING, a quality check is     *)
(* always refused (no output file), and the rest of the runners is dead.   *)
(***************************************************************************)
EXTENDS Integers, FiniteSets, Sequences

CONSTANTS Edits,       \* batches of edit operations
          Sessions,    \* API requests under way
          MaxRequests  \* bound: requests that change something

VARIABLES
    material,  \* the approved storyboard and the takes chosen for its shots
    renders,   \* the rows of renders, by version: their timelines
    jobs,      \* the jobs by idempotency key: status and the render they name
    queue,     \* the messages that wait for a worker
    tx,        \* the open request of each session
    requests,  \* how many requests there were
    kept,      \* history: the edits answered since the last composition
    mixed      \* history: an edit overlapped another one or a new render

vars == <<material, renders, jobs, queue, tx, requests, kept, mixed>>
-----------------------------------------------------------------------------
\* Idempotency keys: tts:{storyboard}, render:{digest of what is composed},
\* render:{id of the row}.
VoiceKey(m) == <<"voice", m.board, 0>>

\* Mutant: the takes are left out of the digest.
BoardKey(m) == <<"cut", m.board, 0>>

CutKey(m) == <<"cut", m.board, m.take>>
RowKey(version) == <<"row", version, 0>>

Materials == [board : 1 .. 2, take : 1 .. 2]

\* build_timeline: the shots as they stand, without edits.
Composed == [base |-> material, edits |-> {}]

Latest == Len(renders)

Idle == [op |-> "none", at |-> "none"]

Init ==
    /\ material = [board |-> 1, take |-> 1]
    /\ renders = <<>>
    /\ jobs = [k \in {} |-> [status |-> "CREATED", render |-> 0]]
    /\ queue = {}
    /\ tx = [s \in Sessions |-> Idle]
    /\ requests = 0
    /\ kept = {} /\ mixed = FALSE

-----------------------------------------------------------------------------
(* Elsewhere: another take is chosen, another storyboard approved.         *)

Retake ==
    /\ material.take = 1
    /\ material' = [material EXCEPT !.take = 2]
    /\ UNCHANGED <<renders, jobs, queue, tx, requests, kept, mixed>>

Reapprove ==
    /\ material.board = 1
    /\ material' = [board |-> 2, take |-> 1]
    /\ UNCHANGED <<renders, jobs, queue, tx, requests, kept, mixed>>

-----------------------------------------------------------------------------
CutOps == {"draft", "compose", "rerender", "edit"}

\* A request arrives and reads; t is what it goes by.
Open(s, t) ==
    /\ tx[s] = Idle /\ requests < MaxRequests
    /\ requests' = requests + 1
    /\ tx' = [tx EXCEPT ![s] = t]
    /\ mixed' = (mixed \/ (t.op \in CutOps /\ \E o \in Sessions \ {s} :
                    "edit" \in {t.op, tx[o].op} /\ tx[o].op \in CutOps /\ tx[o].at # "enqueue"))
    /\ UNCHANGED <<material, renders, jobs, queue, kept>>

\* The answer is out, or will not come. A request that made a job commits
\* first and hands it to the queue afterwards.
Close(s) == tx' = [tx EXCEPT ![s] = Idle]
ThenEnqueue(s, key) == tx' = [tx EXCEPT ![s] = [op |-> tx[s].op, at |-> "enqueue", key |-> key]]

\* A refusal, an error or a lost connection before the commit.
Rollback(s) ==
    /\ tx[s].at \notin {"none", "enqueue"}
    /\ Close(s)
    /\ UNCHANGED <<material, renders, jobs, queue, requests, kept, mixed>>

\* create of JobService, when no row has the key.
Created(key, render) == [k \in DOMAIN jobs \cup {key} |->
    IF k = key THEN [status |-> "CREATED", render |-> render] ELSE jobs[k]]

-----------------------------------------------------------------------------
(* queue_voiceover. A key that is there, or comes to be there before the   *)
(* insert, is answered with its job and nothing is enqueued.               *)

Voiceover(s) ==
    /\ VoiceKey(material) \notin DOMAIN jobs
    /\ Open(s, [op |-> "voice", at |-> "read", key |-> VoiceKey(material)])

CommitVoiceover(s) ==
    LET key == tx[s].key
    IN  /\ tx[s].op = "voice" /\ tx[s].at = "read"
        /\ IF key \in DOMAIN jobs
             THEN Close(s) /\ UNCHANGED jobs
             ELSE ThenEnqueue(s, key) /\ jobs' = Created(key, 0)
        /\ UNCHANGED <<material, renders, queue, requests, kept, mixed>>

-----------------------------------------------------------------------------
(* A new row of renders. next_version is read before the insert, and       *)
(* uq_renders_project_version makes an insert wait for one that has the    *)
(* same version and is not committed, and refuses it if that one commits.  *)

\* Mutant: an insert does not wait.
VersionUnused(s, version) == version > Latest

VersionFree(s, version) ==
    /\ version > Latest
    /\ \A o \in Sessions \ {s} : tx[o].at = "flushed" => tx[o].version # version

\* draft of the editor, the first thing of get_timeline, rerender and apply,
\* where there is no render yet.
FirstDraft(s, op, edits) ==
    /\ Latest = 0
    /\ Open(s, [op |-> op, at |-> "empty", edits |-> edits])

OpenDraft(s) == FirstDraft(s, "draft", {})

ComposeDraft(s) ==
    /\ tx[s].at = "empty"
    /\ tx' = [tx EXCEPT ![s] = [op |-> tx[s].op, at |-> "composed", first |-> TRUE,
                                edits |-> tx[s].edits, cut |-> Composed]]
    /\ UNCHANGED <<material, renders, jobs, queue, requests, kept, mixed>>

\* create_render
CreateRender(s) ==
    Open(s, [op |-> "compose", at |-> "composed", first |-> FALSE, edits |-> {}, cut |-> Composed])

\* next_version, once the timeline is there.
Number(s) ==
    LET t == tx[s]
    IN  /\ t.at = "composed"
        /\ tx' = [tx EXCEPT ![s] = [op |-> t.op, at |-> "numbered", first |-> t.first,
                                    edits |-> t.edits, cut |-> t.cut, version |-> Latest + 1]]
        /\ UNCHANGED <<material, renders, jobs, queue, requests, kept, mixed>>

\* The flush of the row, and the look for a job of the same timeline.
FlushRender(s) ==
    LET t == tx[s]
    IN  /\ t.op = "compose" /\ t.at = "numbered" /\ VersionFree(s, t.version)
        /\ tx' = [tx EXCEPT ![s] = [op |-> t.op, at |-> "flushed", cut |-> t.cut, version |-> t.version,
                                    reuse |-> CutKey(t.cut.base) \in DOMAIN jobs]]
        /\ UNCHANGED <<material, renders, jobs, queue, requests, kept, mixed>>

\* The row of a job that was there is not the one the job names.
CommitRender(s) ==
    LET t == tx[s]
        key == CutKey(t.cut.base)
    IN  /\ t.op = "compose" /\ t.at = "flushed"
        /\ renders' = Append(renders, t.cut)
        /\ IF t.reuse
             THEN Close(s) /\ UNCHANGED jobs
             ELSE ThenEnqueue(s, key) /\ jobs' = Created(key, t.version)
        /\ kept' = {}
        /\ UNCHANGED <<material, queue, requests, mixed>>

\* The row is inserted, the edits of apply are made in it, and it commits.
CommitDraft(s) ==
    LET t == tx[s]
    IN  /\ t.op \in {"draft", "edit"} /\ t.at = "numbered" /\ VersionFree(s, t.version)
        /\ renders' = Append(renders, [t.cut EXCEPT !.edits = t.edits])
        /\ kept' = kept \cup t.edits
        /\ Close(s)
        /\ UNCHANGED <<material, jobs, queue, requests, mixed>>

\* Mutant: the timeline is composed again.
RerenderFromShots(s) ==
    \/ FirstDraft(s, "rerender", {})
    \/ /\ Latest > 0
       /\ Open(s, [op |-> "rerender", at |-> "composed", first |-> FALSE, edits |-> {}, cut |-> Composed])

\* rerender: the timeline of the newest row again, under a job of its own.
Rerender(s) ==
    \/ FirstDraft(s, "rerender", {})
    \/ /\ Latest > 0
       /\ Open(s, [op |-> "rerender", at |-> "composed", first |-> FALSE, edits |-> {}, cut |-> renders[Latest]])

\* The row that draft made, if it made one, comes before the one to encode.
CommitRerender(s) ==
    LET t == tx[s]
        rows == IF t.first THEN <<t.cut, t.cut>> ELSE <<t.cut>>
    IN  /\ t.op = "rerender" /\ t.at = "numbered" /\ VersionFree(s, t.version)
        /\ renders' = renders \o rows
        /\ LET version == t.version + Len(rows) - 1
           IN  jobs' = Created(RowKey(version), version) /\ ThenEnqueue(s, RowKey(version))
        /\ UNCHANGED <<material, queue, requests, kept, mixed>>

-----------------------------------------------------------------------------
(* apply of the editor: reads the newest timeline, edits it in memory, and *)
(* overwrites the timeline of the row that is the newest by then. Where    *)
(* there is none, draft makes the row it overwrites: CommitDraft.          *)

ApplyEdits(s, e) ==
    \/ FirstDraft(s, "edit", {e})
    \/ /\ Latest > 0
       /\ Open(s, [op |-> "edit", at |-> "read", edits |-> {e},
                   cut |-> [renders[Latest] EXCEPT !.edits = @ \cup {e}]])

FindDraft(s) ==
    /\ tx[s].op = "edit" /\ tx[s].at = "read"
    /\ tx' = [tx EXCEPT ![s] = [op |-> "edit", at |-> "found", edits |-> tx[s].edits,
                                cut |-> tx[s].cut, row |-> Latest]]
    /\ UNCHANGED <<material, renders, jobs, queue, requests, kept, mixed>>

CommitEdits(s) ==
    LET t == tx[s]
    IN  /\ t.op = "edit" /\ t.at = "found"
        /\ renders' = [renders EXCEPT ![t.row] = t.cut]
        /\ kept' = kept \cup t.edits
        /\ Close(s)
        /\ UNCHANGED <<material, jobs, queue, requests, mixed>>

-----------------------------------------------------------------------------
(* The queue and the workers.                                              *)

\* _enqueue, after the commit.
Enqueue(s) ==
    LET key == tx[s].key
    IN  /\ tx[s].at = "enqueue"
        /\ queue' = queue \cup {key}
        /\ Close(s)
        /\ UNCHANGED <<material, renders, jobs, requests, kept, mixed>>

\* The process dies, or the broker does not answer, between the two.
NotEnqueued(s) ==
    /\ tx[s].at = "enqueue"
    /\ Close(s)
    /\ UNCHANGED <<material, renders, jobs, queue, requests, kept, mixed>>

\* _JOB_TRANSITIONS
NextJobStatuses ==
    [CREATED    |-> {"QUEUED", "CANCELED", "FAILED"},
     QUEUED     |-> {"SUBMITTED", "CANCELED", "FAILED", "TIMEOUT"},
     SUBMITTED  |-> {"PROCESSING", "COMPLETED", "FAILED", "CANCELED", "TIMEOUT"},
     PROCESSING |-> {"COMPLETED", "FAILED", "CANCELED", "TIMEOUT"},
     FAILED     |-> {"QUEUED"},
     TIMEOUT    |-> {"QUEUED"},
     COMPLETED  |-> {},
     CANCELED   |-> {}]

\* The first transaction of a runner: to QUEUED, then to PROCESSING, then the
\* commit. A transition the machine lacks raises and rolls both back.
AfterStart(status) ==
    IF "QUEUED" \in NextJobStatuses[status] /\ "PROCESSING" \in NextJobStatuses["QUEUED"]
    THEN "PROCESSING" ELSE status

\* The message is acknowledged even if the task raised; nothing sends it again.
Attempt(k) ==
    /\ k \in queue
    /\ jobs' = [jobs EXCEPT ![k].status = AfterStart(@)]
    /\ queue' = queue \ {k}
    /\ UNCHANGED <<material, renders, tx, requests, kept, mixed>>

\* cancel of JobService: a job that is over is left alone.
CancelJob(k) ==
    /\ k \in DOMAIN jobs /\ requests < MaxRequests
    /\ "CANCELED" \in NextJobStatuses[jobs[k].status]
    /\ requests' = requests + 1
    /\ jobs' = [jobs EXCEPT ![k].status = "CANCELED"]
    /\ UNCHANGED <<material, renders, queue, tx, kept, mixed>>

Next ==
    \/ Retake
    \/ Reapprove
    \/ \E s \in Sessions :
        \/ Voiceover(s) \/ CommitVoiceover(s)
        \/ OpenDraft(s) \/ ComposeDraft(s) \/ Number(s) \/ CommitDraft(s)
        \/ CreateRender(s) \/ FlushRender(s) \/ CommitRender(s)
        \/ Rerender(s) \/ CommitRerender(s)
        \/ \E e \in Edits : ApplyEdits(s, e)
        \/ FindDraft(s) \/ CommitEdits(s)
        \/ Enqueue(s) \/ NotEnqueued(s)
        \/ Rollback(s)
    \/ \E k \in queue : Attempt(k)
    \/ \E k \in DOMAIN jobs : CancelJob(k)

Spec == Init /\ [][Next]_vars

\* A worker takes the messages that wait.
FairSpec == Spec /\ WF_vars(\E k \in queue : Attempt(k))

-----------------------------------------------------------------------------
\* The rows have their shapes; a job names a render that is there.
TypeOK ==
    /\ material \in Materials
    /\ \A v \in DOMAIN renders : renders[v] \in [base : Materials, edits : SUBSET Edits]
    /\ \A k \in DOMAIN jobs : jobs[k].status \in DOMAIN NextJobStatuses /\ jobs[k].render \in 0 .. Latest
    /\ queue \subseteq DOMAIN jobs
    /\ requests \in 0 .. MaxRequests

\* A render that was flushed is not thrown away for a job: the handler of a
\* duplicate key in JobService.create rolls the session back, but of two
\* requests that compose the same timeline one waits at the version of its
\* row, so none inserts a job whose key appeared after it looked.
FlushedRenderSurvives ==
    \A s \in Sessions :
        tx[s].op = "compose" /\ tx[s].at = "flushed" /\ ~tx[s].reuse => CutKey(tx[s].cut.base) \notin DOMAIN jobs

\* An edit that was answered is in the newest timeline until the video is
\* composed from the shots again, unless an edit overlapped another edit or a
\* new render (editor.py, draft: rebuilding would discard every edit).
EditsKept == ~mixed /\ Latest > 0 => kept \subseteq renders[Latest].edits

\* The job of a composition names a render of that composition, whatever was
\* edited since, unless an edit overlapped a new render.
JobComposesItsKey ==
    \A m \in Materials :
        CutKey(m) \in DOMAIN jobs /\ ~mixed => renders[jobs[CutKey(m)].render].base = m

\* post_production.py: the chain Generate, Voice, Render, QC, Download has no
\* broken link. A job whose message a worker gets is started or ended.
QueuedJobStarts == \A k \in {VoiceKey(m) : m \in Materials} \cup {CutKey(m) : m \in Materials} :
    (k \in queue) ~> (k \in DOMAIN jobs /\ jobs[k].status # "CREATED")
=============================================================================
