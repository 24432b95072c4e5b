--------------------------------- MODULE Media --------------------------------
(***************************************************************************)
(* services/uploads.py, media/policy.py, media/images.py and media/probe.py*)
(* over storage/s3.py, and jobs/ingestion.py: the rows of media_assets and *)
(* the objects their keys name.                                            *)
(*                                                                         *)
(* A key is issued with the row, and whoever holds the signed URL may PUT  *)
(* until it expires. Completing an upload looks at the object in three     *)
(* calls: HEAD, a read of the first bytes, a read or probe of the content. *)
(* A rejection is written by a second transaction inside the request.      *)
(***************************************************************************)
EXTENDS Integers, FiniteSets

CONSTANTS Uploads,      \* assets a browser uploads
          Generated,    \* assets a worker ingests
          Sessions,     \* API requests under way
          MaxRequests   \* bound: completions asked for

VARIABLES
    rows,      \* media_assets: status, and what was recorded of the object
    objects,   \* storage: what each key holds
    tx,        \* the open completion of each session
    requests,  \* how many completions there were
    removed,   \* history: keys whose object a rejection deleted
    replaced,  \* history: assets whose object was put during a completion
               \* or after a decision
    doubled    \* history: assets of which two completions overlapped

vars == <<rows, objects, tx, requests, removed, replaced, doubled>>
-----------------------------------------------------------------------------
Assets == Uploads \cup Generated

\* UploadStatus; "none" before the row is there.
UploadStatuses == {"PENDING", "READY", "FAILED"}

\* An object that is what was declared, one over the limit or empty, one of
\* another format, and one that starts well and does not decode.
Contents == {"good", "oversized", "foreign", "broken"}

\* _check_size
SizeHolds(content) == content # "oversized"

\* verify_content_signature
SignatureHolds(content) == content # "foreign"

\* probe_image_bytes, probe_media
Decodes(content) == content # "broken"

\* size is what the HEAD saw, body what the decoder saw.
NoRow == [status |-> "none", size |-> "none", body |-> "none"]
Idle == [at |-> "none"]

Init ==
    /\ rows = [a \in Assets |-> NoRow]
    /\ objects = [a \in Assets |-> "none"]
    /\ tx = [s \in Sessions |-> Idle]
    /\ requests = 0
    /\ removed = {} /\ replaced = {} /\ doubled = {}

Status(a) == rows[a].status

\* The completions of a that are under way.
Completing(a) == {s \in Sessions : tx[s].at # "none" /\ tx[s].asset = a}

-----------------------------------------------------------------------------
\* presign and create_pending
Presign(a) ==
    /\ Status(a) = "none"
    /\ rows' = [rows EXCEPT ![a].status = "PENDING"]
    /\ UNCHANGED <<objects, tx, requests, removed, replaced, doubled>>

\* A PUT with the signed URL: the transfer, one that was given up and lands
\* after all, or a second one. That the URL expires only means that none comes.
Put(a, content) ==
    /\ Status(a) # "none" /\ objects[a] # content
    /\ objects' = [objects EXCEPT ![a] = content]
    /\ replaced' = IF Completing(a) # {} \/ Status(a) # "PENDING"
                   THEN replaced \cup {a} ELSE replaced
    /\ UNCHANGED <<rows, tx, requests, removed, doubled>>

-----------------------------------------------------------------------------
(* complete. A row that is READY is answered as it is, one that FAILED is  *)
(* refused, and nothing changes.                                           *)

\* Mutant: a row that FAILED is checked again.
CompleteAgain(s, a) ==
    /\ tx[s] = Idle /\ requests < MaxRequests /\ Status(a) \in {"PENDING", "FAILED"}
    /\ requests' = requests + 1
    /\ tx' = [tx EXCEPT ![s] = [at |-> "read", asset |-> a, size |-> "none", body |-> "none"]]
    /\ doubled' = IF Completing(a) # {} THEN doubled \cup {a} ELSE doubled
    /\ UNCHANGED <<rows, objects, removed, replaced>>

Complete(s, a) ==
    /\ tx[s] = Idle /\ requests < MaxRequests /\ Status(a) = "PENDING"
    /\ requests' = requests + 1
    /\ tx' = [tx EXCEPT ![s] = [at |-> "read", asset |-> a, size |-> "none", body |-> "none"]]
    /\ doubled' = IF Completing(a) # {} THEN doubled \cup {a} ELSE doubled
    /\ UNCHANGED <<rows, objects, removed, replaced>>

Check(s, t) == tx' = [tx EXCEPT ![s] = t] /\ UNCHANGED <<rows, objects, requests, removed, replaced, doubled>>

Reject(s) == Check(s, [tx[s] EXCEPT !.at = "rejected"])

\* Mutant: the size declared at presign is believed.
HeadUnsized(s) ==
    LET content == objects[tx[s].asset]
    IN  /\ tx[s].at = "read"
        /\ IF content # "none"
             THEN Check(s, [tx[s] EXCEPT !.at = "sized", !.size = content])
             ELSE Reject(s)

\* _head and _check_size: a key without an object is a rejection too.
Head(s) ==
    LET content == objects[tx[s].asset]
    IN  /\ tx[s].at = "read"
        /\ IF content # "none" /\ SizeHolds(content)
             THEN Check(s, [tx[s] EXCEPT !.at = "sized", !.size = content])
             ELSE Reject(s)

\* _check_signature; an object that is gone by now is a storage error: Fail.
ReadPrefix(s) ==
    LET content == objects[tx[s].asset]
    IN  /\ tx[s].at = "sized" /\ content # "none"
        /\ IF SignatureHolds(content) THEN Check(s, [tx[s] EXCEPT !.at = "signed"]) ELSE Reject(s)

\* _populate_image
Populate(s) ==
    LET content == objects[tx[s].asset]
    IN  /\ tx[s].at = "signed" /\ content # "none"
        /\ IF Decodes(content)
             THEN Check(s, [tx[s] EXCEPT !.at = "verified", !.body = content])
             ELSE Reject(s)

\* _populate_video rejects the file when the probe fails for whatever reason:
\* a timeout of ffprobe, an object that is gone.
ProbeFails(s) == tx[s].at = "signed" /\ Reject(s)

\* The flush and the commit.
CommitReady(s) ==
    LET t == tx[s]
    IN  /\ t.at = "verified"
        /\ rows' = [rows EXCEPT ![t.asset] = [status |-> "READY", size |-> t.size, body |-> t.body]]
        /\ tx' = [tx EXCEPT ![s] = Idle]
        /\ UNCHANGED <<objects, requests, removed, replaced, doubled>>

\* Mutant: the status is written through the session of the request, which
\* the error that is raised rolls back.
MarkFailedInRequest(s) ==
    /\ tx[s].at = "rejected"
    /\ tx' = [tx EXCEPT ![s].at = "marked"]
    /\ UNCHANGED <<rows, objects, requests, removed, replaced, doubled>>

\* _reject: the status in a transaction of its own, whatever it is by now,
MarkFailed(s) ==
    /\ tx[s].at = "rejected"
    /\ rows' = [rows EXCEPT ![tx[s].asset].status = "FAILED"]
    /\ tx' = [tx EXCEPT ![s].at = "marked"]
    /\ UNCHANGED <<objects, requests, removed, replaced, doubled>>

\* then the object.
DeleteObject(s) ==
    LET t == tx[s]
    IN  /\ t.at = "marked"
        /\ objects' = [objects EXCEPT ![t.asset] = "none"]
        /\ removed' = removed \cup {t.asset}
        /\ tx' = [tx EXCEPT ![s] = Idle]
        /\ UNCHANGED <<rows, requests, replaced, doubled>>

\* Storage, the database or the process fails: what was not committed is not.
Fail(s) ==
    /\ tx[s].at # "none"
    /\ tx' = [tx EXCEPT ![s] = Idle]
    /\ UNCHANGED <<rows, objects, requests, removed, replaced, doubled>>

-----------------------------------------------------------------------------
(* ingest_provider_media: the worker downloads, checks the copy it has     *)
(* (_download, verify_content_signature, probe_media), stores it under a   *)
(* key of its own, and adds the row in the transaction of its caller.      *)

\* A copy that fails a check is not stored; the limits on uploads do not apply.
IngestUpload(g, content) ==
    /\ Status(g) = "none" /\ objects[g] = "none"
    /\ SignatureHolds(content) /\ Decodes(content)
    /\ objects' = [objects EXCEPT ![g] = content]
    /\ UNCHANGED <<rows, tx, requests, removed, replaced, doubled>>

\* If the caller rolls back instead, the object stays without a row.
IngestCommit(g) ==
    /\ Status(g) = "none" /\ objects[g] # "none"
    /\ rows' = [rows EXCEPT ![g] = [status |-> "READY", size |-> objects[g], body |-> objects[g]]]
    /\ UNCHANGED <<objects, tx, requests, removed, replaced, doubled>>

Next ==
    \/ \E a \in Uploads : Presign(a)
    \/ \E a \in Uploads, content \in Contents : Put(a, content)
    \/ \E s \in Sessions, a \in Uploads : Complete(s, a)
    \/ \E s \in Sessions :
        \/ Head(s) \/ ReadPrefix(s) \/ Populate(s) \/ ProbeFails(s)
        \/ CommitReady(s) \/ MarkFailed(s) \/ DeleteObject(s) \/ Fail(s)
    \/ \E g \in Generated, content \in Contents : IngestUpload(g, content)
    \/ \E g \in Generated : IngestCommit(g)

Spec == Init /\ [][Next]_vars

-----------------------------------------------------------------------------
\* Rows, objects and transactions have their shapes.
TypeOK ==
    /\ \A a \in Assets : Status(a) \in UploadStatuses \cup {"none"} /\ objects[a] \in Contents \cup {"none"}
    /\ \A s \in Sessions : tx[s].at \in {"none", "read", "sized", "signed", "verified", "rejected", "marked"}
    /\ requests \in 0 .. MaxRequests

\* A READY asset has its object, of which every check held and what is on
\* record was measured; only a PUT during or after the completion, or a
\* second completion at the same time, may have changed that.
ReadyIsVerified ==
    \A a \in Assets \ (replaced \cup doubled) :
        Status(a) = "READY" =>
            /\ objects[a] = rows[a].size /\ objects[a] = rows[a].body
            /\ SignatureHolds(objects[a]) /\ Decodes(objects[a])
            /\ a \in Uploads => SizeHolds(objects[a])

\* uploads.py, _reject: a PENDING row never points at an object that a
\* rejection deleted, whatever fails in between.
DeletionIsRecorded == \A a \in removed : Status(a) # "PENDING"

\* A row that was decided stays as decided, unless two completions of it
\* overlapped: no retry makes a rejected upload READY, or the reverse, whatever
\* is PUT in the meantime.
DecisionStands ==
    [][\A a \in Assets : Status(a) \in {"READY", "FAILED"} /\ Status(a)' # Status(a) => a \in doubled]_vars
=============================================================================
