------------------------------ MODULE MediaProofs ------------------------------
(***************************************************************************)
(* Proofs about media in storage: uploads and their completions (Media),   *)
(* the renders, timelines and jobs made of them (PostProduction), and the  *)
(* clips of a timeline (Cut).                                              *)
(*                                                                         *)
(* A completion looks at the object in three calls and writes the row in a *)
(* fourth. MediaInv follows what it saw (Seen): while nobody puts an object*)
(* again and no second completion runs (Alone), each check still holds when*)
(* the next one is made. That a decision stands follows from Alone and the *)
(* guard of Complete, whatever is PUT in between.                          *)
(*                                                                         *)
(* A render reads its version before its row is inserted, and an edit the  *)
(* timeline before it writes one. PostInv says what is left of that: the   *)
(* row that was flushed is the next one and alone (Versions); until mixed  *)
(* says otherwise an edit is alone with the timeline (EditsAlone), so what *)
(* a request carries is the newest one (Carried). StepKeeps and AppendKeeps*)
(* are the two ways on: a request takes a step, or its rows are committed. *)
(*                                                                         *)
(* A timeline is laid out by a fold over the clips before each one.        *)
(* SumIsElapsed says what that fold computes, by induction over the        *)
(* numbers (SetInduction of StoryProofs). CutInv then says that there is   *)
(* one clip for each take (Whole), that the stored ones follow each other  *)
(* (InARow), and that all last as long as was asked (AsLongAs).            *)
(*                                                                         *)
(* The types of the three follow from these, and from who counts requests  *)
(* and what a request that waits to enqueue has committed (PostKeyed).     *)
(***************************************************************************)
EXTENDS StoryProofs, Sequences, FiniteSetTheorems, TLAPS

Measured == M!Contents \cup {"none"}

Completions ==
    [at : {"read", "sized", "signed", "verified", "rejected", "marked"},
     asset : Uploads, size : Measured, body : Measured]

MediaTypes ==
    /\ rows \in [M!Assets -> [status : M!UploadStatuses \cup {"none"}, size : Measured, body : Measured]]
    /\ objects \in [M!Assets -> Measured]
    /\ DOMAIN mediaTx = Sessions
    /\ \A s \in Sessions : mediaTx[s].at # "none" => mediaTx[s] \in Completions

Decided(a) == M!Status(a) \in {"READY", "FAILED"}

\* An asset is completed only after it was presigned, and an object is deleted
\* only after its row was decided.
Recorded ==
    /\ \A s \in Sessions : mediaTx[s].at # "none" => M!Status(mediaTx[s].asset) # "none"
    /\ \A s \in Sessions : mediaTx[s].at = "marked" => Decided(mediaTx[s].asset)
    /\ \A a \in removed : a \in M!Assets /\ Decided(a)

\* Of an asset that was not completed twice at once there is one completion,
\* and all that is left of it once the row is decided is to delete the object:
\* whatever is PUT, a decided row is not completed again.
Alone ==
    /\ \A s, o \in Sessions :
          s # o /\ mediaTx[s].at # "none" /\ mediaTx[o].at # "none" /\ mediaTx[s].asset = mediaTx[o].asset
             => mediaTx[s].asset \in doubled
    /\ \A s \in Sessions : mediaTx[s].at # "none" /\ Decided(mediaTx[s].asset) =>
          mediaTx[s].asset \in doubled \/ (mediaTx[s].at = "marked" /\ M!Status(mediaTx[s].asset) = "FAILED")

\* Others came between the checks of an asset, or after them.
Disturbed == replaced \cup doubled

\* What a completion has seen of an undisturbed object is still so.
Seen ==
    /\ \A s \in Sessions : mediaTx[s].at \in {"sized", "signed", "verified"} /\ mediaTx[s].asset \notin Disturbed =>
          LET content == objects[mediaTx[s].asset]
          IN  /\ mediaTx[s].size = content /\ M!SizeHolds(content)
              /\ mediaTx[s].at # "sized" => M!SignatureHolds(content)
              /\ mediaTx[s].at = "verified" => M!Decodes(content) /\ mediaTx[s].body = content
    /\ \A g \in Generated : objects[g] # "none" => M!SignatureHolds(objects[g]) /\ M!Decodes(objects[g])

MediaInv == MediaTypes /\ Recorded /\ Alone /\ Seen /\ M!ReadyIsVerified

-----------------------------------------------------------------------------
LEMMA MediaInit == M!Init => MediaInv
BY DEF Disturbed, M!Init, M!NoRow, M!Idle, M!Status, M!Assets, M!ReadyIsVerified,
       MediaInv, MediaTypes, Measured, Recorded, Alone, Seen

\* A completion goes on: of an object nobody disturbed, what it has seen by
\* then is so.
LEMMA CheckKeeps ==
    ASSUME MediaInv, NEW s \in Sessions, mediaTx[s].at \notin {"none", "marked"},
           NEW t \in Completions, t.asset = mediaTx[s].asset, t.at # "marked", M!Check(s, t),
           t.asset \notin Disturbed /\ t.at \in {"sized", "signed", "verified"} =>
               LET content == objects[t.asset]
               IN  /\ t.size = content /\ M!SizeHolds(content)
                   /\ t.at # "sized" => M!SignatureHolds(content)
                   /\ t.at = "verified" => M!Decodes(content) /\ t.body = content
    PROVE  MediaInv'
<1>1. /\ DOMAIN mediaTx' = Sessions /\ mediaTx'[s] = t
      /\ \A o \in Sessions \ {s} : mediaTx'[o] = mediaTx[o]
      /\ UNCHANGED <<rows, objects, removed, replaced, doubled>> /\ Disturbed' = Disturbed
  BY DEF Disturbed, M!Check, MediaInv, MediaTypes
<1>2. t.at # "none" /\ t.at \in {"read", "sized", "signed", "verified", "rejected"}
  BY DEF Completions
<1>3. \A a : M!Status(a)' = M!Status(a) /\ (Decided(a)' <=> Decided(a))
  BY <1>1 DEF M!Status, Decided
<1>4. MediaTypes'
  BY <1>1 DEF MediaInv, MediaTypes
<1>5. Recorded'
  BY <1>1, <1>2, <1>3 DEF MediaInv, Recorded
<1>6. Alone'
  BY <1>1, <1>2, <1>3 DEF MediaInv, Alone
<1>7. Seen'
  BY <1>1 DEF MediaInv, Seen
<1>8. M!ReadyIsVerified'
  BY <1>1 DEF Disturbed, MediaInv, M!ReadyIsVerified, M!Status
<1>9. QED
  BY <1>4, <1>5, <1>6, <1>7, <1>8 DEF MediaInv

\* A check that fails changes nothing but what comes next.
LEMMA RejectKeeps ==
    ASSUME MediaInv, NEW s \in Sessions, mediaTx[s].at \notin {"none", "marked"}, M!Reject(s)
    PROVE  MediaInv'
<1> DEFINE t == [mediaTx[s] EXCEPT !.at = "rejected"]
<1>1. mediaTx[s] \in Completions
  BY DEF MediaInv, MediaTypes
<1>2. t \in Completions /\ t.asset = mediaTx[s].asset /\ t.at = "rejected"
  BY <1>1 DEF Completions
<1>3. M!Check(s, t)
  BY DEF M!Reject
<1> HIDE DEF t
<1>4. QED
  BY <1>2, <1>3, CheckKeeps

-----------------------------------------------------------------------------
\* The checks of a completion.
LEMMA ChecksKeep ==
    ASSUME MediaInv, NEW s \in Sessions, M!Head(s) \/ M!ReadPrefix(s) \/ M!Populate(s) \/ M!ProbeFails(s)
    PROVE  MediaInv'
<1> DEFINE content == objects[mediaTx[s].asset]
<1>1. /\ mediaTx[s].at \in {"read", "sized", "signed"} /\ mediaTx[s] \in Completions
      /\ content \in Measured /\ mediaTx[s].asset \in M!Assets
  BY DEF M!Head, M!ReadPrefix, M!Populate, M!ProbeFails, MediaInv, MediaTypes, Completions, M!Assets
<1>2. CASE M!Reject(s)
  BY <1>1, <1>2, RejectKeeps
<1>3. CASE /\ mediaTx[s].at = "read" /\ M!SizeHolds(content)
           /\ M!Check(s, [mediaTx[s] EXCEPT !.at = "sized", !.size = content])
  <2> DEFINE t == [mediaTx[s] EXCEPT !.at = "sized", !.size = content]
  <2>1. t \in Completions /\ t.asset = mediaTx[s].asset /\ t.at = "sized" /\ t.size = content
    BY <1>1 DEF Completions
  <2>2. M!Check(s, t) /\ M!SizeHolds(objects[t.asset])
    BY <1>3, <2>1
  <2>3. mediaTx[s].at \notin {"none", "marked"} /\ t.size = objects[t.asset]
    BY <1>1, <2>1
  <2> HIDE DEF t
  <2>4. QED
    BY <2>1, <2>2, <2>3, CheckKeeps
<1>4. CASE /\ mediaTx[s].at = "sized" /\ M!SignatureHolds(content)
           /\ M!Check(s, [mediaTx[s] EXCEPT !.at = "signed"])
  <2> DEFINE t == [mediaTx[s] EXCEPT !.at = "signed"]
  <2>1. t \in Completions /\ t.asset = mediaTx[s].asset /\ t.at = "signed" /\ t.size = mediaTx[s].size
    BY <1>1 DEF Completions
  <2>2. t.asset \notin Disturbed => t.size = objects[t.asset] /\ M!SizeHolds(objects[t.asset])
    BY <1>4, <2>1 DEF MediaInv, Seen
  <2>3. M!Check(s, t) /\ M!SignatureHolds(objects[t.asset]) /\ mediaTx[s].at \notin {"none", "marked"}
    BY <1>4, <2>1
  <2> HIDE DEF t
  <2>4. QED
    BY <2>1, <2>2, <2>3, CheckKeeps
<1>5. CASE /\ mediaTx[s].at = "signed" /\ M!Decodes(content)
           /\ M!Check(s, [mediaTx[s] EXCEPT !.at = "verified", !.body = content])
  <2> DEFINE t == [mediaTx[s] EXCEPT !.at = "verified", !.body = content]
  <2>1. /\ t \in Completions /\ t.asset = mediaTx[s].asset /\ t.at = "verified"
        /\ t.size = mediaTx[s].size /\ t.body = content
    BY <1>1 DEF Completions
  <2>2. t.asset \notin Disturbed =>
            t.size = objects[t.asset] /\ M!SizeHolds(objects[t.asset]) /\ M!SignatureHolds(objects[t.asset])
    BY <1>5, <2>1 DEF MediaInv, Seen
  <2>3. /\ M!Check(s, t) /\ M!Decodes(objects[t.asset]) /\ t.body = objects[t.asset]
        /\ mediaTx[s].at \notin {"none", "marked"}
    BY <1>5, <2>1
  <2> HIDE DEF t
  <2>4. QED
    BY <2>1, <2>2, <2>3, CheckKeeps
<1>6. QED
  BY <1>2, <1>3, <1>4, <1>5 DEF M!Head, M!ReadPrefix, M!Populate, M!ProbeFails

\* A completion ends without writing a row or an object.
LEMMA FailKeeps ==
    ASSUME MediaInv, NEW s \in Sessions, M!Fail(s)
    PROVE  MediaInv'
<1>1. /\ DOMAIN mediaTx' = Sessions /\ mediaTx'[s].at = "none"
      /\ \A o \in Sessions \ {s} : mediaTx'[o] = mediaTx[o]
      /\ UNCHANGED <<rows, objects, removed, replaced, doubled>> /\ Disturbed' = Disturbed
  BY DEF Disturbed, M!Fail, M!Idle, MediaInv, MediaTypes
<1>2. \A a : M!Status(a)' = M!Status(a) /\ (Decided(a)' <=> Decided(a))
  BY <1>1 DEF M!Status, Decided
<1>3. MediaTypes' /\ Recorded' /\ Alone' /\ Seen'
  BY <1>1, <1>2 DEF MediaInv, MediaTypes, Recorded, Alone, Seen
<1>4. M!ReadyIsVerified'
  BY <1>1 DEF Disturbed, MediaInv, M!ReadyIsVerified, M!Status
<1>5. QED
  BY <1>3, <1>4 DEF MediaInv

\* A completion begins.
LEMMA CompleteKeeps ==
    ASSUME MediaInv, NEW s \in Sessions, NEW a \in Uploads, M!Complete(s, a)
    PROVE  MediaInv'
<1> DEFINE t == [at |-> "read", asset |-> a, size |-> "none", body |-> "none"]
<1>1. t \in Completions /\ t.at = "read" /\ t.asset = a
  BY DEF Completions, Measured
<1>2. /\ DOMAIN mediaTx' = Sessions /\ mediaTx'[s] = t
      /\ \A o \in Sessions \ {s} : mediaTx'[o] = mediaTx[o]
      /\ mediaTx[s].at = "none" /\ M!Status(a) = "PENDING"
      /\ UNCHANGED <<rows, objects, removed>> /\ Disturbed \subseteq Disturbed' /\ doubled \subseteq doubled'
      /\ \A o \in Sessions : mediaTx[o].at # "none" /\ mediaTx[o].asset = a => a \in doubled'
  BY DEF Disturbed, M!Complete, M!Idle, M!Completing, MediaInv, MediaTypes
<1> HIDE DEF t
<1>3. \A b : M!Status(b)' = M!Status(b) /\ (Decided(b)' <=> Decided(b))
  BY <1>2 DEF M!Status, Decided
<1>4. MediaTypes'
  BY <1>1, <1>2 DEF MediaInv, MediaTypes
<1>5. Recorded'
  BY <1>1, <1>2, <1>3 DEF MediaInv, Recorded
<1>6. Alone'
  BY <1>1, <1>2, <1>3 DEF MediaInv, Alone, Decided
<1>7. Seen'
  BY <1>1, <1>2 DEF MediaInv, Seen
<1>8. M!ReadyIsVerified'
  BY <1>2 DEF Disturbed, MediaInv, M!ReadyIsVerified, M!Status
<1>9. QED
  BY <1>4, <1>5, <1>6, <1>7, <1>8 DEF MediaInv

\* The row is READY: it says what every check saw.
LEMMA CommitReadyKeeps ==
    ASSUME MediaInv, NEW s \in Sessions, M!CommitReady(s)
    PROVE  MediaInv'
<1> PICK a : a = mediaTx[s].asset
  OBVIOUS
<1> DEFINE row == [status |-> "READY", size |-> mediaTx[s].size, body |-> mediaTx[s].body]
<1>1. mediaTx[s].at = "verified" /\ mediaTx[s] \in Completions /\ a \in Uploads /\ a \in M!Assets
  BY DEF M!CommitReady, MediaInv, MediaTypes, Completions, M!Assets
<1>2. /\ DOMAIN mediaTx' = Sessions /\ mediaTx'[s].at = "none"
      /\ \A o \in Sessions \ {s} : mediaTx'[o] = mediaTx[o]
      /\ rows' = [rows EXCEPT ![a] = row]
      /\ UNCHANGED <<objects, removed, replaced, doubled>> /\ Disturbed' = Disturbed
  BY DEF Disturbed, M!CommitReady, M!Idle, MediaInv, MediaTypes
<1>3. /\ rows'[a] = row /\ \A b \in M!Assets \ {a} : rows'[b] = rows[b]
      /\ row.status = "READY" /\ row.size = mediaTx[s].size /\ row.body = mediaTx[s].body
  BY <1>1, <1>2 DEF MediaInv, MediaTypes
<1>4. MediaTypes'
  BY <1>1, <1>2 DEF MediaInv, MediaTypes, Completions, M!UploadStatuses
<1>5. /\ M!Status(a)' = "READY" /\ Decided(a)'
      /\ \A b \in M!Assets \ {a} : M!Status(b)' = M!Status(b) /\ (Decided(b)' <=> Decided(b))
  BY <1>3 DEF M!Status, Decided
<1>6. \A o \in Sessions : mediaTx[o].at # "none" => mediaTx[o].asset \in M!Assets
  BY DEF MediaInv, MediaTypes, Completions, M!Assets
<1>7. Recorded'
  BY <1>2, <1>5, <1>6 DEF MediaInv, Recorded
<1>8. Alone'
  BY <1>1, <1>2, <1>5, <1>6 DEF MediaInv, Alone
<1>9. Seen'
  BY <1>2 DEF MediaInv, Seen
<1>10. M!ReadyIsVerified'
  <2>1. ASSUME NEW b \in M!Assets \ Disturbed, b # a, M!Status(b)' = "READY"
        PROVE  /\ objects[b] = rows'[b].size /\ objects[b] = rows'[b].body
               /\ M!SignatureHolds(objects[b]) /\ M!Decodes(objects[b])
               /\ b \in Uploads => M!SizeHolds(objects[b])
    BY <1>3, <1>5, <2>1 DEF Disturbed, MediaInv, M!ReadyIsVerified
  <2>2. a \notin Disturbed =>
               /\ objects[a] = rows'[a].size /\ objects[a] = rows'[a].body
               /\ M!SignatureHolds(objects[a]) /\ M!Decodes(objects[a]) /\ M!SizeHolds(objects[a])
    BY <1>1, <1>3 DEF MediaInv, Seen
  <2>3. QED
    BY <1>2, <2>1, <2>2 DEF Disturbed, M!ReadyIsVerified, M!SizeHolds, M!SignatureHolds, M!Decodes
<1>11. QED
  BY <1>4, <1>7, <1>8, <1>9, <1>10 DEF MediaInv

\* The rejection is written: nobody else decides the row.
LEMMA MarkFailedKeeps ==
    ASSUME MediaInv, NEW s \in Sessions, M!MarkFailed(s)
    PROVE  MediaInv'
<1> PICK a : a = mediaTx[s].asset
  OBVIOUS
<1>1. mediaTx[s].at = "rejected" /\ mediaTx[s] \in Completions /\ a \in Uploads /\ a \in M!Assets
  BY DEF M!MarkFailed, MediaInv, MediaTypes, Completions, M!Assets
<1>2. /\ DOMAIN mediaTx' = Sessions /\ mediaTx'[s] = [mediaTx[s] EXCEPT !.at = "marked"]
      /\ \A o \in Sessions \ {s} : mediaTx'[o] = mediaTx[o]
      /\ rows' = [rows EXCEPT ![a].status = "FAILED"]
      /\ UNCHANGED <<objects, removed, replaced, doubled>> /\ Disturbed' = Disturbed
  BY DEF Disturbed, M!MarkFailed, MediaInv, MediaTypes
<1>3. mediaTx'[s] \in Completions /\ mediaTx'[s].at = "marked" /\ mediaTx'[s].asset = a
  BY <1>1, <1>2 DEF Completions
<1>4. /\ rows'[a].status = "FAILED" /\ \A b \in M!Assets \ {a} : rows'[b] = rows[b]
  BY <1>1, <1>2 DEF MediaInv, MediaTypes
<1>5. MediaTypes'
  BY <1>1, <1>2, <1>3 DEF MediaInv, MediaTypes, M!UploadStatuses
<1>6. /\ M!Status(a)' = "FAILED" /\ Decided(a)'
      /\ \A b \in M!Assets \ {a} : M!Status(b)' = M!Status(b) /\ (Decided(b)' <=> Decided(b))
  BY <1>4 DEF M!Status, Decided
<1>7. \A o \in Sessions : mediaTx[o].at # "none" => mediaTx[o].asset \in M!Assets
  BY DEF MediaInv, MediaTypes, Completions, M!Assets
<1>8. Recorded'
  BY <1>2, <1>3, <1>6, <1>7 DEF MediaInv, Recorded
<1>9. Alone'
  <2>1. \A o \in Sessions : mediaTx'[o].at # "none" => mediaTx[o].at # "none" /\ mediaTx'[o].asset = mediaTx[o].asset
    BY <1>1, <1>2, <1>3
  <2>2. ASSUME NEW o \in Sessions, mediaTx'[o].at # "none", Decided(mediaTx[o].asset)', mediaTx'[o].asset \notin doubled
        PROVE  mediaTx'[o].at = "marked" /\ M!Status(mediaTx[o].asset)' = "FAILED"
    <3>1. CASE o = s
      BY <1>3, <1>4, <3>1 DEF M!Status
    <3>2. CASE o # s
      <4>1. mediaTx'[o] = mediaTx[o] /\ mediaTx[o].asset \in M!Assets
        BY <1>2, <1>7, <2>2, <3>2
      <4>2. mediaTx[o].asset # a
        BY <1>1, <1>2, <2>2, <3>2, <4>1 DEF MediaInv, Alone
      <4>3. QED
        BY <1>4, <2>2, <4>1, <4>2 DEF MediaInv, Alone, Decided, M!Status
    <3>3. QED
      BY <3>1, <3>2
  <2>3. QED
    BY <1>2, <2>1, <2>2 DEF MediaInv, Alone, Decided, M!Status
<1>10. Seen'
  <2>1. \A o \in Sessions : mediaTx'[o].at \in {"sized", "signed", "verified"} => mediaTx'[o] = mediaTx[o]
    BY <1>2, <1>3
  <2>2. QED
    BY <1>2, <2>1 DEF MediaInv, Seen
<1>11. M!ReadyIsVerified'
  BY <1>2, <1>4, <1>6 DEF Disturbed, MediaInv, M!ReadyIsVerified, M!Status, M!SizeHolds, M!SignatureHolds, M!Decodes
<1>12. QED
  BY <1>5, <1>8, <1>9, <1>10, <1>11 DEF MediaInv

\* The object goes: its row is decided, and READY only if it was disturbed.
LEMMA DeleteObjectKeeps ==
    ASSUME MediaInv, NEW s \in Sessions, M!DeleteObject(s)
    PROVE  MediaInv'
<1> DEFINE a == mediaTx[s].asset
<1>1. mediaTx[s].at = "marked" /\ mediaTx[s] \in Completions /\ a \in Uploads /\ a \in M!Assets
  BY DEF M!DeleteObject, MediaInv, MediaTypes, Completions, M!Assets
<1>2. /\ DOMAIN mediaTx' = Sessions /\ mediaTx'[s].at = "none"
      /\ \A o \in Sessions \ {s} : mediaTx'[o] = mediaTx[o]
      /\ objects' = [objects EXCEPT ![a] = "none"] /\ removed' = removed \cup {a}
      /\ UNCHANGED <<rows, replaced, doubled>> /\ Disturbed' = Disturbed
  BY DEF Disturbed, M!DeleteObject, M!Idle, MediaInv, MediaTypes
<1>3. objects'[a] = "none" /\ \A b \in M!Assets \ {a} : objects'[b] = objects[b]
  BY <1>1, <1>2 DEF MediaInv, MediaTypes
<1>4. MediaTypes'
  BY <1>1, <1>2 DEF MediaInv, MediaTypes, Measured
<1>5. \A b : M!Status(b)' = M!Status(b) /\ (Decided(b)' <=> Decided(b))
  BY <1>2 DEF M!Status, Decided
<1>6. \A o \in Sessions : mediaTx[o].at # "none" => mediaTx[o].asset \in M!Assets
  BY DEF MediaInv, MediaTypes, Completions, M!Assets
<1>7. Recorded'
  BY <1>1, <1>2, <1>5 DEF MediaInv, Recorded
<1>8. Alone'
  BY <1>2, <1>5 DEF MediaInv, Alone
<1>9. Seen'
  <2>1. ASSUME NEW o \in Sessions \ {s}, mediaTx[o].at # "none", mediaTx[o].asset \notin Disturbed
        PROVE  objects'[mediaTx[o].asset] = objects[mediaTx[o].asset]
    BY <1>1, <1>3, <1>6, <2>1 DEF MediaInv, Alone, Disturbed
  <2>2. \A g \in Generated : g \in M!Assets
    BY DEF M!Assets
  <2>3. QED
    BY <1>2, <1>3, <2>1, <2>2 DEF MediaInv, Seen, M!SizeHolds, M!SignatureHolds, M!Decodes
<1>10. M!ReadyIsVerified'
  <2>1. a \in doubled \/ M!Status(a) = "FAILED"
    BY <1>1 DEF MediaInv, Alone, Recorded
  <2>2. QED
    BY <1>2, <1>3, <1>5, <2>1 DEF Disturbed, MediaInv, M!ReadyIsVerified, M!Status, M!SizeHolds, M!SignatureHolds, M!Decodes
<1>11. QED
  BY <1>4, <1>7, <1>8, <1>9, <1>10 DEF MediaInv

-----------------------------------------------------------------------------
\* Steps that are not of a completion.
LEMMA OutsideKeeps ==
    ASSUME MediaInv,
           \/ \E a \in Uploads : M!Presign(a)
           \/ \E a \in Uploads, content \in M!Contents : M!Put(a, content)
           \/ \E g \in Generated, content \in M!Contents : M!IngestUpload(g, content)
           \/ \E g \in Generated : M!IngestCommit(g)
    PROVE  MediaInv'
<1>1. Uploads \subseteq M!Assets /\ Generated \subseteq M!Assets
  BY DEF M!Assets
<1>2. \A o \in Sessions : mediaTx[o].at # "none" => mediaTx[o].asset \in Uploads
  BY DEF MediaInv, MediaTypes, Completions
<1>3. ASSUME NEW a \in Uploads, M!Presign(a)
      PROVE  MediaInv'
  <2>1. /\ M!Status(a) = "none" /\ rows' = [rows EXCEPT ![a].status = "PENDING"]
        /\ UNCHANGED <<objects, mediaTx, removed, replaced, doubled>> /\ Disturbed' = Disturbed
    BY <1>3 DEF Disturbed, M!Presign
  <2>2. rows'[a].status = "PENDING" /\ \A b \in M!Assets \ {a} : rows'[b] = rows[b]
    BY <1>1, <2>1 DEF MediaInv, MediaTypes
  <2>3. MediaTypes'
    BY <1>1, <2>1 DEF MediaInv, MediaTypes, M!UploadStatuses
  <2>4. /\ M!Status(a)' = "PENDING" /\ ~Decided(a) /\ ~Decided(a)'
        /\ \A b \in M!Assets \ {a} : M!Status(b)' = M!Status(b) /\ (Decided(b)' <=> Decided(b))
    BY <2>1, <2>2 DEF M!Status, Decided
  <2>5. Recorded' /\ Alone' /\ Seen'
    BY <1>1, <1>2, <2>1, <2>4 DEF MediaInv, Recorded, Alone, Seen
  <2>6. M!ReadyIsVerified'
    BY <2>1, <2>2 DEF Disturbed, MediaInv, M!ReadyIsVerified, M!Status, M!SizeHolds, M!SignatureHolds, M!Decodes
  <2>7. QED
    BY <2>3, <2>5, <2>6 DEF MediaInv
<1>4. ASSUME NEW a \in Uploads, NEW content \in M!Contents, M!Put(a, content)
      PROVE  MediaInv'
  <2>1. /\ objects' = [objects EXCEPT ![a] = content] /\ Disturbed \subseteq Disturbed' /\ doubled' = doubled
        /\ \A o \in Sessions : mediaTx[o].at # "none" /\ mediaTx[o].asset = a => a \in Disturbed'
        /\ M!Status(a) = "READY" => a \in Disturbed'
        /\ UNCHANGED <<rows, mediaTx, removed>>
    BY <1>4 DEF Disturbed, M!Put, M!Completing
  <2>2. objects'[a] = content /\ \A b \in M!Assets \ {a} : objects'[b] = objects[b]
    BY <1>1, <2>1 DEF MediaInv, MediaTypes
  <2>3. MediaTypes'
    BY <1>1, <2>1 DEF MediaInv, MediaTypes, Measured
  <2>4. \A b : M!Status(b)' = M!Status(b) /\ (Decided(b)' <=> Decided(b))
    BY <2>1 DEF M!Status, Decided
  <2>5. Recorded' /\ Alone'
    BY <2>1, <2>4 DEF MediaInv, Recorded, Alone
  <2>6. Seen'
    <3>1. ASSUME NEW o \in Sessions, mediaTx[o].at # "none", mediaTx[o].asset \notin Disturbed'
          PROVE  objects'[mediaTx[o].asset] = objects[mediaTx[o].asset] /\ mediaTx[o].asset \notin Disturbed
      BY <1>1, <1>2, <2>1, <2>2, <3>1
    <3>2. \A g \in Generated : objects'[g] = objects[g]
      BY <1>1, <2>2, MediaAssumption
    <3>3. QED
      BY <2>1, <3>1, <3>2 DEF MediaInv, Seen, M!SizeHolds, M!SignatureHolds, M!Decodes
  <2>7. M!ReadyIsVerified'
    BY <2>1, <2>2, <2>4 DEF Disturbed, MediaInv, M!ReadyIsVerified, M!Status, M!SizeHolds, M!SignatureHolds, M!Decodes
  <2>8. QED
    BY <2>3, <2>5, <2>6, <2>7 DEF MediaInv
<1>5. ASSUME NEW g \in Generated, NEW content \in M!Contents, M!IngestUpload(g, content)
      PROVE  MediaInv'
  <2>1. /\ M!Status(g) = "none" /\ M!SignatureHolds(content) /\ M!Decodes(content)
        /\ objects' = [objects EXCEPT ![g] = content]
        /\ UNCHANGED <<rows, mediaTx, removed, replaced, doubled>> /\ Disturbed' = Disturbed
    BY <1>5 DEF Disturbed, M!IngestUpload
  <2>2. objects'[g] = content /\ \A b \in M!Assets \ {g} : objects'[b] = objects[b]
    BY <1>1, <2>1 DEF MediaInv, MediaTypes
  <2>3. MediaTypes'
    BY <1>1, <2>1 DEF MediaInv, MediaTypes, Measured
  <2>4. \A b : M!Status(b)' = M!Status(b) /\ (Decided(b)' <=> Decided(b))
    BY <2>1 DEF M!Status, Decided
  <2>5. Recorded' /\ Alone'
    BY <2>1, <2>4 DEF MediaInv, Recorded, Alone
  <2>6. Seen'
    <3>1. \A o \in Sessions : mediaTx[o].at # "none" => objects'[mediaTx[o].asset] = objects[mediaTx[o].asset]
      BY <1>1, <1>2, <2>2, MediaAssumption
    <3>2. QED
      BY <1>1, <2>1, <2>2, <3>1 DEF MediaInv, Seen, M!SizeHolds, M!SignatureHolds, M!Decodes
  <2>7. M!ReadyIsVerified'
    BY <2>1, <2>2, <2>4 DEF Disturbed, MediaInv, M!ReadyIsVerified, M!Status, M!SizeHolds, M!SignatureHolds, M!Decodes
  <2>8. QED
    BY <2>3, <2>5, <2>6, <2>7 DEF MediaInv
<1>6. ASSUME NEW g \in Generated, M!IngestCommit(g)
      PROVE  MediaInv'
  <2> DEFINE row == [status |-> "READY", size |-> objects[g], body |-> objects[g]]
  <2>1. /\ M!Status(g) = "none" /\ objects[g] # "none" /\ rows' = [rows EXCEPT ![g] = row]
        /\ UNCHANGED <<objects, mediaTx, removed, replaced, doubled>> /\ Disturbed' = Disturbed
    BY <1>6 DEF Disturbed, M!IngestCommit
  <2>2. /\ rows'[g] = row /\ \A b \in M!Assets \ {g} : rows'[b] = rows[b]
        /\ row.status = "READY" /\ row.size = objects[g] /\ row.body = objects[g] /\ g \notin Uploads
    BY <1>1, <2>1, MediaAssumption DEF MediaInv, MediaTypes
  <2>3. MediaTypes'
    BY <1>1, <2>1 DEF MediaInv, MediaTypes, M!UploadStatuses
  <2>4. \A b \in M!Assets \ {g} : M!Status(b)' = M!Status(b) /\ (Decided(b)' <=> Decided(b))
    BY <2>2 DEF M!Status, Decided
  <2>5. g \notin removed /\ \A o \in Sessions : mediaTx[o].at # "none" => mediaTx[o].asset \in M!Assets \ {g}
    BY <1>1, <1>2, <2>1, <2>2 DEF MediaInv, Recorded, Decided
  <2>6. Recorded' /\ Alone' /\ Seen'
    BY <2>1, <2>4, <2>5 DEF MediaInv, Recorded, Alone, Seen
  <2>7. M!ReadyIsVerified'
    BY <2>1, <2>2, <2>4 DEF Disturbed, MediaInv, Seen, M!ReadyIsVerified, M!Status, M!SizeHolds, M!SignatureHolds, M!Decodes
  <2>8. QED
    BY <2>3, <2>6, <2>7 DEF MediaInv
<1>7. QED
  BY <1>3, <1>4, <1>5, <1>6

LEMMA MediaNext ==
    ASSUME MediaInv, [M!Next]_M!vars
    PROVE  MediaInv'
<1>1. CASE UNCHANGED M!vars
  BY <1>1 DEF Disturbed, M!vars, MediaInv, MediaTypes, Recorded, Alone, Seen, Decided, M!Status, M!ReadyIsVerified,
              M!SizeHolds, M!SignatureHolds, M!Decodes
<1>2. CASE M!Next
  BY <1>2, ChecksKeep, FailKeeps, CompleteKeeps, CommitReadyKeeps, MarkFailedKeeps, DeleteObjectKeeps, OutsideKeeps
     DEF M!Next
<1>3. QED
  BY <1>1, <1>2

\* A step that changes a decided row is the commit of a completion that another
\* one overlapped.
LEMMA DecisionKept ==
    ASSUME MediaInv, [M!Next]_M!vars, NEW a \in M!Assets, Decided(a), M!Status(a)' # M!Status(a)
    PROVE  a \in doubled
<1>1. rows' # rows
  BY DEF M!Status
<1>2. \/ \E b \in Uploads : M!Presign(b)
      \/ \E s \in Sessions : M!CommitReady(s) \/ M!MarkFailed(s)
      \/ \E g \in Generated : M!IngestCommit(g)
  <2>1. /\ \A b \in Uploads, content \in M!Contents : ~M!Put(b, content)
        /\ \A g \in Generated, content \in M!Contents : ~M!IngestUpload(g, content)
        /\ \A s \in Sessions, b \in Uploads : ~M!Complete(s, b)
    BY <1>1 DEF M!Put, M!IngestUpload, M!Complete
  <2>2. \A s \in Sessions : ~M!Head(s) /\ ~M!ReadPrefix(s) /\ ~M!Populate(s) /\ ~M!ProbeFails(s)
    BY <1>1 DEF M!Head, M!ReadPrefix, M!Populate, M!ProbeFails, M!Reject, M!Check
  <2>3. \A s \in Sessions : ~M!DeleteObject(s) /\ ~M!Fail(s)
    BY <1>1 DEF M!DeleteObject, M!Fail
  <2>4. M!Next
    BY <1>1 DEF M!vars
  <2>5. QED
    BY <2>1, <2>2, <2>3, <2>4 DEF M!Next
<1>3. CASE \E b \in Uploads : M!Presign(b)
  BY <1>3 DEF M!Presign, M!Status, Decided, MediaInv, MediaTypes
<1>4. CASE \E g \in Generated : M!IngestCommit(g)
  BY <1>4 DEF M!IngestCommit, M!Status, Decided, MediaInv, MediaTypes
<1>5. ASSUME NEW s \in Sessions, M!CommitReady(s) \/ M!MarkFailed(s)
      PROVE  a \in doubled
  <2>1. a = mediaTx[s].asset /\ mediaTx[s].at \in {"verified", "rejected"}
    BY <1>5 DEF M!CommitReady, M!MarkFailed, M!Status, MediaInv, MediaTypes
  <2>2. QED
    BY <2>1 DEF MediaInv, Alone
<1>6. QED
  BY <1>2, <1>3, <1>4, <1>5

-----------------------------------------------------------------------------
\* A step of the services is one of Media or leaves its rows alone.
LEMMA MediaSteps == [Next]_vars => [M!Next]_M!vars
BY DEF Next, vars, TruthMoves, GoodsMove, StoryMoves, PostMoves, CutMoves, MediaMove, StaffMoves,
       SignMoves, BrandMoves, RouterMoves, media, M!vars

\* Media always has its invariant.
LEMMA MediaAlways == Spec => []MediaInv
<1>1. Init => MediaInv
  BY MediaInit DEF Init
<1>2. MediaInv /\ [Next]_vars => MediaInv'
  BY MediaNext, MediaSteps
<1>3. QED
  BY <1>1, <1>2, PTL DEF Spec

\* uploads.py, complete: the object of a READY row is the one whose size,
\* signature and content were checked, in three calls that anybody may come
\* between; only a PUT or a second completion in between is to blame if not.
THEOREM ChecksAreOfOneObject == Spec => []ReadyIsVerified
<1>1. MediaInv => ReadyIsVerified
  BY DEF MediaInv, ReadyIsVerified
<1>2. QED
  BY <1>1, MediaAlways, PTL

\* uploads.py, _reject: the FAILED status is committed before the object is
\* deleted, so no failure leaves a PENDING row without its object.
THEOREM RejectionsAreRecorded == Spec => []DeletionIsRecorded
<1>1. MediaInv => DeletionIsRecorded
  BY DEF MediaInv, Recorded, Decided, DeletionIsRecorded, M!DeletionIsRecorded
<1>2. QED
  BY <1>1, MediaAlways, PTL

\* uploads.py, complete: no retry, no late answer and no new PUT turns a READY
\* upload into a FAILED one or the reverse, unless two completions of it
\* overlapped.
THEOREM DecisionsStand == Spec => DecisionStands
<1>1. MediaInv /\ [Next]_vars =>
        [\A a \in M!Assets : M!Status(a) \in {"READY", "FAILED"} /\ M!Status(a)' # M!Status(a) => a \in doubled]_M!vars
  BY DecisionKept, MediaSteps DEF Decided
<1>2. QED
  BY <1>1, MediaAlways, PTL DEF Spec, DecisionStands, M!DecisionStands
-----------------------------------------------------------------------------
Cuts == [base : P!Materials, edits : SUBSET Edits]

JobRow == [status : DOMAIN P!NextJobStatuses, render : Nat]

\* A request that works on the timeline and has not committed.
Active(s) == postTx[s].op \in P!CutOps /\ postTx[s].at \notin {"none", "enqueue"}

\* What a request holds, when last is the newest version: the edits it is to
\* make, and the timeline of the row it makes (the edits go into a first row only
\* with its commit) or of the row it overwrites.
TxTyped(t, last) ==
    /\ t.op = "voice" /\ t.at = "read" => \E m \in P!Materials : t.key = P!VoiceKey(m)
    /\ t.at \in {"empty", "composed", "numbered"} =>
          t.op \in P!CutOps /\ t.edits \subseteq Edits /\ (t.op # "edit" => t.edits = {})
    /\ t.at \in {"composed", "numbered"} => t.cut \in Cuts /\ (t.op \in {"draft", "edit"} => t.cut.edits = {})
    /\ t.at \in {"numbered", "flushed"} => t.version \in 1 .. (last + 1)
    /\ t.at = "flushed" => t.op = "compose" /\ t.cut \in Cuts
    /\ t.op = "edit" /\ t.at \in {"read", "found"} => t.cut \in Cuts /\ t.edits \subseteq Edits /\ last > 0
    /\ t.at = "found" => t.op = "edit" /\ t.row \in 1 .. last

PostTypes ==
    /\ \A k \in DOMAIN postJobs : postJobs[k] \in JobRow
    /\ material \in P!Materials
    /\ renders \in Seq(Cuts)
    /\ DOMAIN postTx = Sessions
    /\ \A s \in Sessions : TxTyped(postTx[s], P!Latest)

\* The version of a row that was flushed is the next one, and nobody else's; the
\* job of a composition names a row that was committed.
Versions ==
    /\ \A s \in Sessions : postTx[s].at = "flushed" => postTx[s].version = P!Latest + 1
    /\ \A s, o \in Sessions : postTx[s].at = "flushed" /\ postTx[o].at = "flushed" => s = o
    /\ \A m \in P!Materials : P!CutKey(m) \in DOMAIN postJobs => postJobs[P!CutKey(m)].render \in 1 .. P!Latest

\* An edit is alone with the timeline until mixed says otherwise,
EditsAlone ==
    \A s, o \in Sessions : s # o /\ postTx[s].op = "edit" /\ Active(s) /\ Active(o) => mixed

\* so it holds the newest timeline, and a row that is made without composing
\* anew holds every edit that was answered.
Carries(t) ==
    /\ t.at = "empty" => kept = {}
    /\ t.at \in {"composed", "numbered"} /\ t.op # "compose" => kept \subseteq t.cut.edits
    /\ t.op = "edit" /\ t.at \in {"read", "found"} =>
          kept \cup t.edits \subseteq t.cut.edits /\ t.cut.base = renders[P!Latest].base
    /\ t.at = "found" => t.row = P!Latest

Carried ==
    /\ P!Latest = 0 => kept = {}
    /\ ~mixed => \A s \in Sessions : Carries(postTx[s])

PostInv ==
    /\ PostTypes /\ Versions /\ EditsAlone /\ Carried
    /\ P!FlushedRenderSurvives /\ P!EditsKept /\ P!JobComposesItsKey
-----------------------------------------------------------------------------
LEMMA PostInit == P!Init => PostInv
<1> SUFFICES ASSUME P!Init PROVE PostInv
  OBVIOUS
<1>1. /\ P!Latest = 0 /\ renders = <<>> /\ DOMAIN postTx = Sessions
      /\ \A s \in Sessions : postTx[s].at = "none" /\ postTx[s].op = "none"
  BY DEF P!Init, P!Latest, P!Idle
<1>2. DOMAIN postJobs = {} /\ material \in P!Materials /\ kept = {}
  BY DEF P!Init, P!Materials
<1>3. PostTypes /\ Versions
  BY <1>1, <1>2 DEF PostTypes, TxTyped, Versions
<1>4. EditsAlone /\ Carried
  BY <1>1, <1>2 DEF EditsAlone, Carried, Carries
<1>5. P!FlushedRenderSurvives /\ P!EditsKept /\ P!JobComposesItsKey
  BY <1>1, <1>2 DEF P!FlushedRenderSurvives, P!EditsKept, P!JobComposesItsKey
<1>6. QED
  BY <1>3, <1>4, <1>5 DEF PostInv

\* What a request holds is still typed when there are more rows.
LEMMA TypedOfMore ==
    ASSUME NEW t, NEW last \in Nat, NEW more \in Nat, last <= more, TxTyped(t, last)
    PROVE  TxTyped(t, more)
<1>1. 1 .. last \subseteq 1 .. more /\ 1 .. (last + 1) \subseteq 1 .. (more + 1) /\ (last > 0 => more > 0)
  OBVIOUS
<1>2. QED
  BY <1>1 DEF TxTyped

\* A request begins; t is what it read.
LEMMA OpenKeeps ==
    ASSUME PostInv, NEW s \in Sessions, NEW t, P!Open(s, t), t.at \in {"read", "empty", "composed"},
           TxTyped(t, P!Latest), ~mixed => Carries(t)
    PROVE  PostInv'
<1>1. /\ DOMAIN postTx' = Sessions /\ postTx'[s] = t /\ \A o \in Sessions \ {s} : postTx'[o] = postTx[o]
      /\ UNCHANGED <<material, renders, postJobs, kept>> /\ P!Latest' = P!Latest
      /\ mixed => mixed'
  BY DEF P!Open, P!Latest, PostInv, PostTypes
<1>2. PostTypes'
  <2>1. TxTyped(t, P!Latest')
    BY <1>1
  <2>2. \A o \in Sessions \ {s} : TxTyped(postTx[o], P!Latest')
    BY <1>1 DEF PostInv, PostTypes
  <2>3. QED
    BY <1>1, <2>1, <2>2 DEF PostInv, PostTypes
<1>3. Versions'
  BY <1>1 DEF PostInv, Versions, P!CutKey
<1>4. EditsAlone'
  <2>1. \A o \in Sessions \ {s} : Active(o)' <=> Active(o)
    BY <1>1 DEF Active
  <2>2. Active(s)' => t.op \in P!CutOps
    BY <1>1 DEF Active
  <2>3. ASSUME NEW o \in Sessions \ {s}, Active(o), t.op \in P!CutOps, t.op = "edit" \/ postTx[o].op = "edit"
        PROVE  mixed'
    BY <2>3 DEF P!Open, Active
  <2>4. ASSUME NEW o \in Sessions, NEW q \in Sessions, o # q, postTx'[o].op = "edit", Active(o)', Active(q)'
        PROVE  mixed'
    <3>1. CASE o # s /\ q # s
      BY <1>1, <2>1, <2>4, <3>1 DEF PostInv, EditsAlone
    <3>2. CASE o = s
      BY <1>1, <2>1, <2>2, <2>3, <2>4, <3>2
    <3>3. CASE q = s
      BY <1>1, <2>1, <2>2, <2>3, <2>4, <3>3
    <3>4. QED
      BY <3>1, <3>2, <3>3
  <2>5. QED
    BY <2>4 DEF EditsAlone
<1>5. Carried'
  <2>1. ~mixed' => Carries(t)'
    BY <1>1 DEF Carries
  <2>2. ~mixed' => \A o \in Sessions \ {s} : Carries(postTx[o])'
    BY <1>1 DEF PostInv, Carried, Carries
  <2>3. QED
    BY <1>1, <2>1, <2>2 DEF PostInv, Carried, Carries
<1>6. P!FlushedRenderSurvives'
  BY <1>1 DEF PostInv, P!FlushedRenderSurvives, P!CutKey
<1>7. P!EditsKept' /\ P!JobComposesItsKey'
  BY <1>1 DEF PostInv, P!EditsKept, P!JobComposesItsKey, P!CutKey
<1>8. QED
  BY <1>2, <1>3, <1>4, <1>5, <1>6, <1>7 DEF PostInv

\* Requests end or wait to enqueue, and no render and no job of a composition
\* comes or goes.
LEMMA RestKeeps ==
    ASSUME PostInv, material' \in P!Materials, UNCHANGED <<renders, kept, mixed>>,
           DOMAIN postTx' = Sessions,
           \A o \in Sessions : postTx'[o] = postTx[o] \/ postTx'[o].at \in {"none", "enqueue"},
           \A k \in DOMAIN postJobs' : postJobs'[k] \in JobRow,
           \A m \in P!Materials :
              /\ P!CutKey(m) \in DOMAIN postJobs' => P!CutKey(m) \in DOMAIN postJobs
              /\ P!CutKey(m) \in DOMAIN postJobs => postJobs'[P!CutKey(m)].render = postJobs[P!CutKey(m)].render
    PROVE  PostInv'
<1>1. P!Latest' = P!Latest
  BY DEF P!Latest
<1>2. \A o \in Sessions : postTx'[o].at \notin {"none", "enqueue"} => postTx'[o] = postTx[o]
  OBVIOUS
<1>3. \A o \in Sessions : Active(o)' => Active(o) /\ postTx'[o] = postTx[o]
  BY <1>2 DEF Active
<1>4. PostTypes'
  <2>1. \A o \in Sessions : TxTyped(postTx'[o], P!Latest')
    BY <1>1, <1>2 DEF PostInv, PostTypes, TxTyped
  <2>2. QED
    BY <2>1 DEF PostInv, PostTypes
<1>5. Versions'
  BY <1>1, <1>2 DEF PostInv, Versions, P!CutKey
<1>6. EditsAlone'
  BY <1>3 DEF PostInv, EditsAlone
<1>7. Carried'
  <2>1. ~mixed => \A o \in Sessions : Carries(postTx[o])'
    BY <1>1, <1>2 DEF PostInv, Carried, Carries
  <2>2. QED
    BY <1>1, <2>1 DEF PostInv, Carried
<1>8. P!FlushedRenderSurvives'
  <2>1. \A o \in Sessions : postTx'[o].op = "compose" /\ postTx'[o].at = "flushed" =>
          postTx'[o] = postTx[o] /\ postTx[o].cut.base \in P!Materials
    BY <1>2 DEF PostInv, PostTypes, TxTyped, Cuts
  <2>2. QED
    BY <2>1 DEF PostInv, P!FlushedRenderSurvives, P!CutKey
<1>9. P!EditsKept' /\ P!JobComposesItsKey'
  BY <1>1 DEF PostInv, P!EditsKept, P!JobComposesItsKey, P!CutKey
<1>10. QED
  BY <1>4, <1>5, <1>6, <1>7, <1>8, <1>9 DEF PostInv

\* A request takes a step of its own; t is what it holds then.
LEMMA StepKeeps ==
    ASSUME PostInv, NEW s \in Sessions, Active(s), NEW t,
           postTx' = [postTx EXCEPT ![s] = t],
           UNCHANGED <<material, renders, postJobs, kept, mixed>>,
           t.op = postTx[s].op, t.at \notin {"none", "enqueue"},
           TxTyped(t, P!Latest), ~mixed => Carries(t),
           t.at = "flushed" =>
              /\ t.version = P!Latest + 1
              /\ \A o \in Sessions \ {s} : postTx[o].at # "flushed"
              /\ ~t.reuse => P!CutKey(t.cut.base) \notin DOMAIN postJobs
    PROVE  PostInv'
<1>1. /\ DOMAIN postTx' = Sessions /\ postTx'[s] = t /\ \A o \in Sessions \ {s} : postTx'[o] = postTx[o]
      /\ P!Latest' = P!Latest
  BY DEF P!Latest, PostInv, PostTypes
<1>2. \A o \in Sessions : (Active(o)' <=> Active(o)) /\ postTx'[o].op = postTx[o].op
  BY <1>1 DEF Active
<1>3. PostTypes'
  <2>1. \A o \in Sessions : TxTyped(postTx'[o], P!Latest')
    BY <1>1 DEF PostInv, PostTypes
  <2>2. QED
    BY <1>1, <2>1 DEF PostInv, PostTypes
<1>4. Versions'
  BY <1>1 DEF PostInv, Versions, P!CutKey
<1>5. EditsAlone'
  BY <1>2 DEF PostInv, EditsAlone
<1>6. Carried'
  <2>1. ~mixed => Carries(t)'
    BY <1>1 DEF Carries
  <2>2. ~mixed => \A o \in Sessions \ {s} : Carries(postTx[o])'
    BY <1>1 DEF PostInv, Carried, Carries
  <2>3. QED
    BY <1>1, <2>1, <2>2 DEF PostInv, Carried, Carries
<1>7. P!FlushedRenderSurvives'
  BY <1>1 DEF PostInv, P!FlushedRenderSurvives, P!CutKey
<1>8. P!EditsKept' /\ P!JobComposesItsKey'
  BY <1>1 DEF PostInv, P!EditsKept, P!JobComposesItsKey, P!CutKey
<1>9. QED
  BY <1>3, <1>4, <1>5, <1>6, <1>7, <1>8 DEF PostInv

\* Rows of renders are committed, and with them the job of a composition. Only
\* an edit adds to what was answered, and it is alone.
LEMMA AppendKeeps ==
    ASSUME PostInv, NEW s \in Sessions, Active(s),
           postTx[s].at = "flushed" \/ (postTx[s].at = "numbered" /\ P!VersionFree(s, postTx[s].version)),
           renders' \in Seq(Cuts), P!Latest' > P!Latest,
           \A v \in 1 .. P!Latest : renders'[v] = renders[v],
           UNCHANGED <<material, mixed>>,
           kept' \subseteq kept \/ postTx[s].op = "edit",
           ~mixed => kept' \subseteq renders'[P!Latest'].edits,
           DOMAIN postTx' = Sessions, postTx'[s].at \in {"none", "enqueue"},
           \A o \in Sessions \ {s} : postTx'[o] = postTx[o],
           \A k \in DOMAIN postJobs' : postJobs'[k] \in JobRow,
           \A m \in P!Materials : P!CutKey(m) \in DOMAIN postJobs' =>
              \/ /\ P!CutKey(m) \in DOMAIN postJobs
                 /\ postJobs'[P!CutKey(m)].render = postJobs[P!CutKey(m)].render
              \/ postJobs'[P!CutKey(m)].render = P!Latest + 1 /\ renders'[P!Latest + 1].base = m
    PROVE  PostInv'
<1>1. /\ P!Latest \in Nat /\ P!Latest' \in Nat /\ postTx[s].version \in Nat
      /\ postTx[s].version = P!Latest + 1
  BY DEF PostInv, PostTypes, TxTyped, Versions, P!VersionFree, P!Latest
<1>2. \A o \in Sessions \ {s} : Active(o)' <=> Active(o)
  BY DEF Active
<1>3. ~Active(s)' /\ postTx'[s].at \notin {"read", "empty", "composed", "numbered", "found", "flushed"}
  BY DEF Active
<1>4. \A o \in Sessions : postTx'[o].at # "flushed"
  BY <1>1, <1>3 DEF PostInv, Versions, P!VersionFree
<1>5. \A o \in Sessions \ {s} : Active(o) /\ (postTx[o].op = "edit" \/ postTx[s].op = "edit") => mixed
  BY DEF PostInv, EditsAlone
<1>6. PostTypes'
  <2>1. \A o \in Sessions \ {s} : TxTyped(postTx'[o], P!Latest')
    <3>1. \A o \in Sessions \ {s} : TxTyped(postTx[o], P!Latest)
      BY DEF PostInv, PostTypes
    <3>2. \A o \in Sessions \ {s} : TxTyped(postTx[o], P!Latest')
      BY <1>1, <3>1, TypedOfMore
    <3>3. QED
      BY <3>2
  <2>2. TxTyped(postTx'[s], P!Latest')
    BY <1>3 DEF TxTyped
  <2>3. QED
    BY <2>1, <2>2 DEF PostInv, PostTypes
<1>7. Versions'
  BY <1>1, <1>4 DEF PostInv, Versions, P!CutKey
<1>8. EditsAlone'
  BY <1>2, <1>3 DEF PostInv, EditsAlone
<1>9. Carried'
  <2>1. ASSUME ~mixed, NEW o \in Sessions \ {s}
        PROVE  Carries(postTx[o])'
    <3>1. Carries(postTx[o])
      BY <2>1 DEF PostInv, Carried
    <3>2. postTx[o].at \in {"empty", "composed", "numbered"} => Active(o)
      BY DEF PostInv, PostTypes, TxTyped, Active
    <3>3. postTx[o].at = "found" => postTx[o].op = "edit"
      BY DEF PostInv, PostTypes, TxTyped
    <3>4. postTx[o].op = "edit" => ~Active(o)
      BY <1>5, <2>1
    <3>5. postTx[o].at \in {"empty", "composed", "numbered"} => kept' \subseteq kept
      BY <1>5, <2>1, <3>2
    <3>6. ~(postTx[o].op = "edit" /\ postTx[o].at \in {"read", "found"})
      BY <3>4 DEF Active, P!CutOps
    <3>7. QED
      BY <3>1, <3>3, <3>5, <3>6 DEF Carries
  <2>2. Carries(postTx[s])'
    BY <1>3 DEF Carries
  <2>3. QED
    BY <1>1, <2>1, <2>2 DEF Carried
<1>10. P!FlushedRenderSurvives'
  BY <1>4 DEF P!FlushedRenderSurvives
<1>11. P!EditsKept'
  BY DEF P!EditsKept
<1>12. P!JobComposesItsKey'
  <2>1. ASSUME NEW m \in P!Materials, P!CutKey(m) \in DOMAIN postJobs', ~mixed
        PROVE  renders'[postJobs'[P!CutKey(m)].render].base = m
    <3>1. CASE /\ P!CutKey(m) \in DOMAIN postJobs
               /\ postJobs'[P!CutKey(m)].render = postJobs[P!CutKey(m)].render
      <4> DEFINE v == postJobs[P!CutKey(m)].render
      <4>1. v \in 1 .. P!Latest
        BY <3>1 DEF PostInv, Versions
      <4>2. renders[v].base = m
        BY <2>1, <3>1 DEF PostInv, P!JobComposesItsKey
      <4>3. renders'[v] = renders[v]
        BY <4>1
      <4>4. QED
        BY <3>1, <4>2, <4>3
    <3>2. QED
      BY <2>1, <3>1
  <2>2. QED
    BY <2>1 DEF P!JobComposesItsKey, P!CutKey
<1>13. QED
  BY <1>6, <1>7, <1>8, <1>9, <1>10, <1>11, <1>12 DEF PostInv

-----------------------------------------------------------------------------
\* Keys of different kinds are different.
LEMMA Keys ==
    /\ \A m, n \in P!Materials : P!CutKey(m) = P!CutKey(n) => m = n
    /\ \A m, n \in P!Materials : P!CutKey(m) # P!VoiceKey(n)
    /\ \A m \in P!Materials : \A v : P!CutKey(m) # P!RowKey(v)
BY DEF P!Materials, P!CutKey, P!VoiceKey, P!RowKey

\* A job that is created has a status and the number of its render.
LEMMA CreatedRows ==
    ASSUME PostInv
    PROVE  /\ \A k \in DOMAIN postJobs : postJobs[k] \in JobRow
           /\ \A key : \A v \in Nat : \A k \in DOMAIN P!Created(key, v) : P!Created(key, v)[k] \in JobRow
BY DEF PostInv, PostTypes, P!Created, JobRow, P!NextJobStatuses

\* The draft is composed: what it composes has no edits, as nothing has.
LEMMA ComposeKeeps ==
    ASSUME PostInv, NEW s \in Sessions, P!ComposeDraft(s)
    PROVE  PostInv'
<1> DEFINE t == [op |-> postTx[s].op, at |-> "composed", first |-> TRUE,
                 edits |-> postTx[s].edits, cut |-> P!Composed]
<1>1. /\ postTx[s].at = "empty" /\ postTx' = [postTx EXCEPT ![s] = t]
      /\ UNCHANGED <<material, renders, postJobs, kept, mixed>>
  BY DEF P!ComposeDraft
<1>2. P!Composed \in Cuts /\ P!Composed.edits = {}
  BY DEF P!Composed, Cuts, PostInv, PostTypes
<1>3. Active(s) /\ TxTyped(t, P!Latest)
  BY <1>1, <1>2 DEF PostInv, PostTypes, TxTyped, Active, P!CutOps
<1>4. ~mixed => Carries(t)
  BY <1>1, <1>2 DEF PostInv, Carried, Carries
<1>5. t.op = postTx[s].op /\ t.at = "composed"
  OBVIOUS
<1> HIDE DEF t
<1>6. QED
  BY <1>1, <1>3, <1>4, <1>5, StepKeeps

LEMMA NumberKeeps ==
    ASSUME PostInv, NEW s \in Sessions, P!Number(s)
    PROVE  PostInv'
<1> DEFINE t == [op |-> postTx[s].op, at |-> "numbered", first |-> postTx[s].first,
                 edits |-> postTx[s].edits, cut |-> postTx[s].cut, version |-> P!Latest + 1]
<1>1. /\ postTx[s].at = "composed" /\ postTx' = [postTx EXCEPT ![s] = t]
      /\ UNCHANGED <<material, renders, postJobs, kept, mixed>>
  BY DEF P!Number
<1>2. P!Latest \in Nat
  BY DEF PostInv, PostTypes, P!Latest
<1>3. P!Latest + 1 \in 1 .. (P!Latest + 1)
  BY <1>2
<1>4. Active(s) /\ TxTyped(t, P!Latest)
  BY <1>1, <1>3 DEF PostInv, PostTypes, TxTyped, Active
<1>5. ~mixed => Carries(t)
  BY <1>1 DEF PostInv, Carried, Carries
<1>6. t.op = postTx[s].op /\ t.at = "numbered"
  OBVIOUS
<1> HIDE DEF t
<1>7. QED
  BY <1>1, <1>4, <1>5, <1>6, StepKeeps

\* A row is flushed only where no other one is.
LEMMA FlushKeeps ==
    ASSUME PostInv, NEW s \in Sessions, P!FlushRender(s)
    PROVE  PostInv'
<1> DEFINE t == [op |-> postTx[s].op, at |-> "flushed", cut |-> postTx[s].cut, version |-> postTx[s].version,
                 reuse |-> P!CutKey(postTx[s].cut.base) \in DOMAIN postJobs]
<1>1. /\ postTx[s].op = "compose" /\ postTx[s].at = "numbered" /\ P!VersionFree(s, postTx[s].version)
      /\ postTx' = [postTx EXCEPT ![s] = t]
      /\ UNCHANGED <<material, renders, postJobs, kept, mixed>>
  BY DEF P!FlushRender
<1>2. /\ postTx[s].version \in 1 .. (P!Latest + 1) /\ P!Latest \in Nat
      /\ postTx[s].version = P!Latest + 1 /\ \A o \in Sessions \ {s} : postTx[o].at # "flushed"
  BY <1>1 DEF PostInv, PostTypes, TxTyped, Versions, P!VersionFree, P!Latest
<1>3. Active(s) /\ TxTyped(t, P!Latest)
  BY <1>1, <1>2 DEF PostInv, PostTypes, TxTyped, Active
<1>4. ~mixed => Carries(t)
  BY <1>1 DEF Carries
<1>5. /\ t.op = postTx[s].op /\ t.at = "flushed" /\ t.version = P!Latest + 1
      /\ ~t.reuse => P!CutKey(t.cut.base) \notin DOMAIN postJobs
  BY <1>2
<1> HIDE DEF t
<1>6. QED
  BY <1>1, <1>2, <1>3, <1>4, <1>5, StepKeeps

LEMMA FindKeeps ==
    ASSUME PostInv, NEW s \in Sessions, P!FindDraft(s)
    PROVE  PostInv'
<1> DEFINE t == [op |-> "edit", at |-> "found", edits |-> postTx[s].edits,
                 cut |-> postTx[s].cut, row |-> P!Latest]
<1>1. /\ postTx[s].op = "edit" /\ postTx[s].at = "read" /\ postTx' = [postTx EXCEPT ![s] = t]
      /\ UNCHANGED <<material, renders, postJobs, kept, mixed>>
  BY DEF P!FindDraft
<1>2. P!Latest \in 1 .. P!Latest
  BY <1>1 DEF PostInv, PostTypes, TxTyped, P!Latest
<1>3. Active(s) /\ TxTyped(t, P!Latest)
  BY <1>1, <1>2 DEF PostInv, PostTypes, TxTyped, Active, P!CutOps
<1>4. ~mixed => Carries(t)
  BY <1>1 DEF PostInv, Carried, Carries
<1>5. t.op = postTx[s].op /\ t.at = "found"
  BY <1>1
<1> HIDE DEF t
<1>6. QED
  BY <1>1, <1>3, <1>4, <1>5, StepKeeps

\* An edit is written: nothing else was under way, or mixed says so.
LEMMA EditKeeps ==
    ASSUME PostInv, NEW s \in Sessions, P!CommitEdits(s)
    PROVE  PostInv'
<1> PICK row, edited, made : row = postTx[s].row /\ edited = postTx[s].cut /\ made = postTx[s].edits
  OBVIOUS
<1>1. /\ postTx[s].op = "edit" /\ postTx[s].at = "found"
      /\ DOMAIN postTx' = Sessions /\ \A o \in Sessions \ {s} : postTx'[o] = postTx[o]
      /\ postTx'[s].op = "none" /\ postTx'[s].at = "none"
      /\ renders' = [renders EXCEPT ![row] = edited] /\ kept' = kept \cup made
      /\ UNCHANGED <<material, postJobs, mixed>>
  BY DEF P!CommitEdits, P!Close, P!Idle, PostInv, PostTypes
<1>2. Active(s) /\ ~Active(s)' /\ \A o \in Sessions \ {s} : Active(o)' <=> Active(o)
  BY <1>1 DEF Active, P!CutOps
<1>3. row \in 1 .. Len(renders) /\ edited \in Cuts /\ P!Latest = Len(renders) /\ P!Latest > 0
  BY <1>1 DEF PostInv, PostTypes, TxTyped, P!Latest
<1>4. /\ renders' \in Seq(Cuts) /\ P!Latest' = P!Latest
      /\ renders'[row] = edited /\ \A v \in 1 .. P!Latest : v # row => renders'[v] = renders[v]
  BY <1>1, <1>3 DEF PostInv, PostTypes, P!Latest
<1>5. ~mixed => row = P!Latest /\ kept \cup made \subseteq edited.edits /\ edited.base = renders[P!Latest].base
  BY <1>1 DEF PostInv, Carried, Carries
<1>6. ~mixed => \A o \in Sessions \ {s} : ~Active(o)
  BY <1>1, <1>2 DEF PostInv, EditsAlone
<1>7. PostTypes'
  <2>1. \A o \in Sessions \ {s} : TxTyped(postTx'[o], P!Latest')
    BY <1>1, <1>4 DEF PostInv, PostTypes
  <2>2. TxTyped(postTx'[s], P!Latest')
    BY <1>1 DEF TxTyped
  <2>3. QED
    BY <1>1, <1>4, <2>1, <2>2 DEF PostInv, PostTypes
<1>8. Versions'
  BY <1>1, <1>4 DEF PostInv, Versions, P!CutKey
<1>9. EditsAlone'
  BY <1>1, <1>2 DEF PostInv, EditsAlone
<1>10. Carried'
  <2>1. ASSUME ~mixed, NEW o \in Sessions \ {s}
        PROVE  Carries(postTx[o])'
    <3>1. postTx[o].at \in {"empty", "composed", "numbered"} \/ postTx[o].op = "edit" =>
            postTx[o].at \in {"none", "enqueue"} \/ Active(o)
      BY DEF PostInv, PostTypes, TxTyped, Active, P!CutOps
    <3>2. postTx[o].at = "found" => postTx[o].op = "edit"
      BY DEF PostInv, PostTypes, TxTyped
    <3>3. QED
      BY <1>1, <1>6, <2>1, <3>1, <3>2 DEF Carries
  <2>2. Carries(postTx[s])'
    BY <1>1 DEF Carries
  <2>3. P!Latest' # 0
    BY <1>3, <1>4
  <2>4. QED
    BY <1>1, <2>1, <2>2, <2>3 DEF Carried
<1>11. P!FlushedRenderSurvives'
  BY <1>1 DEF PostInv, P!FlushedRenderSurvives, P!CutKey
<1>12. P!EditsKept'
  BY <1>1, <1>4, <1>5 DEF P!EditsKept
<1>13. P!JobComposesItsKey'
  BY <1>1, <1>4, <1>5 DEF PostInv, Versions, P!JobComposesItsKey, P!CutKey
<1>14. QED
  BY <1>7, <1>8, <1>9, <1>10, <1>11, <1>12, <1>13 DEF PostInv

-----------------------------------------------------------------------------
\* A request that finds no render begins with the draft.
LEMMA FirstKeeps ==
    ASSUME PostInv, NEW s \in Sessions, NEW op \in P!CutOps, NEW edits \in SUBSET Edits,
           op # "edit" => edits = {}, P!FirstDraft(s, op, edits)
    PROVE  PostInv'
<1> DEFINE t == [op |-> op, at |-> "empty", edits |-> edits]
<1>1. P!Latest = 0 /\ P!Open(s, t)
  BY DEF P!FirstDraft
<1>2. TxTyped(t, P!Latest) /\ Carries(t)
  BY <1>1 DEF PostInv, Carried, Carries, TxTyped, P!CutOps
<1>3. t.at = "empty"
  OBVIOUS
<1> HIDE DEF t
<1>4. QED
  BY <1>1, <1>2, <1>3, OpenKeeps

\* One that finds one begins with its timeline, or composes another.
LEMMA BeginKeeps ==
    ASSUME PostInv, NEW s \in Sessions, NEW op \in {"compose", "rerender"}, NEW cut0 \in Cuts,
           op = "rerender" /\ ~mixed => kept \subseteq cut0.edits,
           P!Open(s, [op |-> op, at |-> "composed", first |-> FALSE, edits |-> {}, cut |-> cut0])
    PROVE  PostInv'
<1> DEFINE t == [op |-> op, at |-> "composed", first |-> FALSE, edits |-> {}, cut |-> cut0]
<1>1. TxTyped(t, P!Latest)
  BY DEF TxTyped, P!CutOps
<1>2. ~mixed => Carries(t)
  BY DEF Carries
<1>3. t.at = "composed" /\ P!Open(s, t)
  OBVIOUS
<1> HIDE DEF t
<1>4. QED
  BY <1>1, <1>2, <1>3, OpenKeeps

\* Every request reads as it begins.
LEMMA OpeningKeeps ==
    ASSUME PostInv, NEW s \in Sessions,
           P!Voiceover(s) \/ P!OpenDraft(s) \/ P!CreateRender(s) \/ P!Rerender(s) \/ \E e \in Edits : P!ApplyEdits(s, e)
    PROVE  PostInv'
<1>1. P!Composed \in Cuts
  BY DEF PostInv, PostTypes, P!Composed, Cuts
<1>2. P!Latest > 0 => renders[P!Latest] \in Cuts
  BY DEF PostInv, PostTypes, P!Latest
<1>3. ~mixed /\ P!Latest > 0 => kept \subseteq renders[P!Latest].edits
  BY DEF PostInv, P!EditsKept
<1>4. CASE P!Voiceover(s)
  <2> DEFINE t == [op |-> "voice", at |-> "read", key |-> P!VoiceKey(material)]
  <2>1. P!Open(s, t) /\ t.at = "read"
    BY <1>4 DEF P!Voiceover
  <2>2. TxTyped(t, P!Latest) /\ Carries(t)
    BY DEF TxTyped, Carries, PostInv, PostTypes
  <2> HIDE DEF t
  <2>3. QED
    BY <2>1, <2>2, OpenKeeps
<1>5. CASE P!OpenDraft(s)
  BY <1>5, FirstKeeps DEF P!OpenDraft, P!CutOps
<1>6. CASE P!CreateRender(s)
  BY <1>1, <1>6, BeginKeeps DEF P!CreateRender
<1>7. CASE P!Rerender(s)
  BY <1>2, <1>3, <1>7, FirstKeeps, BeginKeeps DEF P!Rerender, P!CutOps
<1>8. ASSUME NEW e \in Edits, P!ApplyEdits(s, e)
      PROVE  PostInv'
  <2>1. CASE P!FirstDraft(s, "edit", {e})
    BY <2>1, FirstKeeps DEF P!CutOps
  <2>2. CASE P!Latest > 0
    <3> DEFINE edited == [renders[P!Latest] EXCEPT !.edits = @ \cup {e}]
               t == [op |-> "edit", at |-> "read", edits |-> {e}, cut |-> edited]
    <3>1. P!Open(s, t)
      BY <1>8, <2>2 DEF P!ApplyEdits, P!FirstDraft
    <3>2. /\ edited \in Cuts /\ edited.base = renders[P!Latest].base
          /\ edited.edits = renders[P!Latest].edits \cup {e}
      BY <1>2, <2>2 DEF Cuts
    <3> HIDE DEF edited
    <3>3. TxTyped(t, P!Latest)
      BY <2>2, <3>2 DEF TxTyped
    <3>4. ~mixed => Carries(t)
      BY <1>3, <2>2, <3>2 DEF Carries
    <3>5. t.at = "read"
      OBVIOUS
    <3> HIDE DEF t
    <3>6. QED
      BY <3>1, <3>3, <3>4, <3>5, OpenKeeps
  <2>3. QED
    BY <1>8, <2>1, <2>2 DEF P!ApplyEdits
<1>9. QED
  BY <1>4, <1>5, <1>6, <1>7, <1>8

\* A composition is committed with its job, or with the one there was.
LEMMA RenderKeeps ==
    ASSUME PostInv, NEW s \in Sessions, P!CommitRender(s)
    PROVE  PostInv'
<1>1. /\ postTx[s].op = "compose" /\ postTx[s].at = "flushed"
      /\ renders' = Append(renders, postTx[s].cut) /\ kept' = {} /\ UNCHANGED <<material, mixed>>
      /\ DOMAIN postTx' = Sessions /\ postTx'[s].at \in {"none", "enqueue"}
      /\ \A o \in Sessions \ {s} : postTx'[o] = postTx[o]
      /\ UNCHANGED postJobs \/ postJobs' = P!Created(P!CutKey(postTx[s].cut.base), postTx[s].version)
  BY DEF P!CommitRender, P!Close, P!ThenEnqueue, P!Idle, PostInv, PostTypes
<1>2. Active(s) /\ postTx[s].cut \in Cuts /\ postTx[s].cut.base \in P!Materials
  BY <1>1 DEF PostInv, PostTypes, TxTyped, Active, P!CutOps, Cuts
<1>3. postTx[s].version = P!Latest + 1 /\ P!Latest \in Nat /\ P!Latest + 1 \in Nat
  BY <1>1 DEF PostInv, PostTypes, Versions, P!Latest
<1>4. /\ renders' \in Seq(Cuts) /\ P!Latest' = P!Latest + 1 /\ P!Latest' > P!Latest
      /\ renders'[P!Latest + 1] = postTx[s].cut /\ \A v \in 1 .. P!Latest : renders'[v] = renders[v]
  BY <1>1, <1>2 DEF PostInv, PostTypes, P!Latest
<1>5. \A m \in P!Materials : P!CutKey(m) \in DOMAIN postJobs' =>
            \/ /\ P!CutKey(m) \in DOMAIN postJobs
               /\ postJobs'[P!CutKey(m)].render = postJobs[P!CutKey(m)].render
            \/ postJobs'[P!CutKey(m)].render = P!Latest + 1 /\ renders'[P!Latest + 1].base = m
  <2>1. CASE UNCHANGED postJobs
    BY <2>1 DEF P!CutKey
  <2>2. CASE postJobs' = P!Created(P!CutKey(postTx[s].cut.base), postTx[s].version)
    BY <1>2, <1>3, <1>4, <2>2, Keys DEF P!Created
  <2>3. QED
    BY <1>1, <2>1, <2>2
<1>6. \A k \in DOMAIN postJobs' : postJobs'[k] \in JobRow
  BY <1>1, <1>3, CreatedRows
<1>7. QED
  BY <1>1, <1>2, <1>4, <1>5, <1>6, AppendKeeps

\* The draft is committed, with the edits that were made in it.
LEMMA DraftKeeps ==
    ASSUME PostInv, NEW s \in Sessions, P!CommitDraft(s)
    PROVE  PostInv'
<1> DEFINE row == [postTx[s].cut EXCEPT !.edits = postTx[s].edits]
<1>1. /\ postTx[s].op \in {"draft", "edit"} /\ postTx[s].at = "numbered" /\ P!VersionFree(s, postTx[s].version)
      /\ renders' = Append(renders, row) /\ kept' = kept \cup postTx[s].edits
      /\ UNCHANGED <<material, mixed, postJobs>>
      /\ DOMAIN postTx' = Sessions /\ postTx'[s].at \in {"none", "enqueue"}
      /\ \A o \in Sessions \ {s} : postTx'[o] = postTx[o]
  BY DEF P!CommitDraft, P!Close, P!Idle, PostInv, PostTypes
<1>2. /\ Active(s) /\ postTx[s].cut \in Cuts /\ postTx[s].cut.edits = {}
      /\ postTx[s].edits \subseteq Edits /\ (postTx[s].op # "edit" => postTx[s].edits = {})
  BY <1>1 DEF PostInv, PostTypes, TxTyped, Active, P!CutOps
<1>3. row \in Cuts /\ row.edits = postTx[s].edits
  BY <1>2 DEF Cuts
<1> HIDE DEF row
<1>4. /\ renders' \in Seq(Cuts) /\ P!Latest' = P!Latest + 1 /\ P!Latest' > P!Latest
      /\ renders'[P!Latest'] = row /\ \A v \in 1 .. P!Latest : renders'[v] = renders[v]
  BY <1>1, <1>3 DEF PostInv, PostTypes, P!Latest
<1>5. ~mixed => kept \subseteq {}
  BY <1>1, <1>2 DEF PostInv, Carried, Carries
<1>6. ~mixed => kept' \subseteq renders'[P!Latest'].edits
  BY <1>1, <1>3, <1>4, <1>5
<1>7. kept' \subseteq kept \/ postTx[s].op = "edit"
  BY <1>1, <1>2
<1>8. /\ \A k \in DOMAIN postJobs' : postJobs'[k] \in JobRow
      /\ \A m \in P!Materials : P!CutKey(m) \in DOMAIN postJobs' =>
            /\ P!CutKey(m) \in DOMAIN postJobs
            /\ postJobs'[P!CutKey(m)].render = postJobs[P!CutKey(m)].render
  BY <1>1, CreatedRows DEF P!CutKey
<1>9. QED
  BY <1>1, <1>2, <1>4, <1>6, <1>7, <1>8, AppendKeeps

\* The newest timeline is committed again, after the draft if that was missing.
LEMMA AgainRows ==
    ASSUME PostInv, NEW s \in Sessions, P!CommitRerender(s)
    PROVE  /\ postTx[s].cut \in Cuts /\ postTx[s].version = P!Latest + 1 /\ P!Latest \in Nat
           /\ renders' \in Seq(Cuts) /\ P!Latest' \in Nat /\ P!Latest' > P!Latest
           /\ renders'[P!Latest'] = postTx[s].cut
           /\ \A v \in 1 .. P!Latest : renders'[v] = renders[v]
           /\ postJobs' = P!Created(P!RowKey(P!Latest'), P!Latest') /\ P!ThenEnqueue(s, P!RowKey(P!Latest'))
<1>1. /\ postTx[s].op = "rerender" /\ postTx[s].at = "numbered" /\ P!VersionFree(s, postTx[s].version)
  BY DEF P!CommitRerender
<1>2. /\ postTx[s].cut \in Cuts /\ postTx[s].version \in 1 .. (P!Latest + 1)
      /\ renders \in Seq(Cuts) /\ P!Latest = Len(renders) /\ P!Latest \in Nat
  BY <1>1 DEF PostInv, PostTypes, TxTyped, P!Latest
<1>3. postTx[s].version = P!Latest + 1
  BY <1>1, <1>2 DEF P!VersionFree
<1> DEFINE again == IF postTx[s].first THEN <<postTx[s].cut, postTx[s].cut>> ELSE <<postTx[s].cut>>
<1>4. again \in Seq(Cuts) /\ Len(again) \in Nat /\ Len(again) >= 1 /\ again[Len(again)] = postTx[s].cut
  <2>1. CASE postTx[s].first
    BY <1>2, <2>1
  <2>2. CASE ~postTx[s].first
    BY <1>2, <2>2
  <2>3. QED
    BY <2>1, <2>2
<1>5. /\ renders' = renders \o again
      /\ postJobs' = P!Created(P!RowKey(postTx[s].version + Len(again) - 1), postTx[s].version + Len(again) - 1)
      /\ P!ThenEnqueue(s, P!RowKey(postTx[s].version + Len(again) - 1))
  BY DEF P!CommitRerender
<1> HIDE DEF again
<1>6. P!Latest' = P!Latest + Len(again) /\ renders' \in Seq(Cuts)
  BY <1>2, <1>4, <1>5 DEF P!Latest
<1>7. renders'[P!Latest'] = postTx[s].cut
  <2>1. renders'[Len(renders) + Len(again)] = again[Len(again)]
    BY <1>2, <1>4, <1>5
  <2>2. QED
    BY <1>2, <1>4, <1>6, <2>1
<1>8. \A v \in 1 .. P!Latest : renders'[v] = renders[v]
  BY <1>2, <1>4, <1>5
<1>9. P!Latest' = postTx[s].version + Len(again) - 1
  BY <1>2, <1>3, <1>4, <1>6
<1>10. P!Latest' \in Nat /\ P!Latest' > P!Latest
  BY <1>2, <1>4, <1>6
<1>11. QED
  BY <1>2, <1>3, <1>5, <1>6, <1>7, <1>8, <1>9, <1>10

LEMMA AgainKeeps ==
    ASSUME PostInv, NEW s \in Sessions, P!CommitRerender(s)
    PROVE  PostInv'
<1>1. /\ postTx[s].op = "rerender" /\ postTx[s].at = "numbered" /\ P!VersionFree(s, postTx[s].version)
      /\ UNCHANGED <<material, kept, mixed>>
  BY DEF P!CommitRerender
<1>2. /\ DOMAIN postTx' = Sessions /\ postTx'[s].at \in {"none", "enqueue"}
      /\ \A o \in Sessions \ {s} : postTx'[o] = postTx[o]
  BY AgainRows DEF P!ThenEnqueue, PostInv, PostTypes
<1>3. Active(s)
  BY <1>1 DEF Active, P!CutOps
<1>4. ~mixed => kept' \subseteq renders'[P!Latest'].edits
  BY <1>1, AgainRows DEF PostInv, Carried, Carries
<1>5. \A m \in P!Materials : P!CutKey(m) \in DOMAIN postJobs' =>
            /\ P!CutKey(m) \in DOMAIN postJobs
            /\ postJobs'[P!CutKey(m)].render = postJobs[P!CutKey(m)].render
  BY AgainRows, Keys DEF P!Created
<1>6. \A k \in DOMAIN postJobs' : postJobs'[k] \in JobRow
  BY AgainRows, CreatedRows
<1>7. QED
  BY <1>1, <1>2, <1>3, <1>4, <1>5, <1>6, AgainRows, AppendKeeps

-----------------------------------------------------------------------------
LEMMA PostNext ==
    ASSUME PostInv, [P!Next]_P!vars
    PROVE  PostInv'
<1>1. ASSUME NEW s \in Sessions, P!ComposeDraft(s) \/ P!Number(s) \/ P!FlushRender(s) \/ P!FindDraft(s)
      PROVE  PostInv'
  BY <1>1, ComposeKeeps, NumberKeeps, FlushKeeps, FindKeeps
<1>2. ASSUME NEW s \in Sessions, P!CommitVoiceover(s) \/ P!Enqueue(s) \/ P!NotEnqueued(s) \/ P!Rollback(s)
      PROVE  PostInv'
  <2>1. /\ UNCHANGED <<material, renders, kept, mixed>> /\ material \in P!Materials
        /\ DOMAIN postTx' = Sessions /\ postTx'[s].at \in {"none", "enqueue"}
        /\ \A o \in Sessions \ {s} : postTx'[o] = postTx[o]
    BY <1>2 DEF P!CommitVoiceover, P!Enqueue, P!NotEnqueued, P!Rollback, P!Close, P!ThenEnqueue, P!Idle, PostInv, PostTypes
  <2>2. \A m \in P!Materials :
            /\ P!CutKey(m) \in DOMAIN postJobs' => P!CutKey(m) \in DOMAIN postJobs
            /\ P!CutKey(m) \in DOMAIN postJobs => postJobs'[P!CutKey(m)].render = postJobs[P!CutKey(m)].render
    <3>1. CASE UNCHANGED postJobs
      BY <3>1 DEF P!CutKey
    <3>2. CASE P!CommitVoiceover(s) /\ postJobs' = P!Created(postTx[s].key, 0)
      <4>1. \E n \in P!Materials : postTx[s].key = P!VoiceKey(n)
        BY <3>2 DEF P!CommitVoiceover, PostInv, PostTypes, TxTyped
      <4>2. QED
        BY <3>2, <4>1, Keys DEF P!Created
    <3>3. QED
      BY <1>2, <3>1, <3>2 DEF P!CommitVoiceover, P!Enqueue, P!NotEnqueued, P!Rollback
  <2>3. \A k \in DOMAIN postJobs' : postJobs'[k] \in JobRow
    <3>1. UNCHANGED postJobs \/ postJobs' = P!Created(postTx[s].key, 0)
      BY <1>2 DEF P!CommitVoiceover, P!Enqueue, P!NotEnqueued, P!Rollback
    <3>2. QED
      BY <3>1, CreatedRows
  <2>4. QED
    BY <2>1, <2>2, <2>3, RestKeeps
<1>3. ASSUME NEW s \in Sessions, P!CommitRender(s) \/ P!CommitDraft(s) \/ P!CommitRerender(s) \/ P!CommitEdits(s)
      PROVE  PostInv'
  BY <1>3, RenderKeeps, DraftKeeps, AgainKeeps, EditKeeps
<1>4. ASSUME P!Retake \/ P!Reapprove \/ (\E k \in queue : P!Attempt(k)) \/ (\E k \in DOMAIN postJobs : P!CancelJob(k))
      PROVE  PostInv'
  <2>1. /\ material' \in P!Materials /\ UNCHANGED <<renders, kept, mixed, postTx>> /\ DOMAIN postTx = Sessions
    BY <1>4 DEF P!Retake, P!Reapprove, P!Attempt, P!CancelJob, P!Materials, PostInv, PostTypes
  <2>2. /\ DOMAIN postJobs' = DOMAIN postJobs
        /\ \A k \in DOMAIN postJobs : postJobs'[k].render = postJobs[k].render /\ postJobs'[k] \in JobRow
    <3>1. \A k \in DOMAIN postJobs : postJobs[k] \in JobRow
      BY CreatedRows
    <3>2. CASE P!Retake \/ P!Reapprove
      BY <3>1, <3>2 DEF P!Retake, P!Reapprove
    <3>3. ASSUME NEW k, NEW next, postJobs' = [postJobs EXCEPT ![k].status = next],
                 k \in DOMAIN postJobs => next \in DOMAIN P!NextJobStatuses
          PROVE  /\ DOMAIN postJobs' = DOMAIN postJobs
                 /\ \A j \in DOMAIN postJobs : postJobs'[j].render = postJobs[j].render /\ postJobs'[j] \in JobRow
      BY <3>1, <3>3 DEF JobRow
    <3>4. CASE \E k \in queue : P!Attempt(k)
      <4>1. PICK k \in queue : P!Attempt(k)
        BY <3>4
      <4>2. postJobs' = [postJobs EXCEPT ![k].status = P!AfterStart(postJobs[k].status)]
        BY <4>1 DEF P!Attempt
      <4>3. k \in DOMAIN postJobs => P!AfterStart(postJobs[k].status) \in DOMAIN P!NextJobStatuses
        BY <3>1 DEF P!AfterStart, JobRow, P!NextJobStatuses
      <4>4. QED
        BY <3>3, <4>2, <4>3
    <3>5. CASE \E k \in DOMAIN postJobs : P!CancelJob(k)
      <4>1. PICK k \in DOMAIN postJobs : postJobs' = [postJobs EXCEPT ![k].status = "CANCELED"]
        BY <3>5 DEF P!CancelJob
      <4>2. "CANCELED" \in DOMAIN P!NextJobStatuses
        BY DEF P!NextJobStatuses
      <4>3. QED
        BY <3>3, <4>1, <4>2
    <3>6. QED
      BY <1>4, <3>2, <3>4, <3>5
  <2>3. QED
    BY <2>1, <2>2, RestKeeps
<1>5. CASE UNCHANGED P!vars
  <2>1. UNCHANGED <<material, renders, kept, mixed, postTx, postJobs>> /\ material \in P!Materials /\ DOMAIN postTx = Sessions
    BY <1>5 DEF P!vars, PostInv, PostTypes
  <2>2. QED
    BY <2>1, CreatedRows, RestKeeps DEF P!CutKey
<1>6. QED
  BY <1>1, <1>2, <1>3, <1>4, <1>5, OpeningKeeps DEF P!Next

-----------------------------------------------------------------------------
\* A step of the services is one of PostProduction or leaves its rows alone.
LEMMA PostSteps == [Next]_vars => [P!Next]_P!vars
BY DEF Next, vars, TruthMoves, GoodsMove, StoryMoves, PostMoves, CutMoves, MediaMove, StaffMoves,
       SignMoves, BrandMoves, RouterMoves, post, P!vars

\* PostProduction always has its invariant.
LEMMA PostAlways == Spec => []PostInv
<1>1. Init => PostInv
  BY PostInit DEF Init
<1>2. PostInv /\ [Next]_vars => PostInv'
  BY PostNext, PostSteps
<1>3. QED
  BY <1>1, <1>2, PTL DEF Spec

\* post_production.py, create_render over jobs.py, create: the handler of a
\* duplicate key rolls the session back, and never a flushed render with it.
THEOREM FlushedRendersSurvive == Spec => []FlushedRenderSurvives
<1>1. PostInv => FlushedRenderSurvives
  BY DEF PostInv, FlushedRenderSurvives
<1>2. QED
  BY <1>1, PostAlways, PTL

\* editor.py, draft and apply: an edit that was answered stays in the newest
\* timeline, through any number of renders of it again.
THEOREM EditsAreKept == Spec => []EditsKept
<1>1. PostInv => EditsKept
  BY DEF PostInv, EditsKept
<1>2. QED
  BY <1>1, PostAlways, PTL

\* post_production.py, create_render: whoever is answered with the job of a
\* composition gets a render of that composition.
THEOREM JobsComposeTheirKeys == Spec => []JobComposesItsKey
<1>1. PostInv => JobComposesItsKey
  BY DEF PostInv, JobComposesItsKey
<1>2. QED
  BY <1>1, PostAlways, PTL

-----------------------------------------------------------------------------
\* The last of some positions.
LEMMA LastOf ==
    ASSUME NEW n \in Nat, NEW t \in SUBSET (1 .. n), t # {}
    PROVE  C!Max(t) \in t /\ \A k \in t : k <= C!Max(t)
<1> DEFINE U == {m \in Nat : \A u \in SUBSET (1 .. m) : u # {} => \E x \in u : \A k \in u : x >= k}
<1>1. 0 \in U
  <2>1. 1 .. 0 = {}
    OBVIOUS
  <2> QED
    BY <2>1
<1>2. ASSUME NEW m \in U PROVE m + 1 \in U
  <2> SUFFICES ASSUME NEW u \in SUBSET (1 .. m + 1), u # {}
               PROVE  \E x \in u : \A k \in u : x >= k
    OBVIOUS
  <2>1. CASE m + 1 \in u
    BY <2>1
  <2>2. CASE m + 1 \notin u
    <3>1. u \in SUBSET (1 .. m)
      BY <2>2
    <3> QED
      BY <3>1
  <2> QED
    BY <2>1, <2>2
<1>3. U = Nat
  BY <1>1, <1>2, SetInduction
<1>4. \E x \in t : \A k \in t : x >= k
  BY <1>3
<1>5. C!Max(t) \in t /\ \A k \in t : C!Max(t) >= k
  BY <1>4 DEF C!Max
<1> QED
  BY <1>5

\* There is a table of the sums over sets of positions, each the sum without
\* the last one and the last one.
LEMMA SumTable ==
    ASSUME NEW n0 \in Nat, NEW L \in [1 .. n0 -> Int]
    PROVE  \E g : g = [t \in SUBSET (1 .. n0) |->
                          IF t = {} THEN 0 ELSE g[t \ {C!Max(t)}] + L[C!Max(t)]]
                  /\ g \in [SUBSET (1 .. n0) -> Int]
<1> DEFINE Solves(g, n) ==
               /\ g \in [SUBSET (1 .. n) -> Int]
               /\ \A t \in SUBSET (1 .. n) :
                     g[t] = IF t = {} THEN 0 ELSE g[t \ {C!Max(t)}] + L[C!Max(t)]
           U == {n \in Nat : n <= n0 => \E g : Solves(g, n)}
<1>1. 0 \in U
  <2> DEFINE g == [t \in SUBSET (1 .. 0) |-> 0]
  <2>1. \A t \in SUBSET (1 .. 0) : t = {} /\ g[t] = 0
    OBVIOUS
  <2>2. g \in [SUBSET (1 .. 0) -> Int]
    OBVIOUS
  <2> HIDE DEF g
  <2>3. Solves(g, 0)
    BY <2>1, <2>2
  <2> QED
    BY <2>3
<1>2. ASSUME NEW n \in U PROVE n + 1 \in U
  <2> HIDE DEF Solves
  <2>0. n \in Nat /\ n + 1 \in Nat /\ (n <= n0 => \E g : Solves(g, n))
    OBVIOUS
  <2> SUFFICES ASSUME n + 1 <= n0 PROVE \E g : Solves(g, n + 1)
    BY <2>0
  <2>1. PICK g : Solves(g, n)
    BY <2>0
  <2> USE DEF Solves
  <2> DEFINE h == [t \in SUBSET (1 .. n + 1) |->
                      IF n + 1 \in t THEN g[t \ {n + 1}] + L[n + 1] ELSE g[t]]
  <2>2. n \in Nat /\ n + 1 \in Nat /\ n + 1 \in 1 .. n0 /\ L[n + 1] \in Int
    OBVIOUS
  <2>3. \A t \in SUBSET (1 .. n + 1) : t \ {n + 1} \in SUBSET (1 .. n)
    OBVIOUS
  <2>4. \A t \in SUBSET (1 .. n) : n + 1 \notin t /\ t \in SUBSET (1 .. n + 1)
    OBVIOUS
  <2>5. \A t \in SUBSET (1 .. n) : h[t] = g[t]
    BY <2>4
  <2>6. \A t \in SUBSET (1 .. n + 1) : n + 1 \in t => h[t] = g[t \ {n + 1}] + L[n + 1]
    OBVIOUS
  <2>7. h \in [SUBSET (1 .. n + 1) -> Int]
    <3>1. \A t \in SUBSET (1 .. n + 1) : h[t] \in Int
      <4> SUFFICES ASSUME NEW t \in SUBSET (1 .. n + 1) PROVE h[t] \in Int
        OBVIOUS
      <4>1. CASE n + 1 \in t
        BY <4>1, <2>1, <2>2, <2>3, <2>6
      <4>2. CASE n + 1 \notin t
        BY <4>2, <2>1, <2>3
      <4> QED
        BY <4>1, <4>2
    <3> QED
      BY <3>1
  <2> HIDE DEF h
  <2>8. ASSUME NEW t \in SUBSET (1 .. n + 1)
        PROVE  h[t] = IF t = {} THEN 0 ELSE h[t \ {C!Max(t)}] + L[C!Max(t)]
    <3>1. CASE n + 1 \in t
      <4>1. C!Max(t) \in t /\ n + 1 <= C!Max(t)
        BY <2>2, <3>1, LastOf
      <4>2. C!Max(t) \in 1 .. n + 1
        BY <4>1
      <4>3. C!Max(t) = n + 1
        BY <2>2, <4>1, <4>2
      <4>4. h[t \ {n + 1}] = g[t \ {n + 1}]
        BY <2>3, <2>5
      <4> QED
        BY <3>1, <4>3, <4>4, <2>6
    <3>2. CASE n + 1 \notin t /\ t # {}
      <4>1. t \in SUBSET (1 .. n)
        BY <3>2
      <4>2. t \ {C!Max(t)} \in SUBSET (1 .. n)
        BY <4>1
      <4>3. g[t] = g[t \ {C!Max(t)}] + L[C!Max(t)]
        BY <4>1, <3>2, <2>1
      <4> QED
        BY <3>2, <4>1, <4>2, <4>3, <2>5
    <3>3. CASE t = {}
      <4>1. t \in SUBSET (1 .. n) /\ g[t] = 0
        BY <3>3, <2>1
      <4> QED
        BY <3>3, <4>1, <2>5
    <3> QED
      BY <3>1, <3>2, <3>3
  <2> QED
    BY <2>7, <2>8
<1>3. U = Nat
  BY <1>1, <1>2, SetInduction
<1>4. PICK g : Solves(g, n0)
  <2> HIDE DEF Solves
  <2>1. n0 \in U
    BY <1>3
  <2> QED
    BY <2>1
<1>5. g = [t \in SUBSET (1 .. n0) |-> IF t = {} THEN 0 ELSE g[t \ {C!Max(t)}] + L[C!Max(t)]]
  BY <1>4
<1> QED
  BY <1>4, <1>5

Sum(items) == C!FoldLeft(LAMBDA sum, item : sum + C!Length(item), 0, items)

\* E[k] is how long the first k items last.
Elapsed(E, items, n) ==
    /\ E \in [0 .. n -> Int] /\ E[0] = 0
    /\ \A k \in 1 .. n : E[k] = E[k - 1] + C!Length(items[k])

LEMMA SumIsElapsed ==
    ASSUME NEW n \in Nat, NEW items, DOMAIN items = 1 .. n,
           \A k \in 1 .. n : C!Length(items[k]) \in Int
    PROVE  \E E : Elapsed(E, items, n) /\ Sum(items) = E[n]
<1> DEFINE L == [k \in 1 .. n |-> C!Length(items[k])]
           D == DOMAIN items
           iter[t \in SUBSET D] ==
               IF t = {} THEN 0 ELSE LET x == C!Max(t) IN iter[t \ {x}] + C!Length(items[x])
           Table(g) == g = [t \in SUBSET D |-> IF t = {} THEN 0 ELSE g[t \ {C!Max(t)}] + C!Length(items[C!Max(t)])]
           E == [k \in 0 .. n |-> iter[1 .. k]]
<1>1. Sum(items) = iter[D]
  BY DEF Sum, C!FoldLeft, C!MapThenFoldSet
<1>2. L \in [1 .. n -> Int] /\ \A k \in 1 .. n : L[k] = C!Length(items[k])
  OBVIOUS
<1> HIDE DEF L
<1>3. \A t \in SUBSET (1 .. n) : t # {} => C!Max(t) \in 1 .. n /\ L[C!Max(t)] = C!Length(items[C!Max(t)])
  BY <1>2, LastOf
<1>4. PICK g : g = [t \in SUBSET (1 .. n) |->
                         IF t = {} THEN 0 ELSE g[t \ {C!Max(t)}] + L[C!Max(t)]]
               /\ g \in [SUBSET (1 .. n) -> Int]
  BY <1>2, SumTable
<1>5. Table(g)
  BY <1>3, <1>4
<1>6. iter = CHOOSE f : Table(f)
  OBVIOUS
<1>7. Table(iter)
  BY <1>5, <1>6
<1> HIDE DEF iter
<1>8. iter = [t \in SUBSET D |-> IF t = {} THEN 0 ELSE iter[t \ {C!Max(t)}] + C!Length(items[C!Max(t)])]
  BY <1>7
<1> HIDE DEF iter, Table
<1>9. iter[1 .. 0] = 0
  <2>1. 1 .. 0 = {} /\ {} \in SUBSET D
    OBVIOUS
  <2> QED
    BY <1>8, <2>1
<1>10. ASSUME NEW k \in 1 .. n
       PROVE  iter[1 .. k] = iter[1 .. (k - 1)] + C!Length(items[k])
  <2>0. k \in Nat /\ k \in 1 .. k /\ 1 .. k # {}
    <3>1. k \in Nat /\ 1 <= k /\ k <= k
      OBVIOUS
    <3>2. k \in 1 .. k
      BY <3>1
    <3> QED
      BY <3>1, <3>2
  <2>1. 1 .. k \in SUBSET D
    BY <2>0
  <2>2. C!Max(1 .. k) \in 1 .. k /\ k <= C!Max(1 .. k)
    BY <2>0, LastOf
  <2>3. C!Max(1 .. k) = k
    BY <2>0, <2>2
  <2>4. (1 .. k) \ {k} = 1 .. (k - 1)
    OBVIOUS
  <2> QED
    BY <1>8, <2>0, <2>1, <2>3, <2>4
<1> HIDE DEF D
<1> DEFINE U == {k \in Nat : k <= n => iter[1 .. k] \in Int}
<1>11. U = Nat
  <2>1. 0 \in U
    BY <1>9
  <2>2. ASSUME NEW k \in U PROVE k + 1 \in U
    <3> SUFFICES ASSUME k + 1 <= n PROVE iter[1 .. (k + 1)] \in Int
      OBVIOUS
    <3>1. k + 1 \in 1 .. n /\ (k + 1) - 1 = k /\ iter[1 .. k] \in Int
      OBVIOUS
    <3> QED
      BY <1>10, <3>1
  <2> HIDE DEF U
  <2> QED
    BY <2>1, <2>2, SetInduction DEF U
<1>12. \A k \in 0 .. n : E[k] = iter[1 .. k] /\ iter[1 .. k] \in Int
  BY <1>11
<1>13. Elapsed(E, items, n)
  <2>1. E \in [0 .. n -> Int] /\ E[0] = 0
    BY <1>9, <1>12
  <2>2. \A k \in 1 .. n : k \in 0 .. n /\ k - 1 \in 0 .. n
    OBVIOUS
  <2> HIDE DEF E
  <2> QED
    BY <2>1, <2>2, <1>10, <1>12 DEF Elapsed
<1>14. Sum(items) = E[n]
  BY <1>1, <1>12 DEF D
<1> QED
  BY <1>13, <1>14

\* What elapses before an item depends on the lengths before it.
LEMMA SameElapsed ==
    ASSUME NEW m \in Nat, NEW n \in Nat, m <= n, NEW items, NEW others, NEW E, NEW Q,
           Elapsed(E, items, n), Elapsed(Q, others, m),
           \A k \in 1 .. m : C!Length(items[k]) = C!Length(others[k])
    PROVE  Q[m] = E[m]
<1> DEFINE U == {k \in Nat : k <= m => Q[k] = E[k]}
<1>1. 0 \in U
  BY DEF Elapsed
<1>2. ASSUME NEW k \in U PROVE k + 1 \in U
  <2> SUFFICES ASSUME k + 1 <= m PROVE Q[k + 1] = E[k + 1]
    OBVIOUS
  <2>1. k + 1 \in 1 .. m /\ k + 1 \in 1 .. n /\ (k + 1) - 1 = k /\ Q[k] = E[k]
    OBVIOUS
  <2> QED
    BY <2>1 DEF Elapsed
<1>3. U = Nat
  BY <1>1, <1>2, SetInduction
<1> QED
  BY <1>3

\* Items that all last some time start one after another.
LEMMA ElapsedGrows ==
    ASSUME NEW n \in Nat, NEW items, NEW E, Elapsed(E, items, n),
           \A k \in 1 .. n : C!Length(items[k]) \in Nat \ {0}
    PROVE  \A j \in 0 .. n : E[j] \in Nat /\ \A i \in 0 .. (j - 1) : E[i] < E[j]
<1> DEFINE U == {j \in Nat : j <= n => E[j] \in Nat /\ \A i \in 0 .. (j - 1) : E[i] < E[j]}
<1>1. 0 \in U
  BY DEF Elapsed
<1>2. ASSUME NEW j \in U PROVE j + 1 \in U
  <2> SUFFICES ASSUME j + 1 <= n PROVE E[j + 1] \in Nat /\ \A i \in 0 .. j : E[i] < E[j + 1]
    OBVIOUS
  <2>1. j + 1 \in 1 .. n /\ (j + 1) - 1 = j /\ j \in 0 .. n /\ E[j] \in Nat
        /\ \A i \in 0 .. (j - 1) : E[i] < E[j]
    OBVIOUS
  <2>2. E[j + 1] = E[j] + C!Length(items[j + 1]) /\ C!Length(items[j + 1]) \in Nat \ {0}
    BY <2>1 DEF Elapsed
  <2>3. \A i \in 0 .. n : E[i] \in Int
    BY DEF Elapsed
  <2>4. \A i \in 0 .. j : i \in 0 .. n /\ (i = j \/ i \in 0 .. (j - 1))
    BY <2>1
  <2> QED
    BY <2>1, <2>2, <2>3, <2>4
<1>3. U = Nat
  BY <1>1, <1>2, SetInduction
<1> QED
  BY <1>3

-----------------------------------------------------------------------------
Places == 1 .. Cardinality(Takes)

\* One clip of some length for each shot.
Whole(items) ==
    /\ items \in [Places -> C!Items]
    /\ \A i \in Places : C!Length(items[i]) \in Nat \ {0}
    /\ \A i, j \in Places : items[i].take = items[j].take => i = j
    /\ \A take \in Takes : \E i \in Places : items[i].take = take

\* They follow each other from the start of the video, and it lasts as long.
InARow(items) ==
    /\ items[1].start = 0
    /\ \A i \in 1 .. Cardinality(Takes) - 1 : items[i].end = items[i + 1].start
    /\ \A i, j \in Places : i < j => items[i].start < items[j].start
    /\ items[Cardinality(Takes)].end = Sum(items)

LEMMA PlacesAre ==
    /\ Cardinality(Takes) \in Nat \ {0} /\ 1 \in Places /\ Cardinality(Takes) \in Places
    /\ IsFiniteSet(Places) /\ Cardinality(Places) = Cardinality(Takes)
<1>1. Cardinality(Takes) \in Nat /\ Cardinality(Takes) # 0
  BY CutAssumption, FS_CardinalityType, FS_EmptySet DEF CutAssumption
<1>2. IsFiniteSet(Places) /\ Cardinality(Places) = Cardinality(Takes)
  BY <1>1, FS_Interval DEF Places
<1> QED
  BY <1>1, <1>2 DEF Places

\* Cut counts as this module does.
LEMMA SameCount == ASSUME NEW U PROVE C!Cardinality(U) = Cardinality(U)
BY DEF C!Cardinality, Cardinality, C!IsFiniteSet, IsFiniteSet

\* LaidOut moves the clips and leaves their lengths.
LEMMA LaidOutIsInARow ==
    ASSUME NEW items, Whole(items)
    PROVE  LET laid == C!LaidOut(items)
           IN  /\ Whole(laid) /\ InARow(laid)
               /\ \A i \in Places : /\ laid[i].take = items[i].take /\ laid[i].logo = items[i].logo
                                    /\ C!Length(laid[i]) = C!Length(items[i])
<1> DEFINE n == Cardinality(Takes)
           laid == C!LaidOut(items)
           before(i) == Sum(SubSeq(items, 1, i - 1))
<1>1. n \in Nat \ {0} /\ Places = 1 .. n
  BY PlacesAre DEF Places
<1>2. PICK E : Elapsed(E, items, n) /\ Sum(items) = E[n]
  BY <1>1, SumIsElapsed DEF Whole
<1>3. \A j \in 0 .. n : E[j] \in Nat /\ \A i \in 0 .. (j - 1) : E[i] < E[j]
  BY <1>1, <1>2, ElapsedGrows DEF Whole
<1>4. ASSUME NEW i \in Places PROVE before(i) = E[i - 1]
  <2> DEFINE head == SubSeq(items, 1, i - 1)
  <2>1. i - 1 \in Nat /\ i - 1 <= n
    BY <1>1
  <2>2. DOMAIN head = 1 .. (i - 1) /\ \A k \in 1 .. (i - 1) : k \in Places /\ head[k] = items[k]
    BY <1>1, <2>1
  <2> HIDE DEF head
  <2>3. PICK Q : Elapsed(Q, head, i - 1) /\ Sum(head) = Q[i - 1]
    <3>1. \A k \in 1 .. (i - 1) : C!Length(head[k]) \in Int
      BY <2>2 DEF Whole
    <3> QED
      BY <2>1, <2>2, <3>1, SumIsElapsed
  <2>4. Q[i - 1] = E[i - 1]
    BY <1>1, <1>2, <2>1, <2>2, <2>3, SameElapsed
  <2> QED
    BY <2>3, <2>4 DEF head
<1>5. laid = [i \in Places |-> [items[i] EXCEPT !.start = before(i), !.end = before(i) + C!Length(items[i])]]
  BY DEF C!LaidOut, Sum, Whole
<1> HIDE DEF laid, before
<1>6. ASSUME NEW i \in Places
      PROVE  /\ laid[i] \in C!Items /\ laid[i].take = items[i].take /\ laid[i].logo = items[i].logo
             /\ laid[i].start = E[i - 1] /\ laid[i].end = E[i] /\ C!Length(laid[i]) = C!Length(items[i])
  <2>1. items[i] \in C!Items /\ C!Length(items[i]) \in Nat \ {0}
    BY DEF Whole
  <2>2. i \in 1 .. n /\ i \in 0 .. n /\ i - 1 \in 0 .. n
    BY <1>1
  <2>3. E[i - 1] \in Nat /\ E[i] = E[i - 1] + C!Length(items[i]) /\ E[i] \in Nat
    BY <1>2, <1>3, <2>2 DEF Elapsed
  <2>4. laid[i] = [items[i] EXCEPT !.start = E[i - 1], !.end = E[i]]
    BY <1>4, <1>5, <2>3
  <2>5. /\ laid[i] \in C!Items /\ laid[i].take = items[i].take /\ laid[i].logo = items[i].logo
        /\ laid[i].start = E[i - 1] /\ laid[i].end = E[i]
    BY <2>1, <2>3, <2>4 DEF C!Items
  <2>6. C!Length(laid[i]) = C!Length(items[i])
    BY <2>1, <2>3, <2>5 DEF C!Length
  <2> QED
    BY <2>5, <2>6
<1>7. DOMAIN laid = Places
  BY <1>5
<1>8. Whole(laid)
  <2>1. laid \in [Places -> C!Items]
    BY <1>5, <1>6
  <2> QED
    BY <1>6, <2>1 DEF Whole
<1>9. PICK Q : Elapsed(Q, laid, n) /\ Sum(laid) = Q[n]
  BY <1>1, <1>7, <1>8, SumIsElapsed DEF Whole
<1>10. Sum(laid) = E[n]
  BY <1>1, <1>2, <1>6, <1>9, SameElapsed
<1>11. InARow(laid)
  <2>1. laid[1].start = 0
    BY <1>1, <1>2, <1>6 DEF Elapsed
  <2>2. ASSUME NEW i \in 1 .. n - 1 PROVE laid[i].end = laid[i + 1].start
    <3>1. i \in Places /\ i + 1 \in Places /\ (i + 1) - 1 = i
      BY <1>1
    <3> QED
      BY <1>6, <3>1
  <2>3. ASSUME NEW i \in Places, NEW j \in Places, i < j PROVE laid[i].start < laid[j].start
    <3>1. j - 1 \in 0 .. n /\ i - 1 \in 0 .. ((j - 1) - 1)
      BY <1>1, <2>3
    <3> QED
      BY <1>3, <1>6, <3>1
  <2>4. laid[n].end = Sum(laid)
    BY <1>1, <1>6, <1>10
  <2> QED
    BY <2>1, <2>2, <2>3, <2>4 DEF InARow
<1>12. Whole(laid) /\ InARow(laid)
       /\ \A i \in Places : /\ laid[i].take = items[i].take /\ laid[i].logo = items[i].logo
                            /\ C!Length(laid[i]) = C!Length(items[i])
  BY <1>6, <1>8, <1>11
<1> QED
  BY <1>12 DEF laid

Wishes == [lengths : [Takes -> Lengths], logo : Logos \cup {C!NoLogo}]

\* The clips last as long as they were asked to.
AsLongAs(items, wish) == \A i \in Places : C!Length(items[i]) = wish.lengths[items[i].take]

CutInv ==
    /\ Whole(stored) /\ InARow(stored) /\ Whole(work)
    /\ asked \in [committed : Wishes, open : Wishes]
    /\ AsLongAs(stored, asked.committed) /\ AsLongAs(work, asked.open)
    /\ ~shifted => stored[1].logo = asked.committed.logo /\ work[1].logo = asked.open.logo

\* A one-to-one map into a set of the same size reaches all of it.
LEMMA OneToOneIsOnto ==
    ASSUME NEW U, IsFiniteSet(U), Cardinality(U) = Cardinality(Takes),
           NEW f \in [Places -> U], \A i, j \in Places : f[i] = f[j] => i = j
    PROVE  \A u \in U : \E i \in Places : f[i] = u
<1>1. f \in Injection(Places, U)
  BY DEF Injection, IsInjective
<1>2. f \in Surjection(Places, U)
  BY <1>1, PlacesAre, FS_Injection
<1> QED
  BY <1>2 DEF Surjection

-----------------------------------------------------------------------------
\* The first timeline has a clip for each take, in some order.
LEMMA CutInit == C!Init => CutInv
<1> SUFFICES ASSUME C!Init PROVE CutInv
  OBVIOUS
<1> DEFINE takes == C!SetToSeq(Takes)
<1>1. takes \in [Places -> Takes] /\ \A i, j \in Places : takes[i] = takes[j] => i = j
  <2>1. ExistsBijection(Places, Takes)
    BY PlacesAre, CutAssumption, FS_SameCardinalityBij DEF CutAssumption
  <2>2. PICK f \in [Places -> Takes] : C!IsInjective(f)
    BY <2>1 DEF ExistsBijection, Bijection, Injection, IsInjective, C!IsInjective
  <2>3. takes \in [Places -> Takes] /\ C!IsInjective(takes)
    BY <2>2, SameCount DEF C!SetToSeq, Places
  <2> QED
    BY <2>3 DEF C!IsInjective
<1> HIDE DEF takes
<1>2. \A take \in Takes : \E i \in Places : takes[i] = take
  BY <1>1, OneToOneIsOnto, CutAssumption DEF CutAssumption
<1>3. PICK lengths \in [Takes -> Lengths] :
        /\ stored = C!BuildTimeline(takes, lengths) /\ work = stored
        /\ asked = [committed |-> [lengths |-> lengths, logo |-> C!NoLogo],
                    open |-> [lengths |-> lengths, logo |-> C!NoLogo]]
  BY DEF C!Init, takes
<1> DEFINE drawn == [i \in Places |-> [take |-> takes[i], start |-> 0, end |-> lengths[takes[i]],
                                       logo |-> C!NoLogo]]
<1>4. \A i \in Places : /\ takes[i] \in Takes /\ lengths[takes[i]] \in Nat \ {0}
                        /\ drawn[i].take = takes[i] /\ drawn[i].logo = C!NoLogo
                        /\ drawn[i].start = 0 /\ drawn[i].end = lengths[takes[i]]
  BY <1>1, CutAssumption DEF CutAssumption
<1>5. drawn \in [Places -> C!Items]
  BY <1>4 DEF C!Items
<1>6. stored = C!LaidOut(drawn)
  BY <1>1, <1>3 DEF C!BuildTimeline
<1> HIDE DEF drawn
<1>7. \A i \in Places : C!Length(drawn[i]) = lengths[drawn[i].take] /\ drawn[i].take = takes[i]
                        /\ drawn[i].logo = C!NoLogo
  <2> SUFFICES ASSUME NEW i \in Places
               PROVE  /\ C!Length(drawn[i]) = lengths[drawn[i].take]
                      /\ drawn[i].take = takes[i] /\ drawn[i].logo = C!NoLogo
    OBVIOUS
  <2>1. /\ drawn[i].take = takes[i] /\ drawn[i].logo = C!NoLogo
        /\ drawn[i].start = 0 /\ drawn[i].end = lengths[takes[i]] /\ lengths[takes[i]] \in Nat
    BY <1>4
  <2> QED
    BY <2>1 DEF C!Length
<1>8. Whole(drawn)
  BY <1>1, <1>2, <1>4, <1>5, <1>7 DEF Whole
<1>9. Whole(stored) /\ InARow(stored)
      /\ \A i \in Places : /\ stored[i].take = takes[i] /\ stored[i].logo = C!NoLogo
                           /\ C!Length(stored[i]) = lengths[takes[i]]
  BY <1>6, <1>7, <1>8, LaidOutIsInARow
<1>10. asked \in [committed : Wishes, open : Wishes]
  BY <1>3 DEF Wishes
<1> QED
  BY <1>3, <1>9, <1>10, PlacesAre DEF CutInv, AsLongAs

\* An operation that moves and trims the clips of the copy as its wish says.
LEMMA WishedKeeps ==
    ASSUME CutInv, NEW wish \in Wishes, asked' = [asked EXCEPT !.open = wish], UNCHANGED stored,
           Whole(work'), AsLongAs(work', wish), shifted => shifted', ~shifted' => work'[1].logo = wish.logo
    PROVE  CutInv'
<1>1. /\ asked' \in [committed : Wishes, open : Wishes]
      /\ asked'.committed = asked.committed /\ asked'.open = wish
  BY DEF CutInv
<1>2. Whole(stored) /\ InARow(stored) /\ AsLongAs(stored, asked.committed)
      /\ ~shifted => stored[1].logo = asked.committed.logo
  BY DEF CutInv
<1> QED
  BY <1>1, <1>2 DEF CutInv

LEMMA ReorderKeeps ==
    ASSUME CutInv, NEW order \in C!Orders, C!Reorder(order)
    PROVE  CutInv'
<1> DEFINE moved == [i \in Places |-> work[order[i]]]
<1>1. Whole(work) /\ AsLongAs(work, asked.open) /\ DOMAIN work = Places /\ asked.open \in Wishes
  BY DEF CutInv, Whole
<1>2. order \in [Places -> Places] /\ \A i, j \in Places : order[i] = order[j] => i = j
  BY <1>1 DEF C!Orders, C!IsInjective
<1>3. \A j \in Places : \E i \in Places : order[i] = j
  BY <1>2, PlacesAre, OneToOneIsOnto
<1>4. /\ work' = C!LaidOut(moved) /\ UNCHANGED stored
      /\ asked' = [asked EXCEPT !.open = [lengths |-> asked.open.lengths, logo |-> asked.open.logo]]
      /\ shifted' = (shifted \/ (order[1] # 1 /\ \E i \in Places : work[i].logo # C!NoLogo))
  BY <1>1 DEF C!Reorder, C!Edit
<1>5. \A i \in Places : moved[i] = work[order[i]] /\ order[i] \in Places
  BY <1>2
<1> HIDE DEF moved
<1>6. Whole(moved)
  <2>1. moved \in [Places -> C!Items]
    BY <1>1, <1>2 DEF moved, Whole
  <2>2. \A take \in Takes : \E i \in Places : moved[i].take = take
    BY <1>1, <1>3, <1>5 DEF Whole
  <2> QED
    BY <1>1, <1>2, <1>5, <2>1, <2>2 DEF Whole
<1>7. Whole(work') /\ \A i \in Places : /\ work'[i].take = moved[i].take /\ work'[i].logo = moved[i].logo
                                        /\ C!Length(work'[i]) = C!Length(moved[i])
  BY <1>4, <1>6, LaidOutIsInARow
<1>8. AsLongAs(work', asked.open)
  BY <1>1, <1>5, <1>7 DEF AsLongAs
<1>9. ASSUME ~shifted' PROVE work'[1].logo = asked.open.logo
  <2>1. ~shifted /\ work[1].logo = asked.open.logo /\ 1 \in Places
    BY <1>4, <1>9, PlacesAre DEF CutInv
  <2>2. work'[1].logo = work[order[1]].logo /\ order[1] \in Places
    BY <1>5, <1>7, <2>1
  <2> QED
    BY <1>4, <1>9, <2>1, <2>2
<1>10. [lengths |-> asked.open.lengths, logo |-> asked.open.logo] = asked.open
  BY <1>1 DEF Wishes
<1> QED
  BY <1>1, <1>4, <1>7, <1>8, <1>9, <1>10, WishedKeeps

LEMMA TrimKeeps ==
    ASSUME CutInv, NEW p \in DOMAIN work, NEW length \in Lengths, C!Trim(p, length)
    PROVE  CutInv'
<1> DEFINE wish == [lengths |-> [asked.open.lengths EXCEPT ![work[p].take] = length], logo |-> asked.open.logo]
<1>1. /\ Whole(work) /\ AsLongAs(work, asked.open) /\ work \in [Places -> C!Items]
      /\ asked.open \in Wishes /\ p \in Places /\ length \in Nat \ {0}
  BY CutAssumption DEF CutInv, Whole, CutAssumption
<1>2. /\ work' = [work EXCEPT ![p].end = work[p].start + length]
      /\ asked' = [asked EXCEPT !.open = wish] /\ UNCHANGED <<stored, shifted>>
  BY DEF C!Trim, C!Edit
<1>3. \A i \in Places : work[i].take \in Takes /\ work[i].start \in Nat /\ work[i] \in C!Items
  BY <1>1 DEF C!Items
<1>4. wish \in Wishes
  BY <1>1, <1>3 DEF Wishes
<1>5. wish.logo = asked.open.logo
      /\ \A take \in Takes : wish.lengths[take] = IF take = work[p].take THEN length ELSE asked.open.lengths[take]
  BY <1>1, <1>3 DEF Wishes
<1> HIDE DEF wish
<1>6. /\ work' \in [Places -> C!Items]
      /\ \A i \in Places : /\ work'[i].take = work[i].take /\ work'[i].logo = work[i].logo
                           /\ i # p => C!Length(work'[i]) = C!Length(work[i])
      /\ C!Length(work'[p]) = length
  <2>1. \A i \in Places \ {p} : work'[i] = work[i]
    BY <1>1, <1>2
  <2>2. work'[p] = [work[p] EXCEPT !.end = work[p].start + length]
    BY <1>1, <1>2
  <2>3. /\ work'[p] \in C!Items /\ work'[p].take = work[p].take /\ work'[p].logo = work[p].logo
        /\ work'[p].start = work[p].start /\ work'[p].end = work[p].start + length
    BY <1>1, <1>3, <2>2 DEF C!Items
  <2>4. C!Length(work'[p]) = length
    BY <1>1, <1>3, <2>3 DEF C!Length
  <2>5. work' \in [Places -> C!Items]
    BY <1>1, <1>2, <2>1, <2>3
  <2> QED
    BY <2>1, <2>3, <2>4, <2>5
<1>7. Whole(work')
  BY <1>1, <1>6 DEF Whole
<1>8. AsLongAs(work', wish)
  BY <1>1, <1>3, <1>5, <1>6 DEF AsLongAs, Whole
<1> QED
  BY <1>2, <1>4, <1>5, <1>6, <1>7, <1>8, WishedKeeps, PlacesAre DEF CutInv

LEMMA SetLogoKeeps ==
    ASSUME CutInv, NEW logo \in Logos \cup {C!NoLogo}, C!SetLogo(logo)
    PROVE  CutInv'
<1> DEFINE wish == [lengths |-> asked.open.lengths, logo |-> logo]
<1>1. /\ Whole(work) /\ AsLongAs(work, asked.open) /\ work \in [Places -> C!Items]
      /\ asked.open \in Wishes /\ 1 \in Places
  BY PlacesAre DEF CutInv, Whole
<1>2. /\ work' = [work EXCEPT ![1].logo = logo]
      /\ asked' = [asked EXCEPT !.open = wish] /\ UNCHANGED <<stored, shifted>>
  BY DEF C!SetLogo, C!Edit
<1>3. wish \in Wishes /\ wish.logo = logo /\ wish.lengths = asked.open.lengths
  BY <1>1 DEF Wishes
<1> HIDE DEF wish
<1>4. /\ \A i \in Places \ {1} : work'[i] = work[i]
      /\ work'[1] = [work[1] EXCEPT !.logo = logo]
  BY <1>1, <1>2
<1>5. /\ work'[1] \in C!Items /\ work'[1].logo = logo /\ work'[1].take = work[1].take
      /\ work'[1].start = work[1].start /\ work'[1].end = work[1].end
  BY <1>1, <1>4 DEF C!Items
<1>6. work' \in [Places -> C!Items]
  BY <1>1, <1>2, <1>4, <1>5
<1>7. \A i \in Places : work'[i].take = work[i].take /\ C!Length(work'[i]) = C!Length(work[i])
  BY <1>4, <1>5 DEF C!Length
<1>8. Whole(work') /\ AsLongAs(work', wish)
  BY <1>1, <1>3, <1>6, <1>7 DEF Whole, AsLongAs
<1> QED
  BY <1>2, <1>3, <1>5, <1>8, WishedKeeps

LEMMA CutNext ==
    ASSUME CutInv, C!Next
    PROVE  CutInv'
<1>1. CASE \E order \in C!Orders : C!Reorder(order)
  BY <1>1, ReorderKeeps
<1>2. CASE \E p \in DOMAIN work, length \in Lengths : C!Trim(p, length)
  BY <1>2, TrimKeeps
<1>3. CASE \E logo \in Logos \cup {C!NoLogo} : C!SetLogo(logo)
  BY <1>3, SetLogoKeeps
<1>4. CASE C!Store
  <2>1. /\ stored' = C!LaidOut(work) /\ work' = stored' /\ UNCHANGED shifted
        /\ asked' = [asked EXCEPT !.committed = asked.open]
    BY <1>4 DEF C!Store
  <2>2. Whole(work) /\ asked \in [committed : Wishes, open : Wishes]
    BY DEF CutInv
  <2>3. Whole(stored') /\ InARow(stored')
        /\ \A i \in Places : /\ stored'[i].take = work[i].take /\ stored'[i].logo = work[i].logo
                             /\ C!Length(stored'[i]) = C!Length(work[i])
    BY <2>1, <2>2, LaidOutIsInARow
  <2>4. /\ asked' \in [committed : Wishes, open : Wishes]
        /\ asked'.committed = asked.open /\ asked'.open = asked.open
    BY <2>1, <2>2
  <2>5. AsLongAs(stored', asked.open)
    BY <2>3 DEF CutInv, AsLongAs
  <2> QED
    BY <2>1, <2>3, <2>4, <2>5, PlacesAre DEF CutInv
<1>5. CASE C!Refuse
  <2>1. /\ work' = stored /\ UNCHANGED <<stored, shifted>> /\ asked' = [asked EXCEPT !.open = asked.committed]
    BY <1>5 DEF C!Refuse
  <2>2. /\ asked' \in [committed : Wishes, open : Wishes]
        /\ asked'.committed = asked.committed /\ asked'.open = asked.committed
    BY <2>1 DEF CutInv
  <2> QED
    BY <2>1, <2>2 DEF CutInv
<1> QED
  BY <1>1, <1>2, <1>3, <1>4, <1>5 DEF C!Next

LEMMA CutAlways == Spec => []CutInv
<1>1. Init => CutInv
  BY CutInit DEF Init
<1>2. CutInv /\ [Next]_vars => CutInv'
  <2> SUFFICES ASSUME CutInv, [Next]_vars PROVE CutInv'
    OBVIOUS
  <2>1. CASE C!Next
    BY <2>1, CutNext
  <2>2. CASE UNCHANGED cut
    BY <2>2 DEF cut, CutInv
  <2> QED
    BY <2>1, <2>2 DEF Next, vars, TruthMoves, GoodsMove, StoryMoves, PostMoves, CutMoves,
                      MediaMove, StaffMoves, SignMoves, BrandMoves, RouterMoves
<1> QED
  BY <1>1, <1>2, PTL DEF Spec

\* Sorting clips that are in a row changes nothing.
LEMMA EncodedIsStored ==
    ASSUME CutInv
    PROVE  C!Encoded = stored
<1> DEFINE Before(k, i) == \/ stored[k].start < stored[i].start
                           \/ stored[k].start = stored[i].start /\ k < i
           Nth(m) == CHOOSE i \in DOMAIN stored :
                       C!Cardinality({k \in DOMAIN stored : Before(k, i)}) = m - 1
<1>1. /\ Cardinality(Takes) \in Nat /\ Places = 1 .. Cardinality(Takes) /\ DOMAIN stored = Places
      /\ stored \in [Places -> C!Items]
      /\ \A i, j \in Places : i < j => stored[i].start < stored[j].start
      /\ \A i \in Places : stored[i].start \in Nat
  BY PlacesAre DEF CutInv, Whole, InARow, Places, C!Items
<1>2. ASSUME NEW i \in Places PROVE C!Cardinality({k \in DOMAIN stored : Before(k, i)}) = i - 1
  <2>1. \A k \in Places : Before(k, i) <=> k < i
    BY <1>1
  <2> HIDE DEF Before
  <2>2. {k \in DOMAIN stored : Before(k, i)} = 1 .. (i - 1)
    BY <1>1, <2>1
  <2>3. Cardinality(1 .. (i - 1)) = i - 1
    BY <1>1, FS_Interval
  <2> QED
    BY <2>2, <2>3, SameCount
<1>3. C!Encoded = [m \in DOMAIN stored |-> stored[Nth(m)]]
  BY DEF C!Encoded
<1>4. ASSUME NEW m \in Places PROVE Nth(m) = m
  <2> HIDE DEF Before
  <2>1. Nth(m) \in Places /\ C!Cardinality({k \in DOMAIN stored : Before(k, Nth(m))}) = m - 1
    BY <1>1, <1>2
  <2> HIDE DEF Nth
  <2> QED
    BY <1>1, <1>2, <2>1
<1> HIDE DEF Nth
<1> QED
  BY <1>1, <1>3, <1>4

\* editor.py, _resequence, and render/plan.py: whatever batches of reorders,
\* trims and logos are stored or refused, the plan encodes each shot's clip
\* once, in the stored order, with no gap and no overlap.
THEOREM TakesAreEncodedOnce == Spec => []EveryTakeOnce
<1>1. ASSUME CutInv PROVE EveryTakeOnce
  <2>1. C!Encoded = stored
    BY <1>1, EncodedIsStored
  <2>2. stored \in [Places -> C!Items] /\ DOMAIN stored = Places /\ Len(stored) = Cardinality(Takes)
    BY <1>1, PlacesAre DEF CutInv, Whole, Places
  <2>3. /\ \A take \in Takes : \E i \in Places : stored[i].take = take
        /\ stored[1].start = 0
        /\ \A i \in 1 .. Len(stored) - 1 : stored[i].end = stored[i + 1].start
    BY <1>1, <2>2 DEF CutInv, Whole, InARow
  <2> QED
    BY <2>1, <2>2, <2>3 DEF EveryTakeOnce, C!EveryTakeOnce
<1> QED
  BY <1>1, CutAlways, PTL

\* editor.py, _trim and _set_logo, and render/plan.py: each clip has the length
\* last asked for it, the duration quality control expects is the sum of these,
\* and the logo is the one last set, unless a reorder moved it off the start.
THEOREM CutsAreAsAsked == Spec => []CutAsAsked
<1>1. ASSUME CutInv PROVE CutAsAsked
  <2>1. DOMAIN stored = Places /\ Len(stored) = Cardinality(Takes)
    BY <1>1, PlacesAre DEF CutInv, Whole, Places
  <2>2. C!ExpectedDuration = Sum(stored)
    BY <1>1, <2>1 DEF CutInv, InARow, C!ExpectedDuration
  <2> QED
    BY <1>1, <2>1, <2>2 DEF CutInv, AsLongAs, Sum, CutAsAsked, C!CutAsAsked, C!LogoOverlay
<1> QED
  BY <1>1, CutAlways, PTL
-----------------------------------------------------------------------------
(* Types.                                                                  *)

\* Only the opening of a completion counts one.
MediaIsCounted == MediaInv /\ mediaRequests \in 0 .. MaxRequests.media

LEMMA MediaIsTyped == Spec => []M!TypeOK
<1>1. Init => MediaIsCounted
  BY MediaInit, BoundsAssumption DEF Init, M!Init, MediaIsCounted
<1>2. MediaIsCounted /\ [Next]_vars => MediaIsCounted'
  <2> SUFFICES ASSUME MediaIsCounted, [Next]_vars PROVE MediaIsCounted'
    OBVIOUS
  <2>1. [M!Next]_M!vars /\ MediaInv /\ mediaRequests \in Nat /\ mediaRequests <= MaxRequests.media
        /\ MaxRequests.media \in Nat
    BY MediaSteps, BoundsAssumption DEF MediaIsCounted
  <2>2. \/ mediaRequests' = mediaRequests
        \/ mediaRequests' = mediaRequests + 1 /\ mediaRequests < MaxRequests.media
    <3>1. \A s \in Sessions :
            M!Head(s) \/ M!ReadPrefix(s) \/ M!Populate(s) \/ M!ProbeFails(s) => mediaRequests' = mediaRequests
      BY DEF M!Head, M!ReadPrefix, M!Populate, M!ProbeFails, M!Reject, M!Check
    <3>2. \A s \in Sessions :
            M!CommitReady(s) \/ M!MarkFailed(s) \/ M!DeleteObject(s) \/ M!Fail(s) => mediaRequests' = mediaRequests
      BY DEF M!CommitReady, M!MarkFailed, M!DeleteObject, M!Fail
    <3>3. /\ \A a \in Uploads : M!Presign(a) => mediaRequests' = mediaRequests
          /\ \A a \in Uploads, content \in M!Contents : M!Put(a, content) => mediaRequests' = mediaRequests
          /\ \A g \in Generated : M!IngestCommit(g) => mediaRequests' = mediaRequests
          /\ \A g \in Generated, content \in M!Contents : M!IngestUpload(g, content) => mediaRequests' = mediaRequests
      BY DEF M!Presign, M!Put, M!IngestCommit, M!IngestUpload
    <3>4. \A s \in Sessions, a \in Uploads : M!Complete(s, a) =>
            mediaRequests' = mediaRequests + 1 /\ mediaRequests < MaxRequests.media
      BY DEF M!Complete
    <3>5. M!Next \/ UNCHANGED M!vars
      BY <2>1
    <3>6. UNCHANGED M!vars => mediaRequests' = mediaRequests
      BY DEF M!vars
    <3>7. QED
      BY <3>1, <3>2, <3>3, <3>4, <3>5, <3>6 DEF M!Next
  <2>3. mediaRequests' \in 0 .. MaxRequests.media
    BY <2>1, <2>2
  <2> QED
    BY <2>1, <2>3, MediaNext DEF MediaIsCounted
<1>3. MediaIsCounted => M!TypeOK
  <2> SUFFICES ASSUME MediaIsCounted PROVE M!TypeOK
    OBVIOUS
  <2>1. \A a \in M!Assets : M!Status(a) \in M!UploadStatuses \cup {"none"} /\ objects[a] \in M!Contents \cup {"none"}
    BY DEF MediaIsCounted, MediaInv, MediaTypes, M!Status, Measured
  <2>2. \A s \in Sessions : mediaTx[s].at \in {"none", "read", "sized", "signed", "verified", "rejected", "marked"}
    BY DEF MediaIsCounted, MediaInv, MediaTypes, Completions
  <2> QED
    BY <2>1, <2>2 DEF M!TypeOK, MediaIsCounted
<1> QED
  BY <1>1, <1>2, <1>3, PTL DEF Spec

\* What a request waits to enqueue is the key of a job that was committed, and
\* a job names a row of renders that was.
PostKeyed ==
    /\ \A s \in Sessions : postTx[s].at = "enqueue" => postTx[s].key \in DOMAIN postJobs
    /\ queue \subseteq DOMAIN postJobs
    /\ \A k \in DOMAIN postJobs : postJobs[k].render \in 0 .. P!Latest
    /\ postRequests \in 0 .. MaxRequests.post

\* A job is made with the render that is committed with it, or with none.
LEMMA CreatedKeyed ==
    ASSUME PostInv, PostKeyed, NEW key, NEW v \in Nat, v <= P!Latest', P!Latest <= P!Latest', P!Latest' \in Nat,
           postJobs' = P!Created(key, v), UNCHANGED <<queue, postRequests>>,
           NEW s \in Sessions, P!ThenEnqueue(s, key)
    PROVE  PostKeyed'
<1>1. DOMAIN postJobs' = DOMAIN postJobs \cup {key}
  BY DEF P!Created
<1>2. P!Latest \in Nat
  BY DEF PostInv, PostTypes, P!Latest
<1>3. \A k \in DOMAIN postJobs' : postJobs'[k].render = IF k = key THEN v ELSE postJobs[k].render
  BY DEF P!Created
<1>4. /\ DOMAIN postTx' = Sessions /\ postTx'[s].key = key
      /\ \A o \in Sessions \ {s} : postTx'[o] = postTx[o]
  BY DEF P!ThenEnqueue, PostInv, PostTypes
<1>5. \A o \in Sessions : postTx'[o].at = "enqueue" => postTx'[o].key \in DOMAIN postJobs'
  BY <1>1, <1>4 DEF PostKeyed
<1>6. \A k \in DOMAIN postJobs' : postJobs'[k].render \in 0 .. P!Latest'
  BY <1>1, <1>2, <1>3 DEF PostKeyed
<1> QED
  BY <1>1, <1>5, <1>6 DEF PostKeyed

\* The jobs and their keys stay, and nobody comes to wait for another.
LEMMA KeyedKept ==
    ASSUME PostInv, PostKeyed, DOMAIN postJobs' = DOMAIN postJobs,
           \A k \in DOMAIN postJobs : postJobs'[k].render = postJobs[k].render,
           P!Latest' \in Nat, P!Latest <= P!Latest',
           queue' \subseteq DOMAIN postJobs,
           \A s \in Sessions : postTx'[s] = postTx[s] \/ postTx'[s].at # "enqueue",
           \/ postRequests' = postRequests
           \/ postRequests' = postRequests + 1 /\ postRequests < MaxRequests.post
    PROVE  PostKeyed'
<1>1. P!Latest \in Nat
  BY DEF PostInv, PostTypes, P!Latest
<1>2. \A k \in DOMAIN postJobs' : postJobs'[k].render \in 0 .. P!Latest'
  BY <1>1 DEF PostKeyed
<1>3. postRequests' \in 0 .. MaxRequests.post
  <2>1. MaxRequests.post \in Nat
    BY BoundsAssumption
  <2> QED
    BY <2>1 DEF PostKeyed
<1>4. \A s \in Sessions : postTx'[s].at = "enqueue" => postTx'[s].key \in DOMAIN postJobs'
  BY DEF PostKeyed
<1> QED
  BY <1>2, <1>3, <1>4 DEF PostKeyed

LEMMA PostKeyedNext ==
    ASSUME PostInv, PostKeyed, [P!Next]_P!vars
    PROVE  PostKeyed'
<1>1. P!Latest \in Nat /\ DOMAIN postTx = Sessions /\ renders \in Seq(Cuts) /\ queue \subseteq DOMAIN postJobs
  BY DEF PostInv, PostTypes, P!Latest, PostKeyed
<1>2. ASSUME NEW s \in Sessions, NEW t, P!Open(s, t), t.at \in {"read", "empty", "composed"}
      PROVE  PostKeyed'
  <2>1. /\ UNCHANGED <<renders, postJobs, queue>> /\ P!Latest' = P!Latest
        /\ postRequests < MaxRequests.post /\ postRequests' = postRequests + 1
    BY <1>2 DEF P!Open, P!Latest
  <2>2. \A o \in Sessions : postTx'[o] = postTx[o] \/ postTx'[o].at # "enqueue"
    BY <1>1, <1>2 DEF P!Open
  <2> QED
    BY <1>1, <2>1, <2>2, KeyedKept
<1>3. ASSUME NEW s \in Sessions,
             P!Voiceover(s) \/ P!OpenDraft(s) \/ P!CreateRender(s) \/ P!Rerender(s) \/ \E e \in Edits : P!ApplyEdits(s, e)
      PROVE  PostKeyed'
  <2>1. ASSUME NEW op, NEW edits, P!FirstDraft(s, op, edits)
        PROVE  PostKeyed'
    BY <1>2, <2>1 DEF P!FirstDraft
  <2>2. CASE P!Voiceover(s) \/ P!OpenDraft(s) \/ P!CreateRender(s)
    BY <1>2, <2>1, <2>2 DEF P!Voiceover, P!OpenDraft, P!CreateRender
  <2>3. CASE P!Rerender(s)
    BY <1>2, <2>1, <2>3 DEF P!Rerender
  <2>4. CASE \E e \in Edits : P!ApplyEdits(s, e)
    BY <1>2, <2>1, <2>4 DEF P!ApplyEdits
  <2> QED
    BY <1>3, <2>2, <2>3, <2>4
<1>4. ASSUME NEW s \in Sessions,
             \/ P!ComposeDraft(s) \/ P!Number(s) \/ P!FlushRender(s) \/ P!FindDraft(s)
             \/ P!NotEnqueued(s) \/ P!Rollback(s)
      PROVE  PostKeyed'
  <2>1. UNCHANGED <<renders, postJobs, queue, postRequests>> /\ P!Latest' = P!Latest
    BY <1>4 DEF P!ComposeDraft, P!Number, P!FlushRender, P!FindDraft, P!NotEnqueued, P!Rollback, P!Latest
  <2>2. \A o \in Sessions : postTx'[o] = postTx[o] \/ postTx'[o].at # "enqueue"
    <3>1. CASE P!NotEnqueued(s) \/ P!Rollback(s)
      BY <1>1, <3>1 DEF P!NotEnqueued, P!Rollback, P!Close, P!Idle
    <3>2. CASE P!ComposeDraft(s) \/ P!Number(s) \/ P!FlushRender(s) \/ P!FindDraft(s)
      <4>1. PICK t : postTx' = [postTx EXCEPT ![s] = t] /\ t.at # "enqueue"
        BY <3>2 DEF P!ComposeDraft, P!Number, P!FlushRender, P!FindDraft
      <4> QED
        BY <1>1, <4>1
    <3> QED
      BY <1>4, <3>1, <3>2
  <2> QED
    BY <1>1, <2>1, <2>2, KeyedKept
<1>5. ASSUME NEW s \in Sessions, P!CommitVoiceover(s)
      PROVE  PostKeyed'
  <2>1. UNCHANGED <<renders, queue, postRequests>> /\ P!Latest' = P!Latest
    BY <1>5 DEF P!CommitVoiceover, P!Latest
  <2>2. CASE P!Close(s) /\ UNCHANGED postJobs
    <3>1. \A o \in Sessions : postTx'[o] = postTx[o] \/ postTx'[o].at # "enqueue"
      BY <1>1, <2>2 DEF P!Close, P!Idle
    <3> QED
      BY <1>1, <2>1, <2>2, <3>1, KeyedKept
  <2>3. CASE P!ThenEnqueue(s, postTx[s].key) /\ postJobs' = P!Created(postTx[s].key, 0)
    BY <1>1, <2>1, <2>3, CreatedKeyed
  <2> QED
    BY <1>5, <2>2, <2>3 DEF P!CommitVoiceover
<1>6. ASSUME NEW s \in Sessions, P!CommitRender(s) \/ P!CommitDraft(s) \/ P!CommitRerender(s)
      PROVE  PostKeyed'
  <2>1. UNCHANGED <<queue, postRequests>>
    BY <1>6 DEF P!CommitRender, P!CommitDraft, P!CommitRerender
  <2>2. PICK version \in Nat :
          /\ P!Latest' \in Nat /\ P!Latest <= P!Latest' /\ version <= P!Latest'
          /\ \/ P!Close(s) /\ UNCHANGED postJobs
             \/ \E key : P!ThenEnqueue(s, key) /\ postJobs' = P!Created(key, version)
    <3>1. CASE P!CommitRender(s)
      <4>1. renders' = Append(renders, postTx[s].cut) /\ postTx[s].cut \in Cuts /\ postTx[s].version \in 1 .. (P!Latest + 1)
        BY <3>1 DEF P!CommitRender, PostInv, PostTypes, TxTyped
      <4>2. P!Latest' = P!Latest + 1
        BY <1>1, <4>1 DEF P!Latest
      <4>3. postTx[s].version \in Nat /\ postTx[s].version <= P!Latest'
        BY <1>1, <4>1, <4>2
      <4> QED
        BY <1>1, <3>1, <4>2, <4>3 DEF P!CommitRender
    <3>2. CASE P!CommitDraft(s)
      <4>1. /\ renders' = Append(renders, [postTx[s].cut EXCEPT !.edits = postTx[s].edits])
            /\ P!Close(s) /\ UNCHANGED postJobs
        BY <3>2 DEF P!CommitDraft
      <4>2. P!Latest' = P!Latest + 1
        <5>1. postTx[s].cut \in Cuts /\ postTx[s].edits \subseteq Edits
          BY <3>2 DEF P!CommitDraft, PostInv, PostTypes, TxTyped
        <5>2. [postTx[s].cut EXCEPT !.edits = postTx[s].edits] \in Cuts
          BY <5>1 DEF Cuts
        <5> QED
          BY <1>1, <4>1, <5>2 DEF P!Latest
      <4> QED
        BY <1>1, <4>1, <4>2
    <3>3. CASE P!CommitRerender(s)
      BY <1>1, <3>3, AgainRows
    <3> QED
      BY <1>6, <3>1, <3>2, <3>3
  <2>3. CASE P!Close(s) /\ UNCHANGED postJobs
    <3>1. \A o \in Sessions : postTx'[o] = postTx[o] \/ postTx'[o].at # "enqueue"
      BY <1>1, <2>3 DEF P!Close, P!Idle
    <3> QED
      BY <1>1, <2>1, <2>2, <2>3, <3>1, KeyedKept
  <2>4. ASSUME NEW key, P!ThenEnqueue(s, key), postJobs' = P!Created(key, version)
        PROVE  PostKeyed'
    BY <1>1, <2>1, <2>2, <2>4, CreatedKeyed
  <2> QED
    BY <2>2, <2>3, <2>4
<1>7. ASSUME NEW s \in Sessions, P!CommitEdits(s)
      PROVE  PostKeyed'
  <2>1. /\ renders' = [renders EXCEPT ![postTx[s].row] = postTx[s].cut] /\ UNCHANGED <<postJobs, queue, postRequests>>
        /\ P!Close(s) /\ postTx[s].op = "edit" /\ postTx[s].at = "found"
    BY <1>7 DEF P!CommitEdits
  <2>2. postTx[s].cut \in Cuts /\ postTx[s].row \in 1 .. Len(renders)
    BY <2>1 DEF PostInv, PostTypes, TxTyped, P!Latest
  <2>3. P!Latest' = P!Latest
    BY <1>1, <2>1, <2>2 DEF P!Latest
  <2>4. \A o \in Sessions : postTx'[o] = postTx[o] \/ postTx'[o].at # "enqueue"
    BY <1>1, <2>1 DEF P!Close, P!Idle
  <2> QED
    BY <1>1, <2>1, <2>3, <2>4, KeyedKept
<1>8. ASSUME NEW s \in Sessions, P!Enqueue(s)
      PROVE  PostKeyed'
  <2>1. /\ UNCHANGED <<renders, postJobs, postRequests>> /\ P!Latest' = P!Latest
        /\ queue' = queue \cup {postTx[s].key} /\ P!Close(s) /\ postTx[s].at = "enqueue"
    BY <1>8 DEF P!Enqueue, P!Latest
  <2>2. queue' \subseteq DOMAIN postJobs
    BY <2>1 DEF PostKeyed
  <2>3. \A o \in Sessions : postTx'[o] = postTx[o] \/ postTx'[o].at # "enqueue"
    BY <1>1, <2>1 DEF P!Close, P!Idle
  <2> QED
    BY <1>1, <2>1, <2>2, <2>3, KeyedKept
<1>9. ASSUME NEW k \in DOMAIN postJobs, P!Attempt(k) \/ P!CancelJob(k)
      PROVE  PostKeyed'
  <2>1. /\ UNCHANGED <<renders, postTx>> /\ P!Latest' = P!Latest /\ queue' \subseteq queue
        /\ \/ postRequests' = postRequests
           \/ postRequests' = postRequests + 1 /\ postRequests < MaxRequests.post
    BY <1>9 DEF P!Attempt, P!CancelJob, P!Latest
  <2>2. PICK next : postJobs' = [postJobs EXCEPT ![k].status = next]
    BY <1>9 DEF P!Attempt, P!CancelJob
  <2>3. \A j \in DOMAIN postJobs : postJobs[j] \in JobRow
    BY DEF PostInv, PostTypes
  <2>4. DOMAIN postJobs' = DOMAIN postJobs /\ \A j \in DOMAIN postJobs : postJobs'[j].render = postJobs[j].render
    BY <2>2, <2>3 DEF JobRow
  <2> QED
    BY <1>1, <2>1, <2>4, KeyedKept
<1>10. CASE P!Retake \/ P!Reapprove \/ UNCHANGED P!vars
  <2>1. UNCHANGED <<renders, postJobs, queue, postTx, postRequests>> /\ P!Latest' = P!Latest
    BY <1>10 DEF P!Retake, P!Reapprove, P!vars, P!Latest
  <2> QED
    BY <1>1, <2>1, KeyedKept
<1> QED
  BY <1>1, <1>3, <1>4, <1>5, <1>6, <1>7, <1>8, <1>9, <1>10 DEF P!Next

LEMMA PostIsTyped == Spec => []P!TypeOK
<1>1. Init => PostKeyed
  BY BoundsAssumption DEF Init, P!Init, P!Idle, PostKeyed
<1>2. PostInv /\ PostKeyed /\ [Next]_vars => PostKeyed'
  BY PostKeyedNext, PostSteps
<1>3. PostInv /\ PostKeyed => P!TypeOK
  <2> SUFFICES ASSUME PostInv, PostKeyed PROVE P!TypeOK
    OBVIOUS
  <2>1. renders \in Seq(Cuts) /\ material \in P!Materials /\ \A k \in DOMAIN postJobs : postJobs[k] \in JobRow
    BY DEF PostInv, PostTypes
  <2>2. \A v \in DOMAIN renders : renders[v] \in Cuts
    BY <2>1
  <2>3. \A k \in DOMAIN postJobs : postJobs[k].status \in DOMAIN P!NextJobStatuses
    BY <2>1 DEF JobRow
  <2> QED
    BY <2>1, <2>2, <2>3 DEF PostKeyed, P!TypeOK, Cuts
<1> QED
  BY <1>1, <1>2, <1>3, PostAlways, PTL DEF Spec

\* The clips are as many as the takes, and no batch is longer than the bound.
BatchBounded == steps \in 0 .. BatchSize

LEMMA CutIsTyped == Spec => []C!TypeOK
<1>1. CutInv => /\ stored \in Seq(C!Items) /\ Len(stored) = C!Cardinality(Takes)
                /\ work \in Seq(C!Items) /\ Len(work) = C!Cardinality(Takes)
  <2> SUFFICES ASSUME CutInv
               PROVE  /\ stored \in Seq(C!Items) /\ Len(stored) = Cardinality(Takes)
                      /\ work \in Seq(C!Items) /\ Len(work) = Cardinality(Takes)
    BY SameCount
  <2>1. stored \in [1 .. Cardinality(Takes) -> C!Items] /\ work \in [1 .. Cardinality(Takes) -> C!Items]
        /\ Cardinality(Takes) \in Nat
    BY PlacesAre DEF CutInv, Whole, Places
  <2> QED
    BY <2>1
<1>2. Init => BatchBounded
  BY BoundsAssumption DEF Init, C!Init, BatchBounded
<1>3. BatchBounded /\ [Next]_vars => BatchBounded'
  <2> SUFFICES ASSUME steps \in 0 .. BatchSize, [Next]_vars PROVE steps' \in 0 .. BatchSize
    BY DEF BatchBounded
  <2>1. CASE C!Next
    <3>1. steps' = 0 \/ (steps < BatchSize /\ steps' = steps + 1)
      BY <2>1 DEF C!Next, C!Reorder, C!Trim, C!SetLogo, C!Edit, C!Store, C!Refuse
    <3> QED
      BY <3>1, BoundsAssumption
  <2>2. CASE UNCHANGED cut
    BY <2>2 DEF cut
  <2> QED
    BY <2>1, <2>2 DEF Next, vars, TruthMoves, GoodsMove, StoryMoves, PostMoves, CutMoves,
                      MediaMove, StaffMoves, SignMoves, BrandMoves, RouterMoves
<1>4. CutInv /\ BatchBounded => C!TypeOK
  BY <1>1 DEF C!TypeOK, BatchBounded
<1> QED
  BY <1>2, <1>3, <1>4, CutAlways, PTL DEF Spec
=============================================================================
