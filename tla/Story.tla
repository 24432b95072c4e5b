------------------------------- MODULE Story ---------------------------------
(***************************************************************************)
(* services/projects.py, creative.py and storyboards.py: the status and the*)
(* brief of one project, its creative plans, scripts and storyboards, and  *)
(* concurrent requests of v1/projects.py and v1/storyboards.py.            *)
(*                                                                         *)
(* A request is one transaction. It reads; a generation then waits for the *)
(* provider; it may issue one bulk UPDATE (clear_plan_selection,           *)
(* supersede), which chooses its rows from what is committed when it       *)
(* starts, waits for those another transaction has written, and locks them;*)
(* it commits with the columns that changed against the rows as read.      *)
(* Whether the product has verified facts is up to ProductTruth: a request *)
(* that finds none is refused here by Rollback.                            *)
(***************************************************************************)
EXTENDS Integers, FiniteSets, Sequences, SequencesExt, FiniteSetsExt

CONSTANTS Durations,      \* what project.duration_seconds may be
          ShotDurations,  \* what a shot may last
          ShotsPerBoard,  \* how many shots a storyboard is given
          PlansPerRound,  \* how many directions a round proposes
          Sessions,       \* API requests under way
          MaxRequests     \* bound: requests that change something

VARIABLES
    project,   \* the row of projects: status and duration
    plans,     \* creative_plans in order of creation: whether selected
    scripts,   \* scripts by version: their status
    boards,    \* storyboards by version: status, total, and the shots' durations
    tx,        \* the open transaction of each session
    requests,  \* how many requests there were
    chosen,    \* history: a plan was selected since the last round
    accepted,  \* history: of "script" and "board", those approved once
    raced      \* history: what two requests that overlapped may have spoiled

vars == <<project, plans, scripts, boards, tx, requests, chosen, accepted, raced>>
-----------------------------------------------------------------------------
Pipeline == <<"DRAFT", "ANALYZING", "CREATIVE_PLANNING", "SCRIPTING", "STORYBOARDING",
              "GENERATING", "COMPOSITING", "QC", "READY">>

ProjectStatuses == Range(Pipeline) \cup {"FAILED", "ARCHIVED"}

\* _build_project_transitions: a step forward or back, into FAILED from the
\* inner stages and back out, and the shortcuts.
Edges ==
    {<<Pipeline[i], Pipeline[i + 1]>> : i \in 1 .. 8} \cup {<<Pipeline[i + 1], Pipeline[i]>> : i \in 1 .. 8}
    \cup ({Pipeline[i] : i \in 2 .. 8} \X {"FAILED"}) \cup ({"FAILED"} \X {Pipeline[i] : i \in 2 .. 8})
    \cup ((ProjectStatuses \ {"ARCHIVED"}) \X {"ARCHIVED"})
    \cup {<<"READY", "STORYBOARDING">>, <<"DRAFT", "CREATIVE_PLANNING">>, <<"CREATIVE_PLANNING", "DRAFT">>}

CanTransition(current, target) == current = target \/ <<current, target>> \in Edges

\* _BRIEF_EDITABLE
BriefEditable == {"DRAFT", "ANALYZING", "CREATIVE_PLANNING", "SCRIPTING"}

DocumentStatuses == {"DRAFT", "APPROVED", "SUPERSEDED"}

Total(shots) == FoldSeq(LAMBDA d, sum : d + sum, 0, shots)

\* validate_storyboard_duration: a tenth of the target either way.
Fits(total, target) == 10 * (total - target) <= target /\ 10 * (target - total) <= target

\* What fit_shot_durations makes of a draft (see ShotFitting), where it passes
\* the validation.
Fitted(target) == {shots \in [1 .. ShotsPerBoard -> ShotDurations] : Fits(Total(shots), target)}

NewBoard(shots) == [status |-> "DRAFT", total |-> Total(shots), shots |-> shots]

Selected == {p \in DOMAIN plans : plans[p]}
Approved(table) == {v \in DOMAIN table : table[v] = "APPROVED"}
BoardStatus == [b \in DOMAIN boards |-> boards[b].status]

Idle == [op |-> "none", locks |-> {}]

\* A project as create leaves it, one at its first script, and one whose
\* script and storyboard are approved, with a revision of each beside.
Init ==
    /\ \E d \in Durations :
        \/ /\ project = [status |-> "DRAFT", duration |-> d]
           /\ plans = <<>> /\ scripts = <<>> /\ boards = <<>>
           /\ chosen = FALSE /\ accepted = {}
        \/ /\ project = [status |-> "SCRIPTING", duration |-> d]
           /\ plans = <<TRUE, FALSE>> /\ scripts = <<"DRAFT">> /\ boards = <<>>
           /\ chosen = TRUE /\ accepted = {}
        \/ /\ project = [status |-> "STORYBOARDING", duration |-> d]
           /\ plans = <<TRUE, FALSE>> /\ scripts = <<"APPROVED", "DRAFT">>
           /\ \E shots \in Fitted(d) :
                 boards = <<[NewBoard(shots) EXCEPT !.status = "APPROVED"], NewBoard(shots)>>
           /\ chosen = TRUE /\ accepted = {"script", "board"}
    /\ tx = [s \in Sessions |-> Idle]
    /\ requests = 0
    /\ raced = {}

-----------------------------------------------------------------------------
tables == <<project, plans, scripts, boards>>

\* What two requests that overlap may spoil: the choice of a plan, the
\* approval of a document one of them read as approved, a total.
Spoiled(t, u) ==
    {k \in {"choice", "scripts", "boards", "totals"} :
        CASE k = "choice"  -> {t.op, u.op} \in {{"plans", "select"}, {"round", "select"}}
          [] k = "scripts" -> t.op = "approve" /\ u.op = "approve" /\ "APPROVED" \in {t.saw.status, u.saw.status}
          [] k = "boards"  -> t.op = "accept" /\ u.op = "accept" /\ "APPROVED" \in {t.saw.status, u.saw.status}
          [] k = "totals"  -> {t.op, u.op} \subseteq {"shot", "accept"}}

\* A request arrives; its transaction keeps what it read, and saw of the row.
Nothing == [status |-> "none"]
Open(s, op, id, saw, rows) ==
    /\ tx[s] = Idle /\ requests < MaxRequests
    /\ requests' = requests + 1
    /\ tx' = [tx EXCEPT ![s] = [op |-> op, id |-> id, saw |-> saw, stage |-> project.status,
                                brief |-> project.duration, rows |-> rows, locks |-> {}, at |-> "read"]]
    /\ raced' = raced \cup UNION {Spoiled(tx'[s], tx[o]) : o \in Sessions \ {s}}
    /\ UNCHANGED <<tables, chosen, accepted>>

Advance(s, t) ==
    tx' = [tx EXCEPT ![s] = t] /\ UNCHANGED <<tables, requests, chosen, accepted, raced>>

Close(s) == tx' = [tx EXCEPT ![s] = Idle] /\ UNCHANGED <<requests, raced>>

\* A refusal, a provider that failed, moderation, a deadlock, an index.
Rollback(s) == tx[s] # Idle /\ Close(s) /\ UNCHANGED <<tables, chosen, accepted>>

Locked(s, kind, id) == \E o \in Sessions \ {s} : <<kind, id>> \in tx[o].locks

\* transition, from the status as it was read; a status that stays is not sent.
Moved(t, target) ==
    IF t.stage = target THEN project ELSE [project EXCEPT !.status = target]

MovedFrom(t, source, target) == IF t.stage = source THEN Moved(t, target) ELSE project

\* The bulk UPDATE reaches its rows.
LockRows(s, kind) ==
    /\ tx[s].at = "read" /\ \A r \in tx[s].rows : ~Locked(s, kind, r)
    /\ Advance(s, [tx[s] EXCEPT !.at = "locked", !.locks = {kind} \X tx[s].rows])

-----------------------------------------------------------------------------
(* Creative plans.                                                         *)

\* generate_plans, up to the provider's answer.
GeneratePlans(s) == Open(s, "plans", <<>>, Nothing, {})

\* Mutant: the selection of the last round is left.
PlansProposedKeeping(s) ==
    /\ tx[s].op = "plans" /\ tx[s].at = "read"
    /\ Advance(s, [tx[s] EXCEPT !.op = "round"])

\* Then clear_plan_selection chooses the rows it clears, and reaches them.
PlansProposed(s) ==
    /\ tx[s].op = "plans" /\ tx[s].at = "read"
    /\ Advance(s, [tx[s] EXCEPT !.op = "round", !.rows = Selected])

Cleared(t) == [p \in DOMAIN plans |-> plans[p] /\ <<"plan", p>> \notin t.locks]

CommitPlans(s) ==
    LET t == tx[s]
    IN  /\ t.op = "round" /\ t.at = "locked"
        /\ CanTransition(t.stage, "CREATIVE_PLANNING")
        /\ plans' = Cleared(t) \o [i \in 1 .. PlansPerRound |-> FALSE]
        /\ project' = Moved(t, "CREATIVE_PLANNING")
        /\ chosen' = FALSE
        /\ Close(s) /\ UNCHANGED <<scripts, boards, accepted>>

\* select_plan: any plan of the project, of any round.
SelectPlan(s, p) == p \in DOMAIN plans /\ Open(s, "select", <<p>>, [selected |-> plans[p]], Selected)

LockPlans(s) == tx[s].op \in {"round", "select"} /\ LockRows(s, "plan")

\* Mutant: TRUE is not sent for a plan that was read as selected.
CommitSelectAsRead(s) ==
    LET t == tx[s]
        p == t.id[1]
    IN  /\ t.op = "select" /\ t.at = "locked" /\ ~Locked(s, "plan", p)
        /\ {q \in DOMAIN plans : Cleared(t)[q]} \subseteq {p}
        /\ plans' = IF t.saw.selected THEN Cleared(t) ELSE [Cleared(t) EXCEPT ![p] = TRUE]
        /\ chosen' = TRUE
        /\ Close(s) /\ UNCHANGED <<project, scripts, boards, accepted>>

\* uq_creative_plans_selected refuses a second one.
CommitSelect(s) ==
    LET t == tx[s]
        p == t.id[1]
    IN  /\ t.op = "select" /\ t.at = "locked" /\ ~Locked(s, "plan", p)
        /\ {q \in DOMAIN plans : Cleared(t)[q]} \subseteq {p}
        /\ plans' = [Cleared(t) EXCEPT ![p] = TRUE]
        /\ chosen' = TRUE
        /\ Close(s) /\ UNCHANGED <<project, scripts, boards, accepted>>

-----------------------------------------------------------------------------
(* Scripts.                                                                *)

\* generate_script needs a selected plan, revise_script a script.
GenerateScript(s) == Selected # {} /\ Open(s, "script", <<>>, Nothing, {})
ReviseScript(s) == scripts # <<>> /\ Open(s, "script", <<>>, Nothing, {})

\* _store_script: always a new version, always DRAFT.
CommitScript(s) ==
    /\ tx[s].op = "script"
    /\ scripts' = Append(scripts, "DRAFT")
    /\ project' = MovedFrom(tx[s], "CREATIVE_PLANNING", "SCRIPTING")
    /\ Close(s) /\ UNCHANGED <<plans, boards, chosen, accepted>>

\* Mutant: the document that is approved is superseded too.
EveryVersion(table, keep) == {v \in DOMAIN table : table[v] # "SUPERSEDED"}

\* The rows supersede reaches.
Others(table, keep) == {v \in DOMAIN table : v # keep /\ table[v] # "SUPERSEDED"}

ApproveScript(s, v) ==
    v \in DOMAIN scripts /\ Open(s, "approve", <<v>>, [status |-> scripts[v]], Others(scripts, v))

LockScripts(s) == tx[s].op = "approve" /\ LockRows(s, "script")

\* The others are superseded; APPROVED is sent unless it was read so.
AfterApproval(t, kind, table) ==
    [v \in DOMAIN table |->
        IF <<kind, v>> \in t.locks THEN "SUPERSEDED"
        ELSE IF v = t.id[1] /\ t.saw.status # "APPROVED" THEN "APPROVED"
        ELSE table[v]]

\* uq_scripts_approved refuses a second one.
CommitApproval(s) ==
    LET t == tx[s]
        after == AfterApproval(t, "script", scripts)
    IN  /\ t.op = "approve" /\ t.at = "locked" /\ ~Locked(s, "script", t.id[1])
        /\ Cardinality(Approved(after)) <= 1
        /\ scripts' = after
        /\ project' = MovedFrom(t, "SCRIPTING", "STORYBOARDING")
        /\ accepted' = accepted \cup {"script"}
        /\ Close(s) /\ UNCHANGED <<plans, boards, chosen>>

-----------------------------------------------------------------------------
(* Storyboards and shots.                                                  *)

\* generate, for the approved script and the duration as it was read.
GenerateBoard(s) == Approved(scripts) # {} /\ Open(s, "board", <<>>, Nothing, {})

CommitBoard(s) ==
    /\ tx[s].op = "board"
    /\ \E shots \in Fitted(tx[s].brief) : boards' = Append(boards, NewBoard(shots))
    /\ project' = MovedFrom(tx[s], "SCRIPTING", "STORYBOARDING")
    /\ Close(s) /\ UNCHANGED <<plans, scripts, chosen, accepted>>

\* update_shot, of a storyboard that was not replaced.
UpdateShot(s, b, i, d) ==
    /\ b \in DOMAIN boards /\ boards[b].status # "SUPERSEDED"
    /\ Open(s, "shot", <<b, i, d>>, boards[b], {})

\* Mutant: the total is recomputed before the shot is flushed.
FlushShotLate(s) ==
    LET t == tx[s]
        b == t.id[1]
    IN  /\ t.op = "shot" /\ t.at = "read" /\ ~Locked(s, "shot", <<b, t.id[2]>>)
        /\ Advance(s, [t EXCEPT !.at = "locked", !.locks = {<<"shot", <<b, t.id[2]>> >>},
                         !.rows = {Total(boards[b].shots)}])

\* The flush of the shot, and _recompute_total as the transaction sees it.
FlushShot(s) ==
    LET t == tx[s]
        b == t.id[1]
    IN  /\ t.op = "shot" /\ t.at = "read" /\ ~Locked(s, "shot", <<b, t.id[2]>>)
        /\ Advance(s, [t EXCEPT !.at = "locked", !.locks = {<<"shot", <<b, t.id[2]>> >>},
                         !.rows = {Total([boards[b].shots EXCEPT ![t.id[2]] = t.id[3]])}])

CommitShot(s) ==
    LET t == tx[s]
        b == t.id[1]
        total == CHOOSE n \in t.rows : TRUE
    IN  /\ t.op = "shot" /\ t.at = "locked" /\ ~Locked(s, "board", b)
        /\ boards' = [boards EXCEPT
              ![b].shots[t.id[2]] = IF t.saw.shots[t.id[2]] = t.id[3] THEN @ ELSE t.id[3],
              ![b].total = IF t.saw.total = total THEN @ ELSE total]
        /\ Close(s) /\ UNCHANGED <<project, plans, scripts, chosen, accepted>>

\* approve: the total is recomputed and must fit.
ApproveBoard(s, b) ==
    /\ b \in DOMAIN boards
    /\ Fits(Total(boards[b].shots), project.duration)
    /\ Open(s, "accept", <<b>>, [status |-> boards[b].status, total |-> boards[b].total,
                             sum |-> Total(boards[b].shots)], Others(BoardStatus, b))

LockBoards(s) == tx[s].op = "accept" /\ LockRows(s, "board")

CommitBoardApproval(s) ==
    LET t == tx[s]
        after == AfterApproval(t, "board", BoardStatus)
    IN  /\ t.op = "accept" /\ t.at = "locked" /\ ~Locked(s, "board", t.id[1])
        /\ Cardinality(Approved(after)) <= 1
        /\ boards' = [b \in DOMAIN boards |-> [boards[b] EXCEPT !.status = after[b],
              !.total = IF b = t.id[1] /\ t.saw.sum # t.saw.total THEN t.saw.sum ELSE @]]
        /\ accepted' = accepted \cup {"board"}
        /\ Close(s) /\ UNCHANGED <<project, plans, scripts, chosen>>

-----------------------------------------------------------------------------
(* The brief and the archive.                                              *)

\* update, as far as the duration goes.
UpdateBrief(s, d) == project.status \in BriefEditable /\ Open(s, "brief", <<d>>, Nothing, {})

CommitBrief(s) ==
    /\ tx[s].op = "brief"
    /\ project' = [project EXCEPT !.duration = IF tx[s].brief = tx[s].id[1] THEN @ ELSE tx[s].id[1]]
    /\ Close(s) /\ UNCHANGED <<plans, scripts, boards, chosen, accepted>>

Archive(s) == CanTransition(project.status, "ARCHIVED") /\ Open(s, "archive", <<>>, Nothing, {})

CommitArchive(s) ==
    /\ tx[s].op = "archive"
    /\ project' = Moved(tx[s], "ARCHIVED")
    /\ Close(s) /\ UNCHANGED <<plans, scripts, boards, chosen, accepted>>

Next ==
    \E s \in Sessions :
        \/ GeneratePlans(s) \/ PlansProposed(s) \/ CommitPlans(s)
        \/ \E p \in DOMAIN plans : SelectPlan(s, p)
        \/ LockPlans(s) \/ CommitSelect(s)
        \/ GenerateScript(s) \/ ReviseScript(s) \/ CommitScript(s)
        \/ \E v \in DOMAIN scripts : ApproveScript(s, v)
        \/ LockScripts(s) \/ CommitApproval(s)
        \/ GenerateBoard(s) \/ CommitBoard(s)
        \/ \E b \in DOMAIN boards, i \in 1 .. ShotsPerBoard, d \in ShotDurations : UpdateShot(s, b, i, d)
        \/ FlushShot(s) \/ CommitShot(s)
        \/ \E b \in DOMAIN boards : ApproveBoard(s, b)
        \/ LockBoards(s) \/ CommitBoardApproval(s)
        \/ \E d \in Durations : UpdateBrief(s, d)
        \/ CommitBrief(s)
        \/ Archive(s) \/ CommitArchive(s)
        \/ Rollback(s)

Spec == Init /\ [][Next]_vars

-----------------------------------------------------------------------------
\* The rows have their shapes.
TypeOK ==
    /\ project \in [status : ProjectStatuses, duration : Durations]
    /\ plans \in Seq(BOOLEAN) /\ scripts \in Seq(DocumentStatuses)
    /\ \A b \in DOMAIN boards : boards[b].status \in DocumentStatuses /\ boards[b].total \in Nat
    /\ requests \in 0 .. MaxRequests

\* Once a plan is selected, one plan stays selected until a new round is
\* proposed, whatever selections overlap: the next script has one to follow.
ChoiceKept == chosen => Cardinality(Selected) = 1

\* After a new round nothing is selected until somebody selects, unless a
\* selection overlapped the round (generate_plans: a stale flag would
\* silently drive the next script).
NewRoundClearsChoice == ~chosen /\ "choice" \notin raced => Selected = {}

\* Once a script is approved one is, and so for a storyboard: unless
\* approvals overlapped, of which one found its own already approved.
ApprovalKept ==
    /\ "script" \in accepted /\ "scripts" \notin raced => Cardinality(Approved(scripts)) = 1
    /\ "board" \in accepted /\ "boards" \notin raced => Cardinality(Approved(BoardStatus)) = 1

\* The total kept on a storyboard is that of its shots, unless requests about
\* storyboards overlapped.
TotalIsSum == "totals" \notin raced => \A b \in DOMAIN boards : boards[b].total = Total(boards[b].shots)
=============================================================================
