-------------------------------- MODULE Router --------------------------------
(***************************************************************************)
(* services/router.py over providers/capabilities.py, with the calls that  *)
(* jobs/runner.py makes to it: which provider an attempt goes to, and the  *)
(* circuit breaker in the rows of provider_configs, which the workers of   *)
(* all jobs and the operators (v1/admin.py) write.                         *)
(*                                                                         *)
(* A breaker decision is a transaction of its own: it reads the recent     *)
(* jobs and the row, and commits the columns it changed. Each job has one  *)
(* worker at a time.                                                       *)
(***************************************************************************)
EXTENDS Integers, SequencesExt, Columns

CONSTANTS Jobs, Wanted,     \* video jobs, and what each asks for
          Providers,        \* the keys of CAPABILITIES
          Capability,       \* what each of them can do, and at what cost
          Default,          \* the provider of the settings
          FailureThreshold, \* failures in a row before the breaker opens
          MaxRetries,       \* bound: attempts of a job after the first
          MaxSwitches       \* bound: times an operator uses the switch

VARIABLES
    configs,   \* provider_configs
    jobs,      \* generation_jobs: status, provider and retries
    finished,  \* the jobs with a finished_at in the window, in that order
    worker,    \* what the worker of each job is doing
    operator,  \* the operator's open transaction
    switches,  \* how often an operator used the switch
    closed,    \* history: providers an operator enabled and nobody judged since
    crossed    \* history: providers an operator switched while a worker judged them

vars == <<configs, jobs, finished, worker, operator, switches, closed, crossed>>
-----------------------------------------------------------------------------
(* Providers                                                               *)

\* can_serve: the durations are exact, an empty set means any up to the longest.
CanServe(p, request) ==
    LET c == Capability[p]
    IN  /\ request.seconds <= c.longest
        /\ c.durations # {} => request.seconds \in c.durations
        /\ request.quality \in c.qualities
        /\ request.references <= c.references

\* A row of provider_configs. until is circuit_open_until: null, or a time
\* that is still to come, or past.
NoConfig == [enabled |-> FALSE, until |-> "absent", trips |-> 0]
Configured == {p \in Providers : configs[p] # NoConfig}
Open(p) == configs[p].until = "future"

\* health: the finished jobs of p, oldest first. A job that was queued again
\* keeps its finished_at, and does not count as failed.
Outcomes(p) == SelectSeq(finished, LAMBDA j : jobs[j].provider = p)
Failed(j) == jobs[j].status \in {"FAILED", "TIMEOUT"}
Failures(p) == Len(SelectSeq(Outcomes(p), Failed))

\* consecutive_failures has reached the threshold.
KeepsFailing(p) ==
    LET rows == Outcomes(p)
    IN  /\ Len(rows) >= FailureThreshold
        /\ \A i \in Len(rows) - FailureThreshold + 1 .. Len(rows) : Failed(rows[i])

\* _candidates: availability and capability are filters.
Candidates(request) ==
    {p \in Configured : configs[p].enabled /\ ~Open(p) /\ CanServe(p, request)}

\* _score, times ten and times the number of finished jobs.
Attempts(p) == IF Outcomes(p) = <<>> THEN 1 ELSE Len(Outcomes(p))
Score(p, request) ==
    LET c == Capability[p]
    IN  1000 * Failures(p)
        + Attempts(p) * (100 * c.cost * request.seconds + c.latency + 10 * c.priority)

Beats(p, q, request) == Score(p, request) * Attempts(q) <= Score(q, request) * Attempts(p)

\* route and _select_provider: a preference among the candidates, else the
\* best score, else the provider of the settings, whatever its row says.
Routed(request) ==
    LET candidates == Candidates(request)
    IN  IF candidates = {} THEN {Default}
        ELSE IF request.preferred \in candidates THEN {request.preferred}
        ELSE {p \in candidates : \A q \in candidates : Beats(p, q, request)}

-----------------------------------------------------------------------------
Idle == [at |-> "none"]

Init ==
    /\ configs = [p \in Providers |-> NoConfig]
    /\ jobs = [j \in Jobs |-> [status |-> "QUEUED", provider |-> Default, retries |-> 0]]
    /\ finished = <<>>
    /\ worker = [j \in Jobs |-> Idle]
    /\ operator = Idle
    /\ switches = 0
    /\ closed = {} /\ crossed = {}

\* ensure_defaults: the rows that are missing, in one transaction.
EnsureDefaults ==
    /\ Configured # Providers
    /\ configs' = [p \in Providers |->
          IF p \in Configured THEN configs[p] ELSE [enabled |-> TRUE, until |-> "null", trips |-> 0]]
    /\ UNCHANGED <<jobs, finished, worker, operator, switches, closed, crossed>>

\* circuit_open_until passes, and a finished job leaves the window.
Elapse(p) ==
    /\ Open(p)
    /\ configs' = [configs EXCEPT ![p].until = "past"]
    /\ UNCHANGED <<jobs, finished, worker, operator, switches, closed, crossed>>

Forget ==
    /\ finished # <<>>
    /\ finished' = Tail(finished)
    /\ UNCHANGED <<configs, jobs, worker, operator, switches, closed, crossed>>

-----------------------------------------------------------------------------
(* The worker of job j                                                     *)

Work(j, step) == worker' = [worker EXCEPT ![j] = step]

\* _select_provider; the decision is recorded on the job.
Route(j) ==
    /\ worker[j] = Idle /\ jobs[j].status = "QUEUED"
    /\ \E p \in Routed(Wanted[j]) :
          /\ Work(j, [at |-> "routed", provider |-> p])
          /\ jobs' = IF Candidates(Wanted[j]) = {} THEN jobs ELSE [jobs EXCEPT ![j].provider = p]
    /\ UNCHANGED <<configs, finished, operator, switches, closed, crossed>>

Submitted(j) ==
    /\ worker[j].at = "routed"
    /\ jobs' = [jobs EXCEPT ![j].status = "SUBMITTED"]
    /\ Work(j, [worker[j] EXCEPT !.at = "polling"])
    /\ UNCHANGED <<configs, finished, operator, switches, closed, crossed>>

\* submit is refused: record_failure reads the recent jobs, of which this one
\* is none yet, and the row.
Judge(j) ==
    LET p == worker[j].provider
        trips == KeepsFailing(p) /\ p \in Configured /\ ~Open(p)
    IN  /\ worker[j].at = "routed"
        /\ Work(j, IF trips THEN [at |-> "tripping", provider |-> p, read |-> configs[p]]
                   ELSE [at |-> "failing", provider |-> p])
        /\ closed' = IF trips THEN closed \ {p} ELSE closed
        /\ crossed' = IF trips /\ operator.at = "switching" /\ operator.provider = p
                      THEN crossed \cup {p} ELSE crossed
        /\ UNCHANGED <<configs, jobs, finished, operator, switches>>

Written(p, old, new) == configs' = [configs EXCEPT ![p] = Merged(@, old, new)]

\* The window that opens is a new time, so it is always sent.
Trip(j) ==
    LET w == worker[j]
    IN  /\ w.at = "tripping"
        /\ Written(w.provider, [w.read EXCEPT !.until = "unset"],
                   [w.read EXCEPT !.until = "future", !.trips = @ + 1])
        /\ Work(j, [at |-> "failing", provider |-> w.provider])
        /\ UNCHANGED <<jobs, finished, operator, switches, closed, crossed>>

\* _note_provider_failure and _note_provider_success are best effort.
NoteLost(j) ==
    /\ worker[j].at \in {"tripping", "closing"}
    /\ Work(j, IF worker[j].at = "tripping" THEN [at |-> "failing", provider |-> worker[j].provider] ELSE Idle)
    /\ UNCHANGED <<configs, jobs, finished, operator, switches, closed, crossed>>

\* Mutant: the row of an earlier attempt stays in the window.
FinishAgain(j) == finished' = Append(finished, j)

\* finished_at is stamped now.
Finish(j) == finished' = Append(RemoveFirst(finished, j), j)

\* _record_failure: a job that is still QUEUED is queued again as it is, one
\* that was submitted passes through FAILED, which stamps it.
Requeue(j) ==
    /\ worker[j].at = "failing" \/ worker[j].at = "polling"
    /\ jobs[j].retries < MaxRetries
    /\ jobs' = [jobs EXCEPT ![j].status = "QUEUED", ![j].retries = @ + 1]
    /\ IF jobs[j].status = "QUEUED" THEN UNCHANGED finished ELSE Finish(j)
    /\ Work(j, Idle)
    /\ UNCHANGED <<configs, operator, switches, closed, crossed>>

\* A permanent failure, or one that is out of retries.
Fail(j) ==
    /\ worker[j].at = "failing" \/ worker[j].at = "polling"
    /\ jobs' = [jobs EXCEPT ![j].status = "FAILED"]
    /\ Finish(j)
    /\ Work(j, Idle)
    /\ UNCHANGED <<configs, operator, switches, closed, crossed>>

\* _record_timeout: the job is not queued again.
TimeOut(j) ==
    /\ worker[j].at = "polling"
    /\ jobs' = [jobs EXCEPT ![j].status = "TIMEOUT"]
    /\ Finish(j)
    /\ Work(j, Idle)
    /\ UNCHANGED <<configs, operator, switches, closed, crossed>>

Complete(j) ==
    /\ worker[j].at = "polling"
    /\ jobs' = [jobs EXCEPT ![j].status = "COMPLETED"]
    /\ Finish(j)
    /\ Work(j, [worker[j] EXCEPT !.at = "noting"])
    /\ UNCHANGED <<configs, operator, switches, closed, crossed>>

\* record_success reads the row; a breaker that never opened needs nothing.
ReadSuccess(j) ==
    LET p == worker[j].provider
    IN  /\ worker[j].at = "noting"
        /\ Work(j, IF configs[p].until \in {"absent", "null"} THEN Idle
                   ELSE [at |-> "closing", provider |-> p, read |-> configs[p]])
        /\ UNCHANGED <<configs, jobs, finished, operator, switches, closed, crossed>>

\* Mutant: the backoff of the last outage is kept.
CloseKeepingTrips(j) ==
    LET w == worker[j]
    IN  /\ w.at = "closing"
        /\ Written(w.provider, w.read, [w.read EXCEPT !.until = "null"])
        /\ Work(j, Idle)
        /\ UNCHANGED <<jobs, finished, operator, switches, closed, crossed>>

Close(j) ==
    LET w == worker[j]
    IN  /\ w.at = "closing"
        /\ Written(w.provider, w.read, [w.read EXCEPT !.until = "null", !.trips = 0])
        /\ Work(j, Idle)
        /\ UNCHANGED <<jobs, finished, operator, switches, closed, crossed>>

-----------------------------------------------------------------------------
(* set_enabled                                                             *)

\* Mutant: a provider that is enabled already is left as it is.
SwitchedUnlessOn(row, enabled) ==
    IF enabled /\ ~row.enabled THEN [enabled |-> TRUE, until |-> "null", trips |-> 0]
    ELSE [row EXCEPT !.enabled = enabled]

\* Enabling clears the breaker.
Switched(row, enabled) ==
    IF enabled THEN [enabled |-> TRUE, until |-> "null", trips |-> 0]
    ELSE [row EXCEPT !.enabled = FALSE]

OpenSwitch(p, enabled) ==
    /\ operator = Idle /\ p \in Configured /\ switches < MaxSwitches
    /\ switches' = switches + 1
    /\ operator' = [at |-> "switching", provider |-> p, read |-> configs[p], enabled |-> enabled]
    /\ crossed' = IF \E j \in Jobs : worker[j].at = "tripping" /\ worker[j].provider = p
                  THEN crossed \cup {p} ELSE crossed
    /\ UNCHANGED <<configs, jobs, finished, worker, closed>>

CommitSwitch ==
    LET o == operator
    IN  /\ o.at = "switching"
        /\ Written(o.provider, o.read, Switched(o.read, o.enabled))
        /\ closed' = IF o.enabled THEN closed \cup {o.provider} ELSE closed
        /\ operator' = Idle
        /\ UNCHANGED <<jobs, finished, worker, switches, crossed>>

Next ==
    \/ EnsureDefaults
    \/ \E p \in Providers : Elapse(p) \/ \E enabled \in BOOLEAN : OpenSwitch(p, enabled)
    \/ Forget
    \/ \E j \in Jobs :
        \/ Route(j) \/ Submitted(j) \/ Judge(j) \/ Trip(j) \/ NoteLost(j)
        \/ Requeue(j) \/ Fail(j) \/ TimeOut(j) \/ Complete(j) \/ ReadSuccess(j) \/ Close(j)
    \/ CommitSwitch

Spec == Init /\ [][Next]_vars

-----------------------------------------------------------------------------
\* Rows and steps have their shapes, and no job is counted twice.
TypeOK ==
    /\ \A p \in Providers : configs[p].until \in {"absent", "null", "future", "past"} /\ configs[p].trips \in Nat
    /\ \A j \in Jobs :
        /\ jobs[j].status \in {"QUEUED", "SUBMITTED", "COMPLETED", "FAILED", "TIMEOUT"}
        /\ jobs[j].provider \in Providers /\ jobs[j].retries \in 0 .. MaxRetries
    /\ IsInjective(finished)
    /\ switches \in 0 .. MaxSwitches

\* The backoff doubles from the trip count, so a breaker that is closed must
\* have none and one that was opened must have some. Workers and operators
\* each send the two columns they changed of a row they read earlier: no
\* order of their commits tears the pair apart.
TripsMatchBreaker ==
    \A p \in Providers : configs[p].trips = 0 <=> configs[p].until \in {"absent", "null"}

\* services/router.py, set_enabled: a provider an operator turned on is tried
\* again. Its breaker stays closed until a worker judges it anew, unless the
\* switch and a judgement overlapped.
EnabledIsClosed == \A p \in closed \ crossed : configs[p].until = "null"
=============================================================================
