---------------------------- MODULE CreditLedger ----------------------------
(***************************************************************************)
(* services/credit_ledger.py: one workspace's credit account and the       *)
(* append-only rows behind it, used by concurrent database sessions.       *)
(*                                                                         *)
(* Each session runs transactions of one or more ledger calls at READ      *)
(* COMMITTED, one action per database round trip: the idempotency read, the*)
(* account read or insert, the SELECT ... FOR UPDATE, the writes, and the  *)
(* commit or rollback of the caller's transaction. A plain read sees what  *)
(* is committed, plus the session's own writes; the account row lock, once *)
(* taken, is kept until the transaction ends. Amounts are whole numbers of *)
(* the ten-thousandth of a credit the code rounds to.                      *)
(***************************************************************************)
EXTENDS Tally

CONSTANTS Jobs,         \* generation jobs of the workspace
          Sessions,     \* database sessions: API requests, worker steps, sweeps
          GrantKeys,    \* idempotency keys top-ups are made with
          Amounts,      \* costs a job may be estimated or charged at
          GrantAmounts, \* amounts a top-up may add
          SignupGrant,  \* SIGNUP_GRANT
          NoSession     \* nobody holds the account row

ASSUME LedgerAssumption ==
    /\ Amounts \subseteq Nat
    /\ GrantAmounts \subseteq Nat \ {0}
    /\ SignupGrant \in Nat
    /\ NoSession \notin Sessions

VARIABLES books,    \* the committed account and its rows
          holder,   \* the session that locked or inserted the account row
          draft,    \* the holder's view, written but not committed
          pc,       \* the next round trip of each session
          call,     \* the ledger call each session is in
          lost,     \* sessions whose new job row a rollback discarded
          outcome   \* how each session's last call ended

vars == <<books, holder, draft, pc, call, lost, outcome>>

-----------------------------------------------------------------------------
(* The account row and the rows of credit_transactions. A row is found by  *)
(* its idempotency key, reserve:{job}, capture:{job}, release:{job} or the *)
(* caller's grant key, so each table maps a key to the amount of its row.  *)

NoRow == -1

Row == Nat \cup {NoRow}

Books == [open : BOOLEAN,             \* the account row exists
          balance : Nat, reserved : Nat, granted : Nat, spent : Nat,
          jobs : SUBSET Jobs,         \* rows of generation_jobs
          reserve : [Jobs -> Row], capture : [Jobs -> Row],
          release : [Jobs -> Row], grant : [GrantKeys -> Row]]

\* A workspace without an account. Its jobs, if it has any, were created
\* while ENABLE_CREDITS was off and have no reservation.
NewBooks(js) ==
    [open |-> FALSE, balance |-> 0, reserved |-> 0, granted |-> 0, spent |-> 0,
     jobs |-> js,
     reserve |-> [j \in Jobs |-> NoRow], capture |-> [j \in Jobs |-> NoRow],
     release |-> [j \in Jobs |-> NoRow], grant |-> [k \in GrantKeys |-> NoRow]]

Minimum(m, n) == IF m <= n THEN m ELSE n

\* Mutant: the balance, holds included, is what a reservation may take.
BalanceOnly(b) == b.balance

\* CreditAccount.available
Available(b) == b.balance - b.reserved

\* _reserved_for: what a job still holds, read from the rows.
Held(b, j) ==
    IF /\ b.reserve[j] # NoRow
       /\ b.capture[j] = NoRow
       /\ b.release[j] = NoRow
    THEN b.reserve[j]
    ELSE 0

Holds(b) == [j \in Jobs |-> Held(b, j)]

\* The CHECK constraints of credit_accounts.
ChecksHold(b) == b.balance >= 0 /\ b.reserved >= 0 /\ b.reserved <= b.balance

\* ensure_account's insert, with the signup grant.
Opened(b) == [b EXCEPT !.open = TRUE, !.balance = SignupGrant,
                       !.reserved = 0, !.granted = SignupGrant]

\* Mutant: the row takes the signed amount of the movement.
ReservedSigned(b, j, a) == [b EXCEPT !.reserved = @ + a, !.reserve[j] = 0 - a,
                                     !.jobs = @ \cup {j}]

\* reserve's writes, in the transaction that inserts the job row.
Reserved(b, j, a) == [b EXCEPT !.reserved = @ + a, !.reserve[j] = a,
                               !.jobs = @ \cup {j}]

\* Mutant: capture gives back what it charges, not what was held.
CapturedAtCharge(b, j, a) ==
    LET charge == Minimum(a, b.balance)
    IN  [b EXCEPT !.reserved = Positive(@ - charge),
                  !.balance = @ - charge,
                  !.spent = @ + charge,
                  !.capture[j] = charge]

\* capture's writes: the hold is dropped first, then the charge is taken.
Captured(b, j, a) ==
    LET charge == Minimum(a, b.balance)
    IN  [b EXCEPT !.reserved = Positive(@ - Held(b, j)),
                  !.balance = @ - charge,
                  !.spent = @ + charge,
                  !.capture[j] = charge]

\* Mutant: release returns everything reserved.
ReleasedAll(b, j) == [b EXCEPT !.reserved = 0, !.release[j] = b.reserved]

\* release's writes.
Released(b, j) == [b EXCEPT !.reserved = Positive(@ - Held(b, j)),
                            !.release[j] = Held(b, j)]

\* grant's writes.
Topped(b, k, a) == [b EXCEPT !.balance = @ + a, !.granted = @ + a, !.grant[k] = a]

-----------------------------------------------------------------------------
(* Calls. A reservation is made by JobService.create for the job it has    *)
(* just inserted; captures and releases are made for committed jobs, by    *)
(* JobService.complete, fail and cancel; "open" is ensure_account alone,   *)
(* the balance and quote endpoints.                                        *)

Calls ==
    [kind : {"reserve", "capture"}, id : Jobs, amount : Amounts]
    \cup [kind : {"release"}, id : Jobs, amount : {0}]
    \cup [kind : {"grant"}, id : GrantKeys, amount : GrantAmounts]
    \cup [kind : {"open"}, id : {NoSession}, amount : {0}]

NoCall == [kind |-> "open", id |-> NoSession, amount |-> 0]

\* What a session reads: its own writes, or the committed rows.
View(s) == IF holder = s THEN draft ELSE books

InTransaction(s) == pc[s] # "idle"

Creating(s, j) ==
    InTransaction(s) /\ call[s].kind = "reserve" /\ call[s].id = j

\* Job ids are fresh UUIDs: nobody has inserted or is inserting this job.
FreshJob(j) ==
    /\ j \notin books.jobs \cup draft.jobs
    /\ \A s \in Sessions : ~Creating(s, j)

MayCall(c) ==
    CASE c.kind = "reserve" -> FreshJob(c.id)
      [] c.kind \in {"capture", "release"} -> c.id \in books.jobs
      [] OTHER -> TRUE

\* The idempotency key a call derives is already taken by a row.
KeyTaken(b, c) ==
    CASE c.kind = "reserve" -> b.reserve[c.id] # NoRow
      [] c.kind = "capture" -> b.capture[c.id] # NoRow
      [] c.kind = "release" -> b.release[c.id] # NoRow
      [] c.kind = "grant"   -> b.grant[c.id] # NoRow
      [] OTHER -> FALSE

\* How a call can fail.
Outcomes == {"none", "insufficient", "not_found",
             "check_refused", "key_refused", "fk_refused"}

-----------------------------------------------------------------------------
Init ==
    /\ \E js \in SUBSET Jobs : books = NewBooks(js)
    /\ holder = NoSession
    /\ draft = books
    /\ pc = [s \in Sessions |-> "idle"]
    /\ call = [s \in Sessions |-> NoCall]
    /\ lost = {}
    /\ outcome = [s \in Sessions |-> "none"]

\* A session opens a transaction with a call, or makes another call in the
\* transaction it is in.
Begin(s) ==
    /\ pc[s] \in {"idle", "done"}
    /\ \E c \in Calls :
        /\ MayCall(c)
        /\ call' = [call EXCEPT ![s] = c]
        /\ pc' = [pc EXCEPT ![s] = IF c.kind = "open" THEN "ensure" ELSE "check"]
    /\ UNCHANGED <<books, holder, draft, lost, outcome>>

\* The call returns: the transaction may commit, or make another call.
Finish(s) ==
    /\ pc' = [pc EXCEPT ![s] = "done"]
    /\ UNCHANGED outcome

\* The call raises: all the caller's transaction can do is roll back.
Fail(s, how) ==
    /\ outcome' = [outcome EXCEPT ![s] = how]
    /\ pc' = [pc EXCEPT ![s] = "failed"]

\* _existing: a row under the key absorbs the call.
CheckKey(s) ==
    /\ pc[s] = "check"
    /\ \/ KeyTaken(View(s), call[s]) /\ Finish(s)
       \/ /\ ~KeyTaken(View(s), call[s])
          /\ pc' = [pc EXCEPT ![s] =
                     IF call[s].kind \in {"reserve", "grant"} THEN "ensure" ELSE "lock"]
          /\ UNCHANGED outcome
    /\ UNCHANGED <<books, holder, draft, call, lost>>

\* ensure_account has an account to return.
Ensured(s) ==
    IF call[s].kind = "open"
    THEN Finish(s)
    ELSE pc' = [pc EXCEPT ![s] = "lock"] /\ UNCHANGED outcome

\* ensure_account's unlocked read.
EnsureAccount(s) ==
    /\ pc[s] = "ensure"
    /\ \/ View(s).open /\ Ensured(s)
       \/ ~View(s).open /\ pc' = [pc EXCEPT ![s] = "insert"] /\ UNCHANGED outcome
    /\ UNCHANGED <<books, holder, draft, call, lost>>

\* ensure_account's insert. The unique index makes it wait for another
\* uncommitted insert. If that one commits, the IntegrityError handler rolls
\* back the whole session, and with it the job row a reserve was called for,
\* and takes the winner's account.
InsertAccount(s) ==
    /\ pc[s] = "insert"
    /\ \/ /\ books.open
          /\ lost' = IF call[s].kind = "reserve" THEN lost \cup {s} ELSE lost
          /\ UNCHANGED <<holder, draft>>
       \/ /\ ~books.open /\ holder = NoSession
          /\ holder' = s
          /\ draft' = Opened(books)
          /\ UNCHANGED lost
    /\ Ensured(s)
    /\ UNCHANGED <<books, call>>

\* SELECT ... FOR UPDATE: waits for the row lock, and reads the row as it is
\* once the lock is granted. An account nobody committed is not found.
LockAccount(s) ==
    /\ pc[s] = "lock"
    /\ \/ /\ holder = s \/ (holder = NoSession /\ books.open)
          /\ holder' = s
          /\ draft' = View(s)
          /\ pc' = [pc EXCEPT ![s] = "apply"]
          /\ UNCHANGED outcome
       \/ /\ holder # s /\ ~books.open
          /\ IF call[s].kind = "release" THEN Finish(s)
                                         ELSE Fail(s, "not_found")
          /\ UNCHANGED <<holder, draft>>
    /\ UNCHANGED <<books, call, lost>>

\* Mutant: no unique index on the idempotency key.
FlushUnkeyed(s, b) ==
    IF ChecksHold(b) THEN Finish(s) /\ draft' = b
                     ELSE Fail(s, "check_refused") /\ UNCHANGED draft

\* The flush of a call's writes, which the table constraints may refuse.
Flush(s, b) ==
    CASE ~ChecksHold(b) -> Fail(s, "check_refused") /\ UNCHANGED draft
      [] ChecksHold(b) /\ KeyTaken(draft, call[s]) ->
           Fail(s, "key_refused") /\ UNCHANGED draft
      [] OTHER -> Finish(s) /\ draft' = b

ApplyReserve(s) ==
    LET j == call[s].id
        a == call[s].amount
    IN  CASE a > Available(draft) -> Fail(s, "insufficient") /\ UNCHANGED draft
          [] a <= Available(draft) /\ s \in lost ->
               Fail(s, "fk_refused") /\ UNCHANGED draft
          [] OTHER -> Flush(s, Reserved(draft, j, a))

ApplyCapture(s) == Flush(s, Captured(draft, call[s].id, call[s].amount))

\* Releasing what is not held writes nothing.
ApplyRelease(s) ==
    IF Held(draft, call[s].id) = 0
    THEN Finish(s) /\ UNCHANGED draft
    ELSE Flush(s, Released(draft, call[s].id))

ApplyGrant(s) == Flush(s, Topped(draft, call[s].id, call[s].amount))

\* The body of a call, under the row lock.
Apply(s) ==
    /\ pc[s] = "apply"
    /\ \/ call[s].kind = "reserve" /\ ApplyReserve(s)
       \/ call[s].kind = "capture" /\ ApplyCapture(s)
       \/ call[s].kind = "release" /\ ApplyRelease(s)
       \/ call[s].kind = "grant" /\ ApplyGrant(s)
    /\ UNCHANGED <<books, holder, call, lost>>

EndTransaction(s) ==
    /\ pc' = [pc EXCEPT ![s] = "idle"]
    /\ call' = [call EXCEPT ![s] = NoCall]
    /\ lost' = lost \ {s}
    /\ outcome' = [outcome EXCEPT ![s] = "none"]

\* The caller's transaction commits: request teardown or session_scope exit.
Commit(s) ==
    /\ pc[s] = "done"
    /\ books' = View(s)
    /\ holder' = IF holder = s THEN NoSession ELSE holder
    /\ EndTransaction(s)
    /\ UNCHANGED draft

\* It rolls back instead: the call raised, the caller raised, or the process
\* died, at any point.
Rollback(s) ==
    /\ InTransaction(s)
    /\ holder' = IF holder = s THEN NoSession ELSE holder
    /\ draft' = IF holder = s THEN books ELSE draft
    /\ EndTransaction(s)
    /\ UNCHANGED books

Step(s) ==
    \/ Begin(s) \/ CheckKey(s) \/ EnsureAccount(s) \/ InsertAccount(s)
    \/ LockAccount(s) \/ Apply(s) \/ Commit(s) \/ Rollback(s)

Next == \E s \in Sessions : Step(s)

Spec == Init /\ [][Next]_vars

-----------------------------------------------------------------------------
(* Properties.                                                             *)

PcTypes == {"idle", "check", "ensure", "insert", "lock", "apply", "done", "failed"}

\* Every variable has its type; in particular balance and reserved are never
\* negative in what is committed.
TypeOK ==
    /\ books \in Books
    /\ draft \in Books
    /\ holder \in Sessions \cup {NoSession}
    /\ pc \in [Sessions -> PcTypes]
    /\ call \in [Sessions -> Calls]
    /\ lost \subseteq Sessions
    /\ outcome \in [Sessions -> Outcomes]

\* account.reserved is exactly what the rows say jobs still hold, whatever
\* sessions interleave: capture and release find the hold in the rows
\* (_reserved_for), and nothing else moves reserved.
ReservedMatchesHolds == books.reserved = Total(Holds(books))

\* No double charge: what the account has spent is what its capture rows say,
\* one row a job, and the balance is what was granted and not spent. Two
\* redelivered workers may capture one job at the same time: the key they
\* share is what makes the second one take nothing.
SpentMatchesCaptures ==
    /\ books.spent = Total(books.capture)
    /\ books.balance + books.spent = books.granted
    /\ books.granted = Total(books.grant) + (IF books.open THEN SignupGrant ELSE 0)

\* The last credit cannot be reserved twice: a reservation the workspace
\* cannot pay for is refused by the check under the row lock, with
\* INSUFFICIENT_CREDITS, and never by the reserved <= balance constraint.
ReserveRefusedByNameOnly ==
    \A s \in Sessions : call[s].kind = "reserve" => outcome[s] # "check_refused"

\* The ledger implements the escrow: a hold comes back as it was taken, a
\* charge is final, and granted credits always cover charges and holds.
StageOf(b, j) ==
    IF b.capture[j] # NoRow THEN "charged"
    ELSE IF b.release[j] # NoRow THEN "returned"
    ELSE IF b.reserve[j] # NoRow THEN "held"
    ELSE "fresh"

AmountOf(b, j) ==
    IF b.capture[j] # NoRow THEN b.capture[j]
    ELSE IF b.release[j] # NoRow THEN b.release[j]
    ELSE IF b.reserve[j] # NoRow THEN b.reserve[j]
    ELSE 0

E == INSTANCE Escrow WITH
    granted <- books.granted,
    stage <- [j \in Jobs |-> StageOf(books, j)],
    amount <- [j \in Jobs |-> AmountOf(books, j)]

ImplementsEscrow == E!Spec

\* What the module's header promises of a redelivered worker's second capture:
\* "absorbed, not raised". Nobody's capture or release fails on the index.
SecondWriteAbsorbed ==
    \A s \in Sessions :
        call[s].kind \in {"capture", "release"} => outcome[s] # "key_refused"

\* What ensure_account's comment promises: two first jobs of a new workspace
\* arriving together is nobody's error, and neither request fails for it.
FirstJobRaceAbsorbed ==
    \A s \in Sessions : outcome[s] # "fk_refused"
=============================================================================
