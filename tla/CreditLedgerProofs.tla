------------------------- MODULE CreditLedgerProofs -------------------------
(***************************************************************************)
(* Why the ledger of CreditLedger keeps its promises for every number of   *)
(* jobs, sessions and credits.                                             *)
(*                                                                         *)
(* The argument has two layers. Sound(b) says a set of books adds up, and  *)
(* the lemmas show each ledger call preserves it. IInv says the committed  *)
(* books and the row-lock holder's draft are both sound, that the draft    *)
(* only extends what is committed, and that a session which passed the     *)
(* idempotency read for a new job is the only one with that job: without   *)
(* the last part ReservedMatchesHolds is not inductive, because a row for  *)
(* a job already captured would be reserved and never held.                *)
(***************************************************************************)
EXTENDS CreditLedger, FiniteSetTheorems, TLAPS

(***************************************************************************)
(* How Total reacts to one update of the table: the arithmetic every proof *)
(* about the credit ledger rests on.                                       *)
(***************************************************************************)

\* A column has exactly as many units as its amount: how one row of
\* credit_transactions counts towards a sum.
LEMMA ColumnSize ==
  ASSUME NEW j, NEW n \in Int
  PROVE  /\ IsFiniteSet(Column(j, n))
         /\ Cardinality(Column(j, n)) = Positive(n)
<1>1. IsFiniteSet({j}) /\ Cardinality({j}) = 1
  BY FS_Singleton
<1>2. /\ IsFiniteSet(1 .. n)
      /\ Cardinality(1 .. n) = IF 1 > n THEN 0 ELSE n - 1 + 1
  BY FS_Interval
<1>3. /\ IsFiniteSet({j} \X (1 .. n))
      /\ Cardinality({j} \X (1 .. n)) = 1 * Cardinality(1 .. n)
  BY <1>1, <1>2, FS_Product
<1>4. Cardinality(1 .. n) = Positive(n)
  BY <1>2 DEF Positive
<1>5. QED
  BY <1>3, <1>4 DEF Column, Positive

\* A table with no positive entry has total 0: the state before the first
\* ledger row.
LEMMA EmptyTotal ==
  ASSUME NEW S, NEW f \in [S -> Int], \A j \in S : f[j] <= 0
  PROVE  Units(f) = {} /\ IsFiniteSet(Units(f)) /\ Total(f) = 0
<1>1. Units(f) = {}
  BY DEF Units, Column
<1>2. QED
  BY <1>1, FS_EmptySet DEF Total

\* Writing v at j moves the total by exactly the difference of the two
\* entries: how one ledger row moves a sum.
LEMMA TotalUpdate ==
  ASSUME NEW S, NEW f \in [S -> Int], NEW j \in S, NEW v \in Int,
         IsFiniteSet(Units(f))
  PROVE  /\ IsFiniteSet(Units([f EXCEPT ![j] = v]))
         /\ Total([f EXCEPT ![j] = v]) = Total(f) - Positive(f[j]) + Positive(v)
<1> DEFINE g == [f EXCEPT ![j] = v]
           Rest == Units(f) \ Column(j, f[j])
<1>1. /\ IsFiniteSet(Column(j, f[j])) /\ IsFiniteSet(Column(j, v))
      /\ Cardinality(Column(j, f[j])) = Positive(f[j])
      /\ Cardinality(Column(j, v)) = Positive(v)
  BY ColumnSize
<1>2. Units(f) \cap Column(j, f[j]) = Column(j, f[j])
  BY DEF Units
<1>3. /\ IsFiniteSet(Rest)
      /\ Cardinality(Rest) = Cardinality(Units(f)) - Positive(f[j])
  <2>1. /\ IsFiniteSet(Units(f) \ Column(j, f[j]))
        /\ Cardinality(Units(f) \ Column(j, f[j])) =
             Cardinality(Units(f)) - Cardinality(Units(f) \cap Column(j, f[j]))
    BY FS_Difference, Zenon
  <2>2. QED
    BY <1>1, <1>2, <2>1
<1>4. Units(g) = Rest \cup Column(j, v)
  BY DEF Units, Column
<1>5. Rest \cap Column(j, v) = {}
  BY DEF Units, Column
<1>6. /\ IsFiniteSet(Rest \cup Column(j, v))
      /\ Cardinality(Rest \cup Column(j, v)) =
           Cardinality(Rest) + Cardinality(Column(j, v)) - Cardinality({})
  BY <1>1, <1>3, <1>5, FS_Union
<1>7. Cardinality({}) = 0
  BY FS_EmptySet
<1>8. /\ Positive(v) \in Nat /\ Positive(f[j]) \in Nat /\ Total(f) \in Nat
  BY FS_CardinalityType DEF Positive, Total
<1> HIDE DEF g, Rest
<1>9. IsFiniteSet(Units(g)) /\ Total(g) = Total(f) - Positive(f[j]) + Positive(v)
  BY <1>1, <1>3, <1>4, <1>6, <1>7, <1>8 DEF Total
<1>10. QED
  BY <1>9 DEF g

\* One entry never exceeds the total: the rows of one job cannot hold more
\* than the account has reserved.
LEMMA EntryBound ==
  ASSUME NEW S, NEW f \in [S -> Int], NEW j \in S, IsFiniteSet(Units(f))
  PROVE  Positive(f[j]) <= Total(f) /\ Total(f) \in Nat
<1>1. Column(j, f[j]) \subseteq Units(f)
  BY DEF Units
<1>2. QED
  BY <1>1, ColumnSize, FS_Subset, FS_CardinalityType DEF Total

-----------------------------------------------------------------------------

\* The books add up.
Adds(b) ==
    /\ IsFiniteSet(Units(Holds(b))) /\ b.reserved = Total(Holds(b))
    /\ IsFiniteSet(Units(b.capture)) /\ b.spent = Total(b.capture)
    /\ IsFiniteSet(Units(b.grant))
    /\ b.granted = Total(b.grant) + (IF b.open THEN SignupGrant ELSE 0)
    /\ b.balance + b.spent = b.granted
    /\ b.reserved <= b.balance

\* Rows exist only for jobs that exist, and money only in an open account.
Grounded(b) ==
    /\ \A j \in Jobs : j \notin b.jobs =>
         b.reserve[j] = NoRow /\ b.capture[j] = NoRow /\ b.release[j] = NoRow
    /\ ~b.open => b.balance = 0 /\ b.reserved = 0 /\ b.granted = 0 /\ b.spent = 0

Sound(b) == b \in Books /\ Adds(b) /\ Grounded(b)

\* What one transaction may have done to the books it started from.
JobAdvances(b, c, j) ==
    /\ b.capture[j] # NoRow => c.capture[j] = b.capture[j]
    /\ b.release[j] # NoRow => c.release[j] = b.release[j]
    /\ b.reserve[j] # NoRow => c.reserve[j] = b.reserve[j]
    /\ c.release[j] # NoRow /\ b.release[j] = NoRow /\ b.reserve[j] # NoRow
         => c.release[j] = b.reserve[j]

Extends(b, c) ==
    /\ b.jobs \subseteq c.jobs
    /\ b.granted <= c.granted
    /\ b.open => c.open
    /\ \A j \in Jobs : JobAdvances(b, c, j)

\* A session that is creating a job has not inserted its row yet.
Inserting(s) ==
    /\ pc[s] \in {"check", "ensure", "insert", "lock", "apply"}
    /\ call[s].kind = "reserve"

\* Where one session may be.
SessionOK(s) ==
    /\ pc[s] = "apply" => holder = s
    /\ outcome[s] # "none" => pc[s] = "failed"
    /\ InTransaction(s) /\ call[s].kind \in {"capture", "release"}
         => call[s].id \in books.jobs
    /\ Inserting(s) => call[s].id \notin draft.jobs

\* The only job a session can add to the draft is the one it is creating.
InsertsOwn(s, b) ==
    \A j \in b.jobs : j \in draft.jobs \/ (call[s].kind = "reserve" /\ j = call[s].id)

\* No two sessions create one job.
CreatorsDiffer ==
    \A s, t \in Sessions, j \in Jobs : Creating(s, j) /\ Creating(t, j) => s = t

\* The committed books and the draft add up, and the draft extends the books.
BooksOK ==
    /\ Sound(books)
    /\ Sound(draft)
    /\ Extends(books, draft)
    /\ holder = NoSession => draft = books
    /\ holder # NoSession => draft.open

\* The inductive invariant.
IInv ==
    /\ TypeOK
    /\ BooksOK
    /\ \A s \in Sessions : SessionOK(s)
    /\ CreatorsDiffer
    /\ ReserveRefusedByNameOnly

-----------------------------------------------------------------------------
(* The ledger calls keep the books sound.                                  *)

LEMMA RowFacts == NoRow \in Int /\ NoRow < 0 /\ Row \subseteq Int
BY DEF NoRow, Row

\* What a job holds is an amount, never negative: _reserved_for.
LEMMA HeldType ==
  ASSUME NEW b \in Books, NEW j \in Jobs
  PROVE  Held(b, j) \in Nat /\ Holds(b) \in [Jobs -> Int] /\ Holds(b)[j] = Held(b, j)
<1>1. \A i \in Jobs : Held(b, i) \in Nat
  BY DEF Held, Books, Row, NoRow
<1>2. QED
  BY <1>1 DEF Holds

\* Changing what one job holds moves the total by the difference.
LEMMA HoldsUpdate ==
  ASSUME NEW b, Sound(b), NEW j \in Jobs, NEW v \in Nat,
         NEW h, h = [Holds(b) EXCEPT ![j] = v]
  PROVE  /\ IsFiniteSet(Units(h))
         /\ Total(h) = Total(Holds(b)) - Positive(Held(b, j)) + Positive(v)
<1> DEFINE f == Holds(b)
<1>1. f \in [Jobs -> Int] /\ f[j] = Held(b, j) /\ IsFiniteSet(Units(f)) /\ v \in Int
  BY HeldType DEF Sound, Adds
<1> HIDE DEF f
<1>2. /\ IsFiniteSet(Units([f EXCEPT ![j] = v]))
      /\ Total([f EXCEPT ![j] = v]) = Total(f) - Positive(f[j]) + Positive(v)
  BY <1>1, TotalUpdate, Zenon
<1>3. QED
  BY <1>1, <1>2 DEF f

\* A workspace that has no account yet has sound books: the initial state.
LEMMA NewBooksSound ==
  ASSUME NEW js \in SUBSET Jobs
  PROVE  Sound(NewBooks(js))
<1> DEFINE b == NewBooks(js)
<1>1. b \in Books
  BY DEF NewBooks, Books, Row, NoRow
<1>2. \A j \in Jobs : Holds(b)[j] = 0 /\ b.capture[j] = -1
  BY DEF Holds, Held, NewBooks, NoRow
<1>3. /\ Holds(b) \in [Jobs -> Int]
      /\ b.capture \in [Jobs -> Int] /\ b.grant \in [GrantKeys -> Int]
  BY DEF Holds, Held, NewBooks, NoRow
<1>4. IsFiniteSet(Units(Holds(b))) /\ Total(Holds(b)) = 0
  BY <1>2, <1>3, EmptyTotal
<1>5. IsFiniteSet(Units(b.capture)) /\ Total(b.capture) = 0
  BY <1>2, <1>3, EmptyTotal
<1>6. \A k \in GrantKeys : b.grant[k] = -1
  BY DEF NewBooks, NoRow
<1>7. IsFiniteSet(Units(b.grant)) /\ Total(b.grant) = 0
  BY <1>3, <1>6, EmptyTotal
<1>8. Adds(b)
  BY <1>4, <1>5, <1>7 DEF Adds, NewBooks
<1>9. Grounded(b)
  BY DEF Grounded, NewBooks
<1>10. QED
  BY <1>1, <1>8, <1>9 DEF Sound

\* ensure_account's insert opens an account with the signup grant and
\* nothing held or spent.
LEMMA OpenedSound ==
  ASSUME NEW b, Sound(b), ~b.open
  PROVE  Sound(Opened(b)) /\ Extends(b, Opened(b)) /\ Opened(b).open
<1> DEFINE c == Opened(b)
<1>1. c \in Books
  BY LedgerAssumption DEF Sound, Opened, Books
<1>2. /\ c.capture = b.capture /\ c.reserve = b.reserve /\ c.release = b.release
      /\ c.grant = b.grant /\ c.jobs = b.jobs /\ c.open
      /\ c.spent = b.spent /\ c.reserved = 0
      /\ c.balance = SignupGrant /\ c.granted = SignupGrant
  BY DEF Sound, Opened, Books
<1>3. Holds(c) = Holds(b)
  BY <1>2 DEF Holds, Held
<1>4. b.reserved = 0 /\ b.granted = 0 /\ b.spent = 0
  BY DEF Sound, Grounded
<1>5. Total(b.grant) \in Nat
  BY FS_CardinalityType DEF Sound, Adds, Total
<1>6. Adds(c)
  BY <1>2, <1>3, <1>4, <1>5, LedgerAssumption DEF Sound, Adds
<1>7. Grounded(c)
  BY <1>2 DEF Sound, Grounded
<1>8. Extends(b, c)
  BY <1>2, <1>4, LedgerAssumption DEF Extends, JobAdvances, Sound
<1>9. QED
  BY <1>1, <1>2, <1>6, <1>7, <1>8 DEF Sound

\* A reservation the account can pay for, made for a job that has no rows,
\* moves reserved by exactly what the new row holds, and no constraint of
\* the account row can refuse it.
LEMMA ReservedSound ==
  ASSUME NEW b, Sound(b), b.open, NEW j \in Jobs, j \notin b.jobs,
         NEW a \in Nat, a <= Available(b)
  PROVE  /\ Sound(Reserved(b, j, a)) /\ Extends(b, Reserved(b, j, a))
         /\ Reserved(b, j, a).open /\ ChecksHold(Reserved(b, j, a))
<1> DEFINE c == Reserved(b, j, a)
<1>1. b \in Books
  BY DEF Sound
<1>2. /\ c.capture = b.capture /\ c.release = b.release /\ c.grant = b.grant
      /\ c.open = b.open /\ c.spent = b.spent /\ c.balance = b.balance
      /\ c.granted = b.granted /\ c.reserved = b.reserved + a
      /\ c.jobs = b.jobs \cup {j} /\ c.reserve = [b.reserve EXCEPT ![j] = a]
  BY <1>1 DEF Reserved, Books
<1>3. c \in Books
  <2>1. [b.reserve EXCEPT ![j] = a] \in [Jobs -> Row]
    BY <1>1 DEF Books, Row
  <2>2. b.reserved + a \in Nat /\ b.jobs \cup {j} \in SUBSET Jobs
    BY <1>1 DEF Books
  <2>3. QED
    BY <1>1, <2>1, <2>2 DEF Reserved, Books
<1>4. b.reserve[j] = NoRow /\ b.capture[j] = NoRow /\ b.release[j] = NoRow
  BY DEF Sound, Grounded
<1>5. Held(b, j) = 0
  BY <1>4 DEF Held
<1>6. Holds(c) = [Holds(b) EXCEPT ![j] = a]
  <2>1. \A i \in Jobs : Held(c, i) = IF i = j THEN a ELSE Held(b, i)
    BY <1>1, <1>2, <1>4 DEF Held, Books, NoRow
  <2>2. QED
    BY <2>1 DEF Holds
<1>7. /\ IsFiniteSet(Units(Holds(c)))
      /\ Total(Holds(c)) = Total(Holds(b)) - Positive(Held(b, j)) + Positive(a)
  BY <1>1, <1>6, HoldsUpdate
<1>8. Positive(a) = a /\ Positive(0) = 0
  BY DEF Positive
<1>9. c.reserved = Total(Holds(c)) /\ c.reserved <= c.balance
  BY <1>1, <1>2, <1>5, <1>7, <1>8 DEF Sound, Adds, Available, Books
<1>10. Adds(c)
  BY <1>2, <1>7, <1>9 DEF Sound, Adds
<1>11. Grounded(c)
  BY <1>1, <1>2 DEF Sound, Grounded, Books
<1>12. Extends(b, c)
  BY <1>1, <1>2, <1>4 DEF Extends, JobAdvances, Books
<1>13. ChecksHold(c)
  BY <1>3, <1>9 DEF ChecksHold, Books
<1>14. QED
  BY <1>2, <1>3, <1>10, <1>11, <1>12, <1>13 DEF Sound

\* A capture whose key is free drops the job's whole hold and charges one
\* row: the total of the capture rows moves by exactly what is spent.
LEMMA CapturedSound ==
  ASSUME NEW b, Sound(b), b.open, NEW j \in Jobs, j \in b.jobs, NEW a \in Nat,
         b.capture[j] = NoRow, ChecksHold(Captured(b, j, a))
  PROVE  /\ Sound(Captured(b, j, a)) /\ Extends(b, Captured(b, j, a))
         /\ Captured(b, j, a).open
<1> DEFINE c == Captured(b, j, a)
           charge == Minimum(a, b.balance)
<1>1. b \in Books
  BY DEF Sound
<1>2. charge \in Nat /\ charge <= b.balance
  BY <1>1 DEF Minimum, Books
<1>3. /\ c.reserve = b.reserve /\ c.release = b.release /\ c.grant = b.grant
      /\ c.open = b.open /\ c.jobs = b.jobs /\ c.granted = b.granted
      /\ c.spent = b.spent + charge /\ c.balance = b.balance - charge
      /\ c.reserved = Positive(b.reserved - Held(b, j))
      /\ c.capture = [b.capture EXCEPT ![j] = charge]
  BY <1>1 DEF Captured, Books
<1>4. Held(b, j) \in Nat /\ Holds(b) \in [Jobs -> Int] /\ Holds(b)[j] = Held(b, j)
  BY <1>1, HeldType
<1>5. Positive(Held(b, j)) = Held(b, j)
  BY <1>4 DEF Positive
<1>6. Held(b, j) <= b.reserved
  <2>1. Positive(Holds(b)[j]) <= Total(Holds(b))
    BY <1>4, EntryBound DEF Sound, Adds
  <2>2. QED
    BY <2>1, <1>4, <1>5 DEF Sound, Adds
<1>7. c.reserved = b.reserved - Held(b, j)
  BY <1>1, <1>3, <1>4, <1>6 DEF Positive, Books
<1>8. c \in Books
  <2>1. [b.capture EXCEPT ![j] = charge] \in [Jobs -> Row]
    BY <1>1, <1>2 DEF Books, Row
  <2>2. /\ b.reserved - Held(b, j) \in Nat /\ b.balance - charge \in Nat
        /\ b.spent + charge \in Nat
    BY <1>1, <1>2, <1>4, <1>6 DEF Books
  <2>3. Positive(b.reserved - Held(b, j)) \in Nat
    BY <2>2 DEF Positive
  <2>4. QED
    BY <1>1, <2>1, <2>2, <2>3 DEF Captured, Books
<1>9. Holds(c) = [Holds(b) EXCEPT ![j] = 0]
  <2>1. \A i \in Jobs : Held(c, i) = IF i = j THEN 0 ELSE Held(b, i)
    BY <1>1, <1>2, <1>3 DEF Held, Books, NoRow
  <2>2. QED
    BY <2>1 DEF Holds
<1>10. /\ IsFiniteSet(Units(Holds(c)))
       /\ Total(Holds(c)) = Total(Holds(b)) - Held(b, j)
  <2>1. /\ IsFiniteSet(Units(Holds(c)))
        /\ Total(Holds(c)) = Total(Holds(b)) - Positive(Held(b, j)) + Positive(0)
    BY <1>1, <1>9, HoldsUpdate
  <2>2. Positive(0) = 0
    BY DEF Positive
  <2>3. Total(Holds(b)) \in Nat
    BY <1>4, EntryBound DEF Sound, Adds
  <2>4. QED
    BY <2>1, <2>2, <2>3, <1>4, <1>5
<1>11. /\ IsFiniteSet(Units(c.capture))
       /\ Total(c.capture) = Total(b.capture) + charge
  <2>1. b.capture \in [Jobs -> Int]
    BY <1>1, RowFacts DEF Books
  <2>2. /\ IsFiniteSet(Units(c.capture))
        /\ Total(c.capture) =
             Total(b.capture) - Positive(b.capture[j]) + Positive(charge)
    BY <2>1, <1>2, <1>3, TotalUpdate DEF Sound, Adds
  <2>3. Positive(b.capture[j]) = 0 /\ Positive(charge) = charge
    BY <1>2, RowFacts DEF Positive
  <2>4. Total(b.capture) \in Nat
    BY <2>1, EntryBound DEF Sound, Adds
  <2>5. QED
    BY <2>2, <2>3, <2>4, <1>2
<1>12. c.balance + c.spent = c.granted
  BY <1>1, <1>2, <1>3 DEF Sound, Adds, Books
<1>13. Adds(c)
  BY <1>3, <1>7, <1>10, <1>11, <1>12 DEF Sound, Adds, ChecksHold
<1>14. Grounded(c)
  BY <1>1, <1>3 DEF Sound, Grounded, Books
<1>15. Extends(b, c)
  BY <1>1, <1>3 DEF Extends, JobAdvances, Books
<1>16. QED
  BY <1>3, <1>8, <1>13, <1>14, <1>15 DEF Sound

\* Releasing a live hold gives back exactly the hold and charges nothing.
LEMMA ReleasedSound ==
  ASSUME NEW b, Sound(b), b.open, NEW j \in Jobs, j \in b.jobs, Held(b, j) # 0
  PROVE  /\ Sound(Released(b, j)) /\ Extends(b, Released(b, j))
         /\ Released(b, j).open
<1> DEFINE c == Released(b, j)
<1>1. b \in Books
  BY DEF Sound
<1>2. /\ c.reserve = b.reserve /\ c.capture = b.capture /\ c.grant = b.grant
      /\ c.open = b.open /\ c.jobs = b.jobs /\ c.granted = b.granted
      /\ c.spent = b.spent /\ c.balance = b.balance
      /\ c.reserved = Positive(b.reserved - Held(b, j))
      /\ c.release = [b.release EXCEPT ![j] = Held(b, j)]
  BY <1>1 DEF Released, Books
<1>3. Held(b, j) \in Nat /\ Holds(b) \in [Jobs -> Int] /\ Holds(b)[j] = Held(b, j)
  BY <1>1, HeldType
<1>4. Positive(Held(b, j)) = Held(b, j) /\ Positive(0) = 0
  BY <1>3 DEF Positive
<1>5. Held(b, j) <= Total(Holds(b)) /\ Total(Holds(b)) \in Nat
  <2>1. Positive(Holds(b)[j]) <= Total(Holds(b)) /\ Total(Holds(b)) \in Nat
    BY <1>3, EntryBound DEF Sound, Adds
  <2>2. QED
    BY <2>1, <1>3, <1>4
<1>6. c.reserved = b.reserved - Held(b, j) /\ c.reserved \in Nat
  BY <1>1, <1>2, <1>3, <1>5 DEF Positive, Books, Sound, Adds
<1>7. c \in Books
  <2>1. [b.release EXCEPT ![j] = Held(b, j)] \in [Jobs -> Row]
    BY <1>1, <1>3 DEF Books, Row
  <2>2. QED
    BY <1>1, <1>2, <1>6, <2>1 DEF Released, Books
<1>8. b.reserve[j] = Held(b, j) /\ b.release[j] = NoRow /\ b.reserve[j] # NoRow
  BY DEF Held
<1>9. Holds(c) = [Holds(b) EXCEPT ![j] = 0]
  <2>1. \A i \in Jobs : Held(c, i) = IF i = j THEN 0 ELSE Held(b, i)
    BY <1>1, <1>2, <1>3 DEF Held, Books, NoRow
  <2>2. QED
    BY <2>1 DEF Holds
<1>10. /\ IsFiniteSet(Units(Holds(c)))
       /\ Total(Holds(c)) = Total(Holds(b)) - Held(b, j)
  <2>1. /\ IsFiniteSet(Units(Holds(c)))
        /\ Total(Holds(c)) = Total(Holds(b)) - Positive(Held(b, j)) + Positive(0)
    BY <1>9, HoldsUpdate
  <2>2. QED
    BY <2>1, <1>3, <1>4, <1>5
<1>11. Adds(c)
  BY <1>1, <1>2, <1>3, <1>6, <1>10 DEF Sound, Adds, Books
<1>12. Grounded(c)
  BY <1>1, <1>2, <1>6, <1>3 DEF Sound, Grounded, Books
<1>13. Extends(b, c)
  BY <1>1, <1>2, <1>8 DEF Extends, JobAdvances, Books
<1>14. QED
  BY <1>2, <1>7, <1>11, <1>12, <1>13 DEF Sound

\* A top-up under a free key adds the same amount to the balance, to the
\* lifetime total and to the grant rows.
LEMMA ToppedSound ==
  ASSUME NEW b, Sound(b), b.open, NEW k \in GrantKeys, NEW a \in Nat,
         b.grant[k] = NoRow
  PROVE  Sound(Topped(b, k, a)) /\ Extends(b, Topped(b, k, a)) /\ Topped(b, k, a).open
<1> DEFINE c == Topped(b, k, a)
<1>1. b \in Books
  BY DEF Sound
<1>2. /\ c.reserve = b.reserve /\ c.capture = b.capture /\ c.release = b.release
      /\ c.open = b.open /\ c.jobs = b.jobs /\ c.granted = b.granted + a
      /\ c.spent = b.spent /\ c.balance = b.balance + a
      /\ c.reserved = b.reserved /\ c.grant = [b.grant EXCEPT ![k] = a]
  BY <1>1 DEF Topped, Books
<1>3. c \in Books
  <2>1. [b.grant EXCEPT ![k] = a] \in [GrantKeys -> Row]
    BY <1>1 DEF Books, Row
  <2>2. b.balance + a \in Nat /\ b.granted + a \in Nat
    BY <1>1 DEF Books
  <2>3. QED
    BY <1>1, <2>1, <2>2 DEF Topped, Books
<1>4. Holds(c) = Holds(b)
  BY <1>2 DEF Holds, Held
<1>5. IsFiniteSet(Units(c.grant)) /\ Total(c.grant) = Total(b.grant) + a
  <2>1. b.grant \in [GrantKeys -> Int]
    BY <1>1, RowFacts DEF Books
  <2>2. /\ IsFiniteSet(Units(c.grant))
        /\ Total(c.grant) = Total(b.grant) - Positive(b.grant[k]) + Positive(a)
    BY <2>1, <1>2, TotalUpdate DEF Sound, Adds
  <2>3. Positive(b.grant[k]) = 0 /\ Positive(a) = a
    BY RowFacts DEF Positive
  <2>4. Total(b.grant) \in Nat
    BY FS_CardinalityType DEF Total, Sound, Adds
  <2>5. QED
    BY <2>2, <2>3, <2>4
<1>6. Total(b.grant) \in Nat
  BY FS_CardinalityType DEF Total, Sound, Adds
<1>7. Adds(c)
  BY <1>1, <1>2, <1>4, <1>5, <1>6, LedgerAssumption DEF Sound, Adds, Books
<1>8. Grounded(c)
  BY <1>2 DEF Sound, Grounded
<1>9. Extends(b, c)
  BY <1>1, <1>2 DEF Extends, JobAdvances, Books
<1>10. QED
  BY <1>2, <1>3, <1>7, <1>8, <1>9 DEF Sound

\* A transaction of several calls extends the books it started from.
LEMMA ExtendsTransitive ==
  ASSUME NEW b \in Books, NEW c \in Books, NEW d \in Books,
         Extends(b, c), Extends(c, d)
  PROVE  Extends(b, d)
<1>1. b.jobs \subseteq d.jobs /\ b.granted <= d.granted /\ (b.open => d.open)
  BY DEF Extends, Books
<1>2. ASSUME NEW j \in Jobs PROVE JobAdvances(b, d, j)
  BY DEF Extends, JobAdvances
<1>3. QED
  BY <1>1, <1>2 DEF Extends

LEMMA ExtendsReflexive ==
  ASSUME NEW b \in Books
  PROVE  Extends(b, b)
BY DEF Extends, JobAdvances, Books

-----------------------------------------------------------------------------
(* The invariant is inductive.                                             *)

\* Before anything runs, there is no account and no session in a call.
LEMMA InitInv == Init => IInv
<1> SUFFICES ASSUME Init PROVE IInv
  OBVIOUS
<1>1. PICK js \in SUBSET Jobs : books = NewBooks(js)
  BY DEF Init
<1>2. Sound(books) /\ draft = books /\ books \in Books
  BY <1>1, NewBooksSound DEF Init, Sound
<1>3. BooksOK
  BY <1>2, ExtendsReflexive DEF BooksOK, Init
<1>4. NoCall \in Calls
  BY DEF NoCall, Calls
<1>5. TypeOK
  BY <1>2, <1>4 DEF Init, TypeOK, PcTypes, Outcomes
<1>6. \A s \in Sessions : SessionOK(s)
  BY DEF Init, SessionOK, InTransaction, Inserting
<1>7. CreatorsDiffer /\ ReserveRefusedByNameOnly
  BY DEF Init, CreatorsDiffer, Creating, InTransaction, ReserveRefusedByNameOnly
<1>8. QED
  BY <1>3, <1>5, <1>6, <1>7 DEF IInv

\* A session starting a call touches no books; a job it creates is fresh.
LEMMA BeginInv ==
  ASSUME IInv, NEW s \in Sessions, Begin(s)
  PROVE  IInv'
<1>1. PICK c \in Calls : /\ MayCall(c)
                         /\ call' = [call EXCEPT ![s] = c]
                         /\ pc' = [pc EXCEPT ![s] = IF c.kind = "open" THEN "ensure" ELSE "check"]
  BY DEF Begin
<1>2. UNCHANGED <<books, holder, draft, lost, outcome>> /\ pc[s] \in {"idle", "done"}
  BY DEF Begin
<1>3. TypeOK'
  BY <1>1, <1>2 DEF IInv, TypeOK, PcTypes
<1>4. BooksOK'
  BY <1>2 DEF IInv, BooksOK
<1>5. outcome[s] = "none"
  BY <1>2 DEF IInv, SessionOK
<1>6. /\ c.kind \in {"capture", "release"} => c.id \in books.jobs
      /\ c.kind = "reserve" => FreshJob(c.id)
  BY <1>1 DEF MayCall
<1>7. ASSUME NEW t \in Sessions PROVE SessionOK(t)'
  <2>1. CASE t = s
    BY <1>1, <1>2, <1>3, <1>5, <1>6, <2>1
       DEF IInv, TypeOK, SessionOK, InTransaction, Inserting, FreshJob
  <2>2. CASE t # s
    BY <1>1, <1>2, <2>2 DEF IInv, TypeOK, SessionOK, InTransaction, Inserting
  <2>3. QED
    BY <2>1, <2>2
<1>8. CreatorsDiffer'
  BY <1>1, <1>2, <1>6
     DEF IInv, TypeOK, CreatorsDiffer, Creating, InTransaction, FreshJob
<1>9. ReserveRefusedByNameOnly'
  BY <1>1, <1>2, <1>5 DEF IInv, TypeOK, ReserveRefusedByNameOnly
<1>10. QED
  BY <1>3, <1>4, <1>7, <1>8, <1>9 DEF IInv

\* A session that only moves its own program counter within a call, or ends
\* the call, keeps the invariant.
LEMMA LocalInv ==
  ASSUME IInv, NEW s \in Sessions,
         pc[s] \in {"check", "ensure", "insert", "lock"},
         NEW q \in {"ensure", "insert", "lock", "done"},
         pc' = [pc EXCEPT ![s] = q],
         UNCHANGED <<books, holder, draft, call, outcome>>,
         lost' \subseteq Sessions
  PROVE  IInv'
<1>1. TypeOK'
  BY DEF IInv, TypeOK, PcTypes
<1>2. BooksOK'
  BY DEF IInv, BooksOK
<1>3. \A t \in Sessions : SessionOK(t)'
  BY DEF IInv, TypeOK, SessionOK, InTransaction, Inserting
<1>4. CreatorsDiffer' /\ ReserveRefusedByNameOnly'
  BY DEF IInv, TypeOK, CreatorsDiffer, Creating, InTransaction, ReserveRefusedByNameOnly
<1>5. QED
  BY <1>1, <1>2, <1>3, <1>4 DEF IInv

LEMMA CheckKeyInv ==
  ASSUME IInv, NEW s \in Sessions, CheckKey(s)
  PROVE  IInv'
<1>1. /\ pc[s] = "check" /\ UNCHANGED <<books, holder, draft, call, outcome>>
      /\ lost' \subseteq Sessions
      /\ \E q \in {"ensure", "insert", "lock", "done"} : pc' = [pc EXCEPT ![s] = q]
  BY DEF CheckKey, Finish, IInv, TypeOK
<1>2. QED
  BY <1>1, LocalInv

LEMMA EnsureAccountInv ==
  ASSUME IInv, NEW s \in Sessions, EnsureAccount(s)
  PROVE  IInv'
<1>1. /\ pc[s] = "ensure" /\ UNCHANGED <<books, holder, draft, call, outcome>>
      /\ lost' \subseteq Sessions
      /\ \E q \in {"ensure", "insert", "lock", "done"} : pc' = [pc EXCEPT ![s] = q]
  BY DEF EnsureAccount, Ensured, Finish, IInv, TypeOK
<1>2. QED
  BY <1>1, LocalInv

\* Either the insert loses the race and only the job row is lost, or it opens
\* the account in this session's draft.
LEMMA InsertAccountInv ==
  ASSUME IInv, NEW s \in Sessions, InsertAccount(s)
  PROVE  IInv'
<1>1. /\ pc[s] = "insert" /\ UNCHANGED <<books, call, outcome>>
      /\ \E q \in {"ensure", "insert", "lock", "done"} : pc' = [pc EXCEPT ![s] = q]
  BY DEF InsertAccount, Ensured, Finish
<1>2. CASE books.open /\ UNCHANGED <<holder, draft>> /\ lost' \subseteq Sessions
  BY <1>1, <1>2, LocalInv
<1>3. CASE /\ ~books.open /\ holder = NoSession /\ holder' = s
           /\ draft' = Opened(books) /\ lost' = lost
  <2>1. draft = books /\ Sound(books)
    BY <1>3 DEF IInv, BooksOK
  <2>2. Sound(Opened(books)) /\ Extends(books, Opened(books)) /\ Opened(books).open
    BY <1>3, <2>1, OpenedSound
  <2>3. Opened(books).jobs = books.jobs
    BY <2>1 DEF Opened, Sound, Books
  <2>4. BooksOK'
    BY <1>1, <1>3, <2>1, <2>2, LedgerAssumption DEF BooksOK
  <2>5. TypeOK'
    BY <1>1, <1>3, <2>2 DEF IInv, TypeOK, PcTypes, Sound
  <2>6. \A t \in Sessions : SessionOK(t)'
    BY <1>1, <1>3, <2>1, <2>3, LedgerAssumption
       DEF IInv, TypeOK, SessionOK, InTransaction, Inserting
  <2>7. CreatorsDiffer' /\ ReserveRefusedByNameOnly'
    BY <1>1 DEF IInv, TypeOK, CreatorsDiffer, Creating, InTransaction,
                ReserveRefusedByNameOnly
  <2>8. QED
    BY <2>4, <2>5, <2>6, <2>7 DEF IInv
<1>4. QED
  BY <1>2, <1>3 DEF InsertAccount, IInv, TypeOK

\* A call that raises leaves the books and the draft alone.
LEMMA FailInv ==
  ASSUME IInv, NEW s \in Sessions, pc[s] \in {"lock", "apply"},
         NEW how \in Outcomes, Fail(s, how),
         call[s].kind = "reserve" => how # "check_refused",
         UNCHANGED <<books, holder, draft, call, lost>>
  PROVE  IInv'
<1>1. /\ outcome' = [outcome EXCEPT ![s] = how]
      /\ pc' = [pc EXCEPT ![s] = "failed"]
  BY DEF Fail
<1>2. TypeOK' /\ BooksOK'
  BY <1>1 DEF IInv, TypeOK, BooksOK, PcTypes
<1>3. \A t \in Sessions : SessionOK(t)'
  BY <1>1 DEF IInv, TypeOK, SessionOK, InTransaction, Inserting
<1>4. CreatorsDiffer' /\ ReserveRefusedByNameOnly'
  BY <1>1 DEF IInv, TypeOK, CreatorsDiffer, Creating, InTransaction,
              ReserveRefusedByNameOnly
<1>5. QED
  BY <1>2, <1>3, <1>4 DEF IInv

\* The row lock hands the session the books as they are committed.
LEMMA LockAccountInv ==
  ASSUME IInv, NEW s \in Sessions, LockAccount(s)
  PROVE  IInv'
<1>1. pc[s] = "lock" /\ UNCHANGED <<books, call, lost>>
  BY DEF LockAccount
<1>2. CASE /\ holder = s \/ (holder = NoSession /\ books.open)
           /\ holder' = s /\ draft' = View(s)
           /\ pc' = [pc EXCEPT ![s] = "apply"] /\ outcome' = outcome
  <2>1. draft' = draft
    BY <1>2 DEF IInv, BooksOK, View
  <2>2. draft.open
    BY <1>2, LedgerAssumption DEF IInv, BooksOK
  <2>3. TypeOK' /\ BooksOK'
    BY <1>1, <1>2, <2>1, <2>2, LedgerAssumption DEF IInv, TypeOK, BooksOK, PcTypes
  <2>4. \A t \in Sessions : SessionOK(t)'
    BY <1>1, <1>2, <2>1, LedgerAssumption
       DEF IInv, TypeOK, SessionOK, InTransaction, Inserting
  <2>5. CreatorsDiffer' /\ ReserveRefusedByNameOnly'
    BY <1>1, <1>2 DEF IInv, TypeOK, CreatorsDiffer, Creating, InTransaction,
                      ReserveRefusedByNameOnly
  <2>6. QED
    BY <2>3, <2>4, <2>5 DEF IInv
<1>3. CASE /\ holder # s /\ ~books.open /\ UNCHANGED <<holder, draft>>
           /\ call[s].kind = "release" /\ Finish(s)
  BY <1>1, <1>3, LocalInv DEF Finish, IInv, TypeOK
<1>4. CASE /\ holder # s /\ ~books.open /\ UNCHANGED <<holder, draft>>
           /\ call[s].kind # "release" /\ Fail(s, "not_found")
  BY <1>1, <1>4, FailInv DEF Outcomes
<1>5. QED
  BY <1>2, <1>3, <1>4 DEF LockAccount

\* A session under the row lock writes books that extend its draft and
\* insert no job but the one it is creating.
LEMMA WriteInv ==
  ASSUME IInv, NEW s \in Sessions, pc[s] = "apply", Finish(s),
         UNCHANGED <<books, holder, call, lost>>,
         Sound(draft'), Extends(draft, draft'), draft'.open,
         InsertsOwn(s, draft')
  PROVE  IInv'
<1>1. pc' = [pc EXCEPT ![s] = "done"] /\ outcome' = outcome
  BY DEF Finish
<1>2. books \in Books /\ draft \in Books /\ draft' \in Books /\ holder = s
  BY DEF IInv, BooksOK, SessionOK, Sound
<1>3. TypeOK'
  BY <1>1, <1>2 DEF IInv, TypeOK, PcTypes
<1>4. BooksOK'
  BY <1>2, ExtendsTransitive, LedgerAssumption DEF IInv, BooksOK
<1>5. ASSUME NEW t \in Sessions PROVE SessionOK(t)'
  <2>1. CASE t = s
    BY <1>1, <1>2, <2>1 DEF IInv, TypeOK, SessionOK, InTransaction, Inserting
  <2>2. CASE t # s
    <3>1. Inserting(t) /\ call[s].kind = "reserve" => call[t].id # call[s].id
      BY <2>2 DEF IInv, TypeOK, CreatorsDiffer, Creating, InTransaction, Inserting, Calls
    <3>2. QED
      BY <1>1, <1>2, <2>2, <3>1
         DEF IInv, TypeOK, SessionOK, InTransaction, Inserting, InsertsOwn
  <2>3. QED
    BY <2>1, <2>2
<1>6. CreatorsDiffer' /\ ReserveRefusedByNameOnly'
  BY <1>1 DEF IInv, TypeOK, CreatorsDiffer, Creating, InTransaction,
              ReserveRefusedByNameOnly
<1>7. QED
  BY <1>3, <1>4, <1>5, <1>6 DEF IInv

\* A flush either refuses the call and leaves the draft, or writes it; when
\* it writes, the key was free.
LEMMA FlushInv ==
  ASSUME IInv, NEW s \in Sessions, pc[s] = "apply", NEW b, Flush(s, b),
         UNCHANGED <<books, holder, call, lost>>,
         ChecksHold(b) /\ ~KeyTaken(draft, call[s])
           => Sound(b) /\ Extends(draft, b) /\ b.open,
         call[s].kind = "reserve" => ChecksHold(b),
         InsertsOwn(s, b)
  PROVE  IInv'
<1>1. CASE ~ChecksHold(b)
  BY <1>1, FailInv DEF Flush, Outcomes
<1>2. CASE ChecksHold(b) /\ KeyTaken(draft, call[s])
  BY <1>2, FailInv DEF Flush, Outcomes
<1>3. CASE ChecksHold(b) /\ ~KeyTaken(draft, call[s])
  BY <1>3, WriteInv DEF Flush
<1>4. QED
  BY <1>1, <1>2, <1>3

\* The body of each call keeps the invariant.
LEMMA ApplyInv ==
  ASSUME IInv, NEW s \in Sessions, Apply(s)
  PROVE  IInv'
<1>1. pc[s] = "apply" /\ UNCHANGED <<books, holder, call, lost>>
  BY DEF Apply
<1>2. /\ Sound(draft) /\ draft.open /\ draft \in Books /\ call[s] \in Calls
      /\ books.jobs \subseteq draft.jobs
  BY <1>1, LedgerAssumption DEF IInv, TypeOK, BooksOK, SessionOK, Extends
<1> DEFINE j == call[s].id
           a == call[s].amount
<1>3. CASE call[s].kind = "reserve" /\ ApplyReserve(s)
  <2>1. j \in Jobs /\ a \in Nat /\ j \notin draft.jobs
    BY <1>1, <1>2, <1>3, LedgerAssumption DEF IInv, SessionOK, Inserting, Calls
  <2>2. CASE a > Available(draft)
    BY <1>1, <1>3, <2>2, FailInv DEF ApplyReserve, Outcomes
  <2>3. CASE a <= Available(draft) /\ s \in lost
    BY <1>1, <1>2, <1>3, <2>1, <2>3, FailInv DEF ApplyReserve, Outcomes, Available, Books
  <2>4. CASE a <= Available(draft) /\ s \notin lost
    <3>1. Flush(s, Reserved(draft, j, a))
      BY <1>2, <1>3, <2>1, <2>4 DEF ApplyReserve, Available, Books
    <3>2. /\ Sound(Reserved(draft, j, a)) /\ Extends(draft, Reserved(draft, j, a))
          /\ Reserved(draft, j, a).open /\ ChecksHold(Reserved(draft, j, a))
      BY <1>2, <2>1, <2>4, ReservedSound
    <3>3. InsertsOwn(s, Reserved(draft, j, a))
      BY <1>2, <1>3 DEF Reserved, Books, InsertsOwn
    <3>4. QED
      BY <1>1, <1>3, <3>1, <3>2, <3>3, FlushInv
  <2>5. QED
    BY <1>2, <2>1, <2>2, <2>3, <2>4 DEF Available, Books
<1>4. CASE call[s].kind = "capture" /\ ApplyCapture(s)
  <2>1. j \in draft.jobs /\ j \in Jobs /\ a \in Nat
    BY <1>1, <1>2, <1>4, LedgerAssumption DEF IInv, SessionOK, InTransaction, Calls
  <2>2. ~KeyTaken(draft, call[s]) => draft.capture[j] = NoRow
    BY <1>4 DEF KeyTaken
  <2>3. ChecksHold(Captured(draft, j, a)) /\ ~KeyTaken(draft, call[s])
          => /\ Sound(Captured(draft, j, a)) /\ Extends(draft, Captured(draft, j, a))
             /\ Captured(draft, j, a).open
    BY <1>2, <2>1, <2>2, CapturedSound
  <2>4. InsertsOwn(s, Captured(draft, j, a))
    BY <1>2 DEF Captured, Books, InsertsOwn
  <2>5. QED
    <3>1. Flush(s, Captured(draft, j, a)) /\ call[s].kind # "reserve"
      BY <1>4 DEF ApplyCapture
    <3>2. QED
      BY <1>1, <2>3, <2>4, <3>1, FlushInv
<1>5. CASE call[s].kind = "release" /\ ApplyRelease(s)
  <2>1. j \in draft.jobs /\ j \in Jobs
    BY <1>1, <1>2, <1>5 DEF IInv, SessionOK, InTransaction, Calls
  <2>2. CASE Held(draft, j) = 0
    <3>1. draft' = draft
      BY <1>5, <2>2 DEF ApplyRelease
    <3>2. Finish(s)
      BY <1>5, <2>2 DEF ApplyRelease
    <3>3. Sound(draft') /\ Extends(draft, draft') /\ draft'.open
      BY <1>2, <3>1, ExtendsReflexive
    <3>4. InsertsOwn(s, draft')
      BY <3>1 DEF InsertsOwn
    <3>5. QED
      BY <1>1, <3>2, <3>3, <3>4, WriteInv
  <2>3. CASE Held(draft, j) # 0
    <3>1. /\ Sound(Released(draft, j)) /\ Extends(draft, Released(draft, j))
          /\ Released(draft, j).open
      BY <1>2, <2>1, <2>3, ReleasedSound
    <3>2. InsertsOwn(s, Released(draft, j))
      BY <1>2 DEF Released, Books, InsertsOwn
    <3>3. QED
      <4>1. Flush(s, Released(draft, j)) /\ call[s].kind # "reserve"
        BY <1>5, <2>3 DEF ApplyRelease
      <4>2. QED
        BY <1>1, <3>1, <3>2, <4>1, FlushInv
  <2>4. QED
    BY <2>2, <2>3
<1>6. CASE call[s].kind = "grant" /\ ApplyGrant(s)
  <2>1. j \in GrantKeys /\ a \in Nat
    BY <1>2, <1>6, LedgerAssumption DEF Calls
  <2>2. ~KeyTaken(draft, call[s]) => draft.grant[j] = NoRow
    BY <1>6 DEF KeyTaken
  <2>3. ~KeyTaken(draft, call[s])
          => /\ Sound(Topped(draft, j, a)) /\ Extends(draft, Topped(draft, j, a))
             /\ Topped(draft, j, a).open
    BY <1>2, <2>1, <2>2, ToppedSound
  <2>4. InsertsOwn(s, Topped(draft, j, a))
    BY <1>2 DEF Topped, Books, InsertsOwn
  <2>5. QED
    <3>1. Flush(s, Topped(draft, j, a)) /\ call[s].kind # "reserve"
      BY <1>6 DEF ApplyGrant
    <3>2. QED
      BY <1>1, <2>3, <2>4, <3>1, FlushInv
<1>7. QED
  BY <1>3, <1>4, <1>5, <1>6 DEF Apply

\* A commit publishes the draft; whoever reads next sees it.
LEMMA CommitInv ==
  ASSUME IInv, NEW s \in Sessions, Commit(s)
  PROVE  IInv'
<1>1. /\ pc[s] = "done" /\ books' = View(s) /\ UNCHANGED draft
      /\ holder' = IF holder = s THEN NoSession ELSE holder
      /\ pc' = [pc EXCEPT ![s] = "idle"] /\ call' = [call EXCEPT ![s] = NoCall]
      /\ lost' = lost \ {s} /\ outcome' = [outcome EXCEPT ![s] = "none"]
  BY DEF Commit, EndTransaction
<1>2. NoCall \in Calls
  BY DEF NoCall, Calls
<1>3. TypeOK'
  BY <1>1, <1>2 DEF IInv, TypeOK, View, PcTypes, Outcomes
<1>4. BooksOK' /\ books.jobs \subseteq books'.jobs
  BY <1>1, ExtendsReflexive, LedgerAssumption
     DEF IInv, TypeOK, BooksOK, View, Extends, Sound
<1>5. ASSUME NEW t \in Sessions PROVE SessionOK(t)'
  BY <1>1, <1>4 DEF IInv, TypeOK, SessionOK, InTransaction, Inserting, NoCall
<1>6. CreatorsDiffer' /\ ReserveRefusedByNameOnly'
  BY <1>1 DEF IInv, TypeOK, CreatorsDiffer, Creating, InTransaction,
              ReserveRefusedByNameOnly, NoCall
<1>7. QED
  BY <1>3, <1>4, <1>5, <1>6 DEF IInv

\* A rollback forgets the draft, and with it any job it inserted.
LEMMA RollbackInv ==
  ASSUME IInv, NEW s \in Sessions, Rollback(s)
  PROVE  IInv'
<1>1. /\ UNCHANGED books
      /\ holder' = IF holder = s THEN NoSession ELSE holder
      /\ draft' = IF holder = s THEN books ELSE draft
      /\ pc' = [pc EXCEPT ![s] = "idle"] /\ call' = [call EXCEPT ![s] = NoCall]
      /\ lost' = lost \ {s} /\ outcome' = [outcome EXCEPT ![s] = "none"]
  BY DEF Rollback, EndTransaction
<1>2. NoCall \in Calls
  BY DEF NoCall, Calls
<1>3. TypeOK'
  BY <1>1, <1>2 DEF IInv, TypeOK, PcTypes, Outcomes
<1>4. BooksOK' /\ draft'.jobs \subseteq draft.jobs
  BY <1>1, ExtendsReflexive, LedgerAssumption
     DEF IInv, TypeOK, BooksOK, Extends, Sound
<1>5. ASSUME NEW t \in Sessions PROVE SessionOK(t)'
  BY <1>1, <1>4 DEF IInv, TypeOK, SessionOK, InTransaction, Inserting, NoCall
<1>6. CreatorsDiffer' /\ ReserveRefusedByNameOnly'
  BY <1>1 DEF IInv, TypeOK, CreatorsDiffer, Creating, InTransaction,
              ReserveRefusedByNameOnly, NoCall
<1>7. QED
  BY <1>3, <1>4, <1>5, <1>6 DEF IInv

LEMMA NextInv == IInv /\ [Next]_vars => IInv'
<1> SUFFICES ASSUME IInv, [Next]_vars PROVE IInv'
  OBVIOUS
<1>1. ASSUME NEW s \in Sessions, Step(s) PROVE IInv'
  BY <1>1, BeginInv, CheckKeyInv, EnsureAccountInv, InsertAccountInv,
     LockAccountInv, ApplyInv, CommitInv, RollbackInv DEF Step
<1>2. CASE UNCHANGED vars
  BY <1>2 DEF vars, IInv, TypeOK, BooksOK, SessionOK, CreatorsDiffer, Creating,
              InTransaction, Inserting, ReserveRefusedByNameOnly
<1>3. QED
  BY <1>1, <1>2 DEF Next

-----------------------------------------------------------------------------
(* The theorems.                                                           *)

THEOREM Invariance == Spec => []IInv
BY InitInv, NextInv, PTL DEF Spec

\* Balance and reserved are never negative in committed books, and every
\* other variable has its type.
THEOREM TypeCorrect == Spec => []TypeOK
BY Invariance, PTL DEF IInv

\* For any number of jobs and concurrent sessions, reserved is the sum of the
\* holds the rows say are still open.
THEOREM HoldsAddUp == Spec => []ReservedMatchesHolds
<1>1. IInv => ReservedMatchesHolds
  BY DEF IInv, BooksOK, Sound, Adds, ReservedMatchesHolds
<1>2. QED
  BY <1>1, Invariance, PTL

\* No double charge, for any number of redelivered workers: spent is the sum
\* of one capture row a job.
THEOREM ChargesAddUp == Spec => []SpentMatchesCaptures
<1>1. IInv => SpentMatchesCaptures
  BY DEF IInv, BooksOK, Sound, Adds, SpentMatchesCaptures
<1>2. QED
  BY <1>1, Invariance, PTL

\* The overdraft constraint never refuses a reservation: the check under the
\* row lock always gets there first.
THEOREM OverdraftRefusedByName == Spec => []ReserveRefusedByNameOnly
<1>1. IInv => ReserveRefusedByNameOnly
  BY DEF IInv
<1>2. QED
  BY <1>1, Invariance, PTL

-----------------------------------------------------------------------------
(* The ledger implements the escrow.                                       *)

\* The holds and charges the escrow sees are the ledger's, and sound books
\* make it solvent.
LEMMA SoundSolvent ==
  ASSUME Sound(books)
  PROVE  E!Solvent
<1>1. books \in Books
  BY DEF Sound
<1>2. E!HeldCredits = Holds(books)
  <2>1. ASSUME NEW j \in Jobs
        PROVE  (IF StageOf(books, j) = "held" THEN AmountOf(books, j) ELSE 0)
                 = Held(books, j)
    BY DEF StageOf, AmountOf, Held
  <2>2. QED
    BY <2>1 DEF E!HeldCredits, Holds
<1>3. \A j \in Jobs : E!ChargedCredits[j] = Positive(books.capture[j])
  <2>1. ASSUME NEW j \in Jobs
        PROVE  (IF StageOf(books, j) = "charged" THEN AmountOf(books, j) ELSE 0)
                 = Positive(books.capture[j])
    BY <1>1, RowFacts DEF StageOf, AmountOf, Positive, Books, Row, NoRow
  <2>2. QED
    BY <2>1 DEF E!ChargedCredits
<1>4. Units(E!ChargedCredits) = Units(books.capture)
  <2>1. DOMAIN E!ChargedCredits = Jobs /\ DOMAIN books.capture = Jobs
    BY <1>1 DEF E!ChargedCredits, Books
  <2>2. \A j \in Jobs : books.capture[j] \in Int
    BY <1>1, RowFacts DEF Books
  <2>3. \A j \in Jobs : Column(j, E!ChargedCredits[j]) = Column(j, books.capture[j])
    BY <1>3, <2>2 DEF Column, Positive
  <2>4. QED
    BY <2>1, <2>3 DEF Units
<1>5. /\ Total(E!HeldCredits) = books.reserved
      /\ Total(E!ChargedCredits) = books.spent
  BY <1>2, <1>4 DEF Total, Sound, Adds
<1>6. books.reserved + books.spent <= books.granted
  BY <1>1 DEF Sound, Adds, Books
<1>7. ASSUME NEW f PROVE E!Total(f) = Total(f)
  BY DEF E!Total, E!Units, E!Column, Total, Units, Column, Cardinality, E!Cardinality
<1>8. Total(E!HeldCredits) + Total(E!ChargedCredits) <= books.granted
  BY <1>5, <1>6
<1>9. QED
  BY <1>7, <1>8, Zenon DEF E!Solvent

\* Extending the books moves each job's money forward or not at all.
LEMMA ExtendsSettles ==
  ASSUME books \in Books, books' \in Books, Extends(books, books'), NEW j \in Jobs
  PROVE  E!Settle(j)
<1> DEFINE st == StageOf(books, j)
           am == AmountOf(books, j)
<1>1. JobAdvances(books, books', j)
  BY DEF Extends
<1>2. \/ StageOf(books', j) = st /\ AmountOf(books', j) = am
      \/ /\ E!Order[st] < E!Order[StageOf(books', j)]
         /\ st = "held" /\ StageOf(books', j) = "returned" => AmountOf(books', j) = am
  BY <1>1 DEF JobAdvances, StageOf, AmountOf, E!Order
<1>3. QED
  BY <1>2 DEF E!Settle

\* The ledger implements the escrow: stages only move forward, a hold comes
\* back as it was taken, a charge is final, and the credits granted always
\* cover what is charged and held.
THEOREM LedgerImplementsEscrow == Spec => ImplementsEscrow
<1>1. Init => E!Init
  <2>1. ASSUME NEW js \in SUBSET Jobs, NEW j \in Jobs
        PROVE  StageOf(NewBooks(js), j) = "fresh" /\ AmountOf(NewBooks(js), j) = 0
    BY DEF StageOf, AmountOf, NewBooks
  <2>2. \A js \in SUBSET Jobs : NewBooks(js).granted = 0
    BY DEF NewBooks
  <2>3. QED
    BY <2>1, <2>2 DEF Init, E!Init
<1>2. Sound(books) => E!Solvent
  BY SoundSolvent
<1>3. Sound(books)' => E!Solvent'
  BY <1>2, PTL
<1>4. IInv /\ IInv' /\ [Next]_vars => [E!Next]_E!vars
  <2> SUFFICES ASSUME IInv, IInv', [Next]_vars PROVE [E!Next]_E!vars
    OBVIOUS
  <2>1. CASE books' = books
    BY <2>1 DEF E!vars, StageOf, AmountOf
  <2>2. ASSUME NEW s \in Sessions, Commit(s)
        PROVE  [E!Next]_E!vars
    <3>1. books' = draft \/ books' = books
      BY <2>2 DEF Commit, View
    <3>2. CASE books' = draft
      <4>1. books \in Books /\ books' \in Books /\ Extends(books, books')
        BY <3>2 DEF IInv, BooksOK, Sound
      <4>2. \A j \in Jobs : E!Settle(j)
        BY <4>1, ExtendsSettles
      <4>3. E!Solvent'
        BY <1>3 DEF IInv, BooksOK
      <4>4. books.granted <= books'.granted /\ books'.granted \in Nat
        BY <4>1 DEF Extends, Books
      <4>5. \A j \in Jobs : /\ StageOf(books', j) \in E!Stages
                            /\ AmountOf(books', j) \in Nat
        BY <4>1 DEF StageOf, AmountOf, E!Stages, Books, Row, NoRow
      <4>6. E!Next
        BY <4>1, <4>2, <4>3, <4>4, <4>5 DEF E!Next, Books
      <4>7. QED
        BY <4>6
    <3>3. QED
      BY <2>1, <3>1, <3>2
  <2>3. QED
    BY <2>1, <2>2 DEF Next, Step, vars, Begin, CheckKey, EnsureAccount, InsertAccount,
                      LockAccount, Apply, Rollback
<1>5. QED
  BY <1>1, <1>4, Invariance, PTL DEF Spec, ImplementsEscrow, E!Spec
=============================================================================
