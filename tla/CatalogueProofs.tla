--------------------------- MODULE CatalogueProofs ---------------------------
(***************************************************************************)
(* Proofs about one product: its facts and claims (ProductTruth), and its  *)
(* images and status (Products), for any sessions, rows and bounds.        *)
(*                                                                         *)
(* A transaction sends the columns it changed of a row it read, onto a row *)
(* that may say something else by now. So TruthInv is about what is sent   *)
(* and does not mention the row that was read: whoever makes a fact        *)
(* VERIFIED sends the time too, even where it was set already, and whoever *)
(* takes the time away sends another status with it.                       *)
(*                                                                         *)
(* What a fact says and what a claim rests on are not settled by the       *)
(* columns alone. BackingInv adds who else is at work: a withdrawal that   *)
(* nothing overtook is the only request about its fact (Apart), so it has  *)
(* found every claim that cites it (FoundCiting), and the facts of a claim *)
(* that is about to be VERIFIED are VERIFIED still (StillBacked).          *)
(*                                                                         *)
(* GoodsInv does the same for images: a request that overlapped no other   *)
(* still has the row it read (StillFits), the primary image it found, and, *)
(* if the status matters to it, the status.                                *)
(*                                                                         *)
(* The last part is about types (TruthTypes, GoodsTypes): a row written    *)
(* again is still a row, and the orders of links have a bound.             *)
(***************************************************************************)
EXTENDS Services, WellFoundedInduction, TLAPS

(* Facts and claims.                                                       *)

FactColumns == {"status", "value", "at"}

\* The columns that a transaction sends keep a row stamped, whatever it is.
KeepsStamp(sent) ==
    /\ DOMAIN sent \subseteq FactColumns
    /\ "status" \in DOMAIN sent /\ sent["status"] = "VERIFIED" => "at" \in DOMAIN sent /\ sent["at"] = TRUE
    /\ "at" \in DOMAIN sent /\ sent["at"] # TRUE => "status" \in DOMAIN sent

StampedRow(row) ==
    /\ DOMAIN row = FactColumns
    /\ row["status"] = "VERIFIED" => row["at"] = TRUE

Rows ==
    /\ DOMAIN facts = Facts
    /\ \A f \in Facts : StampedRow(facts[f])

FactOps == {"fact", "withdraw", "demote"}

Transactions ==
    /\ DOMAIN truthTx = Sessions
    /\ \A s \in Sessions : truthTx[s].op \in FactOps =>
          /\ DOMAIN truthTx[s] = {"op", "fact", "sent", "saw", "cited"}
          /\ KeepsStamp(truthTx[s].sent)

TruthInv == Rows /\ Transactions

-----------------------------------------------------------------------------
\* A stamped row stays one when such columns are written over it.
LEMMA OverwrittenRow ==
    ASSUME NEW row, NEW sent, StampedRow(row), KeepsStamp(sent)
    PROVE  StampedRow(T!Overwritten(row, sent))
BY DEF StampedRow, KeepsStamp, T!Overwritten, FactColumns

\* What OpenFact sends of a new row is such: the row is VERIFIED anew only
\* with a stamp, and loses its time only with its status.
LEMMA SentColumns ==
    ASSUME NEW row, NEW new, NEW stamps \in BOOLEAN,
           DOMAIN new = FactColumns,
           new["status"] = "VERIFIED" /\ new["status"] # row["status"] => stamps,
           stamps => new["at"] = TRUE,
           new["at"] # TRUE /\ new["at"] # row["at"] => new["status"] # row["status"]
    PROVE  KeepsStamp([column \in DOMAIN T!Changed(row, new) \cup (IF stamps THEN {"at"} ELSE {}) |-> new[column]])
<1> DEFINE sent == [column \in DOMAIN T!Changed(row, new) \cup (IF stamps THEN {"at"} ELSE {}) |-> new[column]]
<1>1. DOMAIN T!Changed(row, new) = {c \in FactColumns : new[c] # row[c]}
  BY DEF T!Changed
<1>2. DOMAIN sent = {c \in FactColumns : new[c] # row[c]} \cup (IF stamps THEN {"at"} ELSE {})
  BY <1>1
<1>3. \A c \in DOMAIN sent : sent[c] = new[c]
  OBVIOUS
<1> HIDE DEF sent
<1>4. KeepsStamp(sent)
  BY <1>2, <1>3 DEF KeepsStamp, FactColumns
<1>5. QED
  BY <1>4 DEF sent

\* A transaction about a fact begins.
LEMMA OpenFactInv ==
    ASSUME TruthInv, NEW s \in Sessions, NEW f \in Facts, NEW new,
           NEW stamps \in BOOLEAN, NEW withdraws \in BOOLEAN,
           T!OpenFact(s, f, new, stamps, withdraws),
           DOMAIN new = FactColumns,
           new["status"] = "VERIFIED" /\ new["status"] # facts[f]["status"] => stamps,
           stamps => new["at"] = TRUE,
           new["at"] # TRUE /\ new["at"] # facts[f]["at"] => new["status"] # facts[f]["status"]
    PROVE  TruthInv'
<1> DEFINE sent == [column \in DOMAIN T!Changed(facts[f], new) \cup (IF stamps THEN {"at"} ELSE {}) |-> new[column]]
           t == [op     |-> IF withdraws THEN "withdraw" ELSE "fact",
                 fact   |-> f,
                 sent   |-> sent,
                 saw    |-> new.value,
                 cited  |-> {}]
<1>1. KeepsStamp(sent)
  BY SentColumns
<1> HIDE DEF sent
<1>2. truthTx' = [truthTx EXCEPT ![s] = t] /\ UNCHANGED facts
  BY DEF T!OpenFact, sent
<1>3. DOMAIN t = {"op", "fact", "sent", "saw", "cited"} /\ t.sent = sent
  OBVIOUS
<1> HIDE DEF t
<1>4. Transactions'
  BY <1>1, <1>2, <1>3 DEF TruthInv, Transactions
<1>5. Rows'
  BY <1>2 DEF TruthInv, Rows
<1>6. QED
  BY <1>4, <1>5 DEF TruthInv

\* A transaction about a fact ends: its columns are on the row.
LEMMA WriteFactInv ==
    ASSUME TruthInv, NEW s \in Sessions, truthTx[s].op \in FactOps, T!WriteFact(s)
    PROVE  TruthInv'
<1>1. KeepsStamp(truthTx[s].sent)
  BY DEF TruthInv, Transactions
<1>2. facts' = [facts EXCEPT ![truthTx[s].fact] = T!Overwritten(facts[truthTx[s].fact], truthTx[s].sent)]
  BY DEF T!WriteFact
<1>3. ASSUME NEW f \in Facts
      PROVE  StampedRow(facts'[f])
  <2>1. CASE f = truthTx[s].fact
    BY <1>1, <1>2, <2>1, OverwrittenRow DEF TruthInv, Rows
  <2>2. CASE f # truthTx[s].fact
    BY <1>2, <2>2 DEF TruthInv, Rows
  <2>3. QED
    BY <2>1, <2>2
<1>4. Rows'
  BY <1>2, <1>3 DEF TruthInv, Rows
<1>5. Transactions'
  BY DEF TruthInv, Transactions, T!WriteFact, T!Idle, FactOps
<1>6. QED
  BY <1>4, <1>5 DEF TruthInv

-----------------------------------------------------------------------------
LEMMA TruthInit == T!Init => TruthInv
BY DEF T!Init, TruthInv, Rows, Transactions, StampedRow, T!NoFact, FactColumns, T!Idle, FactOps

LEMMA TruthNext ==
    ASSUME TruthInv, [T!Next]_T!vars
    PROVE  TruthInv'
<1>1. ASSUME NEW s \in Sessions, NEW f \in Facts, NEW value \in Values,
             NEW source \in {"USER_INPUT", "AI_VISION"}, NEW verify \in BOOLEAN,
             T!CreateFact(s, f, value, source, verify)
      PROVE  TruthInv'
  <2> DEFINE given == T!InitialStatus(source, verify)
             row == [status |-> given, value |-> value, at |-> given = "VERIFIED"]
  <2>1. StampedRow(row)
    BY DEF StampedRow, FactColumns
  <2>2. facts' = [facts EXCEPT ![f] = row] /\ UNCHANGED truthTx
    BY <1>1 DEF T!CreateFact
  <2> HIDE DEF row
  <2>3. QED
    BY <2>1, <2>2 DEF TruthInv, Rows, Transactions
<1>2. ASSUME NEW s \in Sessions, NEW c \in Claims, NEW cited \in SUBSET Facts, NEW checkable \in BOOLEAN,
             T!CreateClaim(s, c, cited, checkable)
      PROVE  TruthInv'
  BY <1>2 DEF T!CreateClaim, TruthInv, Rows, Transactions
<1>3. ASSUME NEW s \in Sessions, NEW f \in Facts, NEW c \in Claims, NEW value \in Values,
             T!FileAnalysis(s, f, c, value)
      PROVE  TruthInv'
  <2> DEFINE row == [status |-> T!InitialStatus("AI_VISION", FALSE), value |-> value, at |-> FALSE]
  <2>1. StampedRow(row)
    BY DEF StampedRow, FactColumns, T!InitialStatus
  <2>2. facts' = [facts EXCEPT ![f] = row] /\ UNCHANGED truthTx
    BY <1>3 DEF T!FileAnalysis
  <2> HIDE DEF row
  <2>3. QED
    BY <2>1, <2>2 DEF TruthInv, Rows, Transactions
<1>4. ASSUME NEW s \in Sessions, NEW f \in Facts, T!VerifyFact(s, f)
      PROVE  TruthInv'
  <2> DEFINE new == T!Stamped(facts[f])
  <2>1. DOMAIN new = FactColumns /\ new["at"] = TRUE
    BY DEF TruthInv, Rows, StampedRow, T!Stamped, FactColumns
  <2>2. T!OpenFact(s, f, new, TRUE, FALSE)
    BY <1>4 DEF T!VerifyFact
  <2> HIDE DEF new
  <2>3. QED
    BY <2>1, <2>2, OpenFactInv
<1>5. ASSUME NEW s \in Sessions, NEW f \in Facts, T!RejectFact(s, f)
      PROVE  TruthInv'
  <2> DEFINE new == [facts[f] EXCEPT !.status = "REJECTED", !.at = TRUE]
  <2>1. DOMAIN new = FactColumns /\ new["at"] = TRUE
    BY DEF TruthInv, Rows, StampedRow, FactColumns
  <2>2. T!OpenFact(s, f, new, TRUE, TRUE)
    BY <1>5 DEF T!RejectFact
  <2> HIDE DEF new
  <2>3. QED
    BY <2>1, <2>2, OpenFactInv
<1>6. ASSUME NEW s \in Sessions, NEW f \in Facts, NEW value \in Values, NEW verify \in BOOLEAN,
             T!UpdateFact(s, f, value, verify)
      PROVE  TruthInv'
  <2> DEFINE edited == [facts[f] EXCEPT !.value = value]
             new == T!EditedFact(facts[f], value, verify)
             withdraws == value # facts[f].value
  <2>1. /\ DOMAIN facts[f] = FactColumns /\ DOMAIN edited = FactColumns
        /\ edited["status"] = facts[f]["status"] /\ edited["at"] = facts[f]["at"]
    BY DEF TruthInv, Rows, StampedRow, FactColumns
  <2>2. DOMAIN new = FactColumns
    BY <2>1 DEF T!EditedFact, T!Stamped, T!Unstamped
  <2>3. verify => new["at"] = TRUE
    BY <2>1 DEF T!EditedFact, T!Stamped, FactColumns
  <2>4. new["status"] = "VERIFIED" /\ new["status"] # facts[f]["status"] => verify
    BY <2>1 DEF T!EditedFact, T!Unstamped, FactColumns
  <2>5. new["at"] # TRUE /\ new["at"] # facts[f]["at"] => new["status"] # facts[f]["status"]
    BY <2>1, <2>3 DEF T!EditedFact, T!Unstamped, FactColumns
  <2>6. T!OpenFact(s, f, new, verify, withdraws) /\ withdraws \in BOOLEAN
    BY <1>6 DEF T!UpdateFact
  <2> HIDE DEF edited, new, withdraws
  <2>7. QED
    BY <2>2, <2>3, <2>4, <2>5, <2>6, OpenFactInv
<1>7. ASSUME NEW s \in Sessions, T!CommitFact(s)
      PROVE  TruthInv'
  BY <1>7, WriteFactInv DEF T!CommitFact, FactOps
<1>8. ASSUME NEW s \in Sessions, T!ReadCiting(s)
      PROVE  TruthInv'
  <2>1. DOMAIN truthTx' = Sessions /\ UNCHANGED facts
    BY <1>8 DEF T!ReadCiting, TruthInv, Transactions
  <2>2. /\ DOMAIN truthTx[s] = {"op", "fact", "sent", "saw", "cited"}
        /\ DOMAIN truthTx'[s] = DOMAIN truthTx[s] /\ truthTx'[s].sent = truthTx[s].sent
        /\ KeepsStamp(truthTx[s].sent)
        /\ \A o \in Sessions \ {s} : truthTx'[o] = truthTx[o]
    BY <1>8 DEF T!ReadCiting, TruthInv, Transactions, FactOps
  <2>3. Transactions'
    BY <2>1, <2>2 DEF TruthInv, Transactions
  <2>4. QED
    BY <2>1, <2>3 DEF TruthInv, Rows
<1>9. ASSUME NEW s \in Sessions, T!DemoteCiting(s)
      PROVE  TruthInv'
  BY <1>9, WriteFactInv DEF T!DemoteCiting, FactOps
<1>10. ASSUME NEW s \in Sessions, NEW c \in Claims, T!VerifyClaim(s, c) \/ T!RejectClaim(s, c)
       PROVE  TruthInv'
  BY <1>10 DEF T!VerifyClaim, T!RejectClaim, T!OpenClaim, TruthInv, Rows, Transactions, FactOps
<1>11. ASSUME NEW s \in Sessions, T!CommitClaim(s) \/ T!Rollback(s)
       PROVE  TruthInv'
  BY <1>11 DEF T!CommitClaim, T!Rollback, TruthInv, Rows, Transactions, FactOps, T!Idle
<1>12. CASE UNCHANGED T!vars
  BY <1>12 DEF T!vars, TruthInv, Rows, Transactions
<1>13. QED
  BY <1>1, <1>2, <1>3, <1>4, <1>5, <1>6, <1>7, <1>8, <1>9, <1>10, <1>11, <1>12 DEF T!Next

-----------------------------------------------------------------------------
\* A row that is there has a status, and a fact that nobody withdrew from
\* under another request says what was confirmed.
FactsInv ==
    /\ DOMAIN confirmed = Facts
    /\ \A f \in Facts :
          /\ facts[f] = T!NoFact \/ facts[f].status # "none"
          /\ facts[f].status = "VERIFIED" /\ f \notin overtaken => facts[f].value = confirmed[f]

ClaimsInv ==
    /\ DOMAIN claims = Claims
    /\ \A c \in Claims :
          /\ DOMAIN claims[c] = {"status", "cites", "checkable"}
          /\ claims[c] = T!NoClaim \/ claims[c].status # "none"
          /\ claims[c].status = "VERIFIED" /\ claims[c].checkable /\ claims[c].cites \cap overtaken = {} =>
                \E f \in claims[c].cites \cap Facts : facts[f].status = "VERIFIED"

Withdrawals == {"withdraw", "demote"}

\* What a transaction about a fact would leave of it.
After(t) == T!Overwritten(facts[t.fact], t.sent)

\* A confirmation that nothing overtook is of the value that is there.
ConfirmsValue(t) ==
    /\ t.fact \in Facts /\ facts[t.fact].status # "none"
    /\ "value" \notin DOMAIN t.sent
    /\ "status" \in DOMAIN t.sent => t.sent["status"] = "VERIFIED"
    /\ t.fact \notin overtaken => t.saw = facts[t.fact].value

\* A withdrawal that nothing overtook leaves the value its user saw, and
\* confirms it or leaves the fact unconfirmed.
WithdrawsValue(t) ==
    /\ t.fact \in Facts /\ facts[t.fact].status # "none"
    /\ "status" \in DOMAIN t.sent => t.sent["status"] # "none"
    /\ t.fact \notin overtaken =>
          /\ After(t)["value"] = t.saw
          /\ After(t)["status"] = "VERIFIED" => "at" \in DOMAIN t.sent /\ t.sent["at"] = TRUE

\* It has found every claim that may be broadcast and cites the fact.
FoundCiting(t) ==
    t.fact \notin overtaken =>
        \A c \in Claims : claims[c].status = "VERIFIED" /\ t.fact \in claims[c].cites => c \in t.cited

\* A claim about to be VERIFIED has its facts still.
StillBacked(t) ==
    /\ DOMAIN t = {"op", "claim", "grounds", "sent"}
    /\ t.claim \in Claims /\ claims[t.claim].status # "none"
    /\ DOMAIN t.sent \subseteq {"status"}
    /\ "status" \in DOMAIN t.sent => t.sent["status"] \in {"VERIFIED", "REJECTED"}
    /\ "status" \in DOMAIN t.sent /\ t.sent["status"] = "VERIFIED" =>
          /\ t.grounds = claims[t.claim].cites
          /\ claims[t.claim].checkable /\ t.grounds \cap overtaken = {} =>
                \E f \in t.grounds \cap Facts : facts[f].status = "VERIFIED"

Stands(t) ==
    /\ t.op = "fact" => ConfirmsValue(t)
    /\ t.op \in Withdrawals => WithdrawsValue(t)
    /\ t.op = "demote" => FoundCiting(t)
    /\ t.op = "claim" => StillBacked(t)

\* A withdrawal that nothing overtook is the only request about its fact.
Apart ==
    \A s, o \in Sessions :
        s # o /\ truthTx[s].op \in Withdrawals /\ truthTx[s].fact \notin overtaken =>
            truthTx[s].fact \notin T!About(truthTx[o])

BackingInv == FactsInv /\ ClaimsInv /\ Apart /\ \A s \in Sessions : Stands(truthTx[s])

-----------------------------------------------------------------------------
LEMMA AboutOf ==
    ASSUME NEW t
    PROVE  /\ t.op \in FactOps => T!About(t) = {t.fact}
           /\ t.op = "claim" => T!About(t) = t.grounds
           /\ t.op = "none" => T!About(t) = {}
BY DEF T!About, FactOps

\* A transaction begins, goes on or is given up, and nothing is written.
LEMMA TurnBacking ==
    ASSUME BackingInv, NEW s \in Sessions, NEW t,
           DOMAIN truthTx = Sessions, truthTx' = [truthTx EXCEPT ![s] = t],
           UNCHANGED <<facts, claims, confirmed>>, overtaken \subseteq overtaken',
           Stands(t),
           \A o \in Sessions \ {s} :
              /\ t.op \in Withdrawals /\ t.fact \notin overtaken' => t.fact \notin T!About(truthTx[o])
              /\ truthTx[o].op \in Withdrawals /\ truthTx[o].fact \notin overtaken' =>
                    truthTx[o].fact \notin T!About(t)
    PROVE  BackingInv'
<1>1. truthTx'[s] = t /\ \A o \in Sessions \ {s} : truthTx'[o] = truthTx[o]
  OBVIOUS
<1>2. FactsInv' /\ ClaimsInv'
  <2>1. FactsInv'
    BY DEF BackingInv, FactsInv
  <2>2. ClaimsInv'
    BY DEF BackingInv, ClaimsInv
  <2>3. QED
    BY <2>1, <2>2
<1>3. ASSUME NEW o \in Sessions
      PROVE  Stands(truthTx[o])'
  <2>1. PICK u : u = truthTx'[o]
    OBVIOUS
  <2>2. Stands(u)
    BY <1>1, <2>1 DEF BackingInv
  <2>3. Stands(u)'
    <3>1. ConfirmsValue(u) => ConfirmsValue(u)'
      BY DEF ConfirmsValue
    <3>2. WithdrawsValue(u) => WithdrawsValue(u)'
      BY DEF WithdrawsValue, After
    <3>3. FoundCiting(u) => FoundCiting(u)'
      BY DEF FoundCiting
    <3>4. StillBacked(u) => StillBacked(u)'
      BY DEF StillBacked
    <3>5. QED
      BY <2>2, <3>1, <3>2, <3>3, <3>4 DEF Stands
  <2>4. QED
    BY <2>1, <2>3
<1>4. Apart'
  <2> SUFFICES ASSUME NEW o \in Sessions, NEW p \in Sessions, o # p,
                      truthTx'[o].op \in Withdrawals, truthTx'[o].fact \notin overtaken'
               PROVE  truthTx'[o].fact \notin T!About(truthTx'[p])
    BY DEF Apart, Withdrawals, T!About
  <2>1. CASE o = s
    BY <1>1, <2>1
  <2>2. CASE p = s
    BY <1>1, <2>2
  <2>3. CASE o # s /\ p # s
    BY <1>1, <2>3 DEF BackingInv, Apart
  <2>4. QED
    BY <2>1, <2>2, <2>3
<1>5. QED
  BY <1>2, <1>3, <1>4 DEF BackingInv

\* What is opened about a fact or a claim overtakes what it may disturb.
LEMMA ElsewhereOf ==
    ASSUME NEW s \in Sessions, NEW o \in Sessions \ {s}, NEW ops, truthTx[o].op \in ops,
           NEW f \in T!About(truthTx[o])
    PROVE  f \in T!Elsewhere(s, ops)
BY DEF T!Elsewhere

LEMMA OpenFactBacking ==
    ASSUME TruthInv, BackingInv, NEW s \in Sessions, NEW f \in Facts, NEW new,
           NEW stamps \in BOOLEAN, NEW withdraws \in BOOLEAN,
           T!OpenFact(s, f, new, stamps, withdraws),
           DOMAIN new = FactColumns, new["status"] # "none",
           stamps => new["at"] = TRUE,
           ~withdraws => new["value"] = facts[f]["value"] /\ new["status"] \in {facts[f]["status"], "VERIFIED"},
           withdraws => stamps \/ new["status"] # "VERIFIED"
    PROVE  BackingInv'
<1> DEFINE sent == [column \in DOMAIN T!Changed(facts[f], new) \cup (IF stamps THEN {"at"} ELSE {}) |-> new[column]]
           t == [op     |-> IF withdraws THEN "withdraw" ELSE "fact",
                 fact   |-> f,
                 sent   |-> sent,
                 saw    |-> new.value,
                 cited  |-> {}]
<1>1. DOMAIN T!Changed(facts[f], new) = {c \in FactColumns : new[c] # facts[f][c]}
  BY DEF T!Changed
<1>2. /\ DOMAIN sent = {c \in FactColumns : new[c] # facts[f][c]} \cup (IF stamps THEN {"at"} ELSE {})
      /\ \A c \in DOMAIN sent : sent[c] = new[c]
  BY <1>1
<1> HIDE DEF sent
<1>3. /\ truthTx' = [truthTx EXCEPT ![s] = t] /\ UNCHANGED <<facts, claims, confirmed>>
      /\ overtaken' = overtaken \cup
           ({f} \cap T!Elsewhere(s, IF withdraws THEN {"fact", "withdraw", "demote", "claim"} ELSE {"withdraw", "demote"}))
      /\ facts[f] # T!NoFact
  BY DEF T!OpenFact, T!Recorded, sent
<1>4. /\ t.op = (IF withdraws THEN "withdraw" ELSE "fact") /\ t.fact = f /\ t.sent = sent /\ t.saw = new["value"]
  OBVIOUS
<1> HIDE DEF t
<1>5. facts[f].status # "none" /\ DOMAIN facts[f] = FactColumns
  BY <1>3 DEF BackingInv, FactsInv, TruthInv, Rows, StampedRow
<1>6. /\ DOMAIN After(t) = FactColumns
      /\ \A c \in FactColumns : After(t)[c] = IF c \in DOMAIN sent THEN sent[c] ELSE facts[f][c]
  BY <1>4, <1>5 DEF After, T!Overwritten
<1>7. \A c \in FactColumns \ {"at"} : After(t)[c] = new[c]
  BY <1>2, <1>6
<1>8. stamps => "at" \in DOMAIN sent /\ sent["at"] = TRUE
  BY <1>2
<1>9. CASE withdraws
  <2>1. WithdrawsValue(t)
    BY <1>2, <1>4, <1>5, <1>7, <1>8, <1>9 DEF WithdrawsValue, FactColumns
  <2>2. Stands(t)
    BY <1>4, <1>9, <2>1 DEF Stands
  <2>3. ASSUME NEW o \in Sessions \ {s}, f \notin overtaken'
        PROVE  f \notin T!About(truthTx[o])
    <3>1. f \in T!About(truthTx[o]) => truthTx[o].op \in {"fact", "withdraw", "demote", "claim"}
      BY AboutOf DEF BackingInv, T!About
    <3>2. QED
      BY <1>3, <1>9, <2>3, <3>1, ElsewhereOf
  <2>4. T!About(t) = {f}
    BY <1>4, <1>9, AboutOf DEF FactOps
  <2>5. \A o \in Sessions \ {s} : truthTx[o].op \in Withdrawals => T!About(truthTx[o]) = {truthTx[o].fact}
    BY AboutOf DEF Withdrawals, FactOps
  <2>6. ASSUME NEW o \in Sessions \ {s}
        PROVE  /\ t.op \in Withdrawals /\ t.fact \notin overtaken' => t.fact \notin T!About(truthTx[o])
               /\ truthTx[o].op \in Withdrawals /\ truthTx[o].fact \notin overtaken' =>
                     truthTx[o].fact \notin T!About(t)
    <3>1. f \notin overtaken' => f \notin T!About(truthTx[o])
      BY <2>3
    <3>2. truthTx[o].op \in Withdrawals => T!About(truthTx[o]) = {truthTx[o].fact}
      BY <2>5
    <3>3. QED
      BY <1>4, <2>4, <3>1, <3>2
  <2>7. QED
    BY <1>3, <2>2, <2>6, TurnBacking DEF TruthInv, Transactions
<1>10. CASE ~withdraws
  <2>1. ConfirmsValue(t)
    BY <1>2, <1>4, <1>5, <1>10 DEF ConfirmsValue, FactColumns
  <2>2. Stands(t)
    BY <1>4, <1>10, <2>1 DEF Stands, Withdrawals
  <2>3. T!About(t) = {f} /\ t.op \notin Withdrawals
    BY <1>4, <1>10, AboutOf DEF FactOps, Withdrawals
  <2>4. ASSUME NEW o \in Sessions \ {s}, truthTx[o].op \in Withdrawals, truthTx[o].fact \notin overtaken'
        PROVE  truthTx[o].fact \notin T!About(t)
    <3>1. T!About(truthTx[o]) = {truthTx[o].fact}
      BY <2>4, AboutOf DEF Withdrawals, FactOps
    <3>2. truthTx[o].fact # f
      BY <1>3, <1>10, <2>4, <3>1, ElsewhereOf DEF Withdrawals
    <3>3. QED
      BY <2>3, <3>2
  <2>5. QED
    BY <1>3, <2>2, <2>3, <2>4, TurnBacking DEF TruthInv, Transactions
<1>11. QED
  BY <1>9, <1>10

LEMMA OpenClaimBacking ==
    ASSUME TruthInv, BackingInv, NEW s \in Sessions, NEW c \in Claims, NEW grounds,
           NEW given \in {"VERIFIED", "REJECTED"},
           T!OpenClaim(s, c, given, grounds),
           given = "VERIFIED" =>
              grounds = claims[c].cites /\
              (claims[c].checkable => \E f \in grounds \cap Facts : facts[f].status = "VERIFIED")
    PROVE  BackingInv'
<1> DEFINE sent == T!Changed([status |-> claims[c].status], [status |-> given])
           t == [op |-> "claim", claim |-> c, grounds |-> grounds, sent |-> sent]
<1>1. DOMAIN sent \subseteq {"status"} /\ ("status" \in DOMAIN sent => sent["status"] = given)
  BY DEF T!Changed
<1> HIDE DEF sent
<1>2. /\ truthTx' = [truthTx EXCEPT ![s] = t] /\ UNCHANGED <<facts, claims, confirmed>>
      /\ overtaken' = overtaken \cup (grounds \cap T!Elsewhere(s, {"withdraw", "demote"}))
      /\ claims[c] # T!NoClaim
  BY DEF T!OpenClaim, T!Proposed, sent
<1>3. /\ DOMAIN t = {"op", "claim", "grounds", "sent"}
      /\ t.op = "claim" /\ t.claim = c /\ t.grounds = grounds /\ t.sent = sent
  OBVIOUS
<1> HIDE DEF t
<1>4. claims[c].status # "none"
  BY <1>2 DEF BackingInv, ClaimsInv
<1>5. StillBacked(t)
  BY <1>1, <1>3, <1>4 DEF StillBacked
<1>6. Stands(t)
  BY <1>3, <1>5 DEF Stands, Withdrawals
<1>7. T!About(t) = grounds /\ t.op \notin Withdrawals
  BY <1>3, AboutOf DEF Withdrawals
<1>8. ASSUME NEW o \in Sessions \ {s}, truthTx[o].op \in Withdrawals, truthTx[o].fact \notin overtaken'
      PROVE  truthTx[o].fact \notin T!About(t)
  <2>1. T!About(truthTx[o]) = {truthTx[o].fact}
    BY <1>8, AboutOf DEF Withdrawals, FactOps
  <2>2. truthTx[o].fact \notin grounds
    BY <1>2, <1>8, <2>1, ElsewhereOf DEF Withdrawals
  <2>3. QED
    BY <1>7, <2>2
<1>9. QED
  BY <1>2, <1>6, <1>7, <1>8, TurnBacking DEF TruthInv, Transactions

-----------------------------------------------------------------------------
\* Rows are inserted.
LEMMA InsertBacking ==
    ASSUME BackingInv, UNCHANGED <<truthTx, overtaken>>,
           DOMAIN claims' = Claims, DOMAIN confirmed' = Facts,
           \A f \in Facts :
              \/ facts'[f] = facts[f] /\ confirmed'[f] = confirmed[f]
              \/ /\ facts[f] = T!NoFact /\ facts'[f].status # "none"
                 /\ facts'[f].status = "VERIFIED" => facts'[f].value = confirmed'[f],
           \A c \in Claims :
              \/ claims'[c] = claims[c]
              \/ /\ claims[c] = T!NoClaim /\ claims'[c].status = "SUGGESTED"
                 /\ DOMAIN claims'[c] = {"status", "cites", "checkable"}
    PROVE  BackingInv'
<1>1. \A f \in Facts : facts[f].status # "none" => facts'[f] = facts[f]
  BY DEF T!NoFact
<1>2. \A c \in Claims :
         /\ claims[c].status # "none" => claims'[c] = claims[c]
         /\ claims'[c].status = "VERIFIED" => claims'[c] = claims[c]
  BY DEF T!NoClaim
<1>3. FactsInv'
  BY DEF BackingInv, FactsInv
<1>4. ClaimsInv'
  BY <1>1, <1>2 DEF BackingInv, ClaimsInv
<1>5. ASSUME NEW o \in Sessions
      PROVE  Stands(truthTx[o])'
  <2>1. PICK u : u = truthTx[o]
    OBVIOUS
  <2>2. Stands(u)
    BY <2>1 DEF BackingInv
  <2>3. ConfirmsValue(u) => ConfirmsValue(u)'
    BY <1>1 DEF ConfirmsValue
  <2>4. WithdrawsValue(u) => WithdrawsValue(u)'
    BY <1>1 DEF WithdrawsValue, After
  <2>5. FoundCiting(u) => FoundCiting(u)'
    BY <1>2 DEF FoundCiting
  <2>6. StillBacked(u) => StillBacked(u)'
    BY <1>1, <1>2 DEF StillBacked
  <2>7. Stands(u)'
    BY <2>2, <2>3, <2>4, <2>5, <2>6 DEF Stands
  <2>8. QED
    BY <2>1, <2>7
<1>6. Apart'
  BY DEF BackingInv, Apart
<1>7. QED
  BY <1>3, <1>4, <1>5, <1>6 DEF BackingInv

\* A transaction is over, and of the others none has what it took away.
LEMMA CloseApart ==
    ASSUME BackingInv, NEW s \in Sessions, DOMAIN truthTx = Sessions,
           truthTx' = [truthTx EXCEPT ![s] = T!Idle], UNCHANGED overtaken
    PROVE  /\ Apart'
           /\ Stands(truthTx[s])'
           /\ \A o \in Sessions \ {s} : truthTx'[o] = truthTx[o]
<1>1. truthTx'[s] = T!Idle /\ \A o \in Sessions \ {s} : truthTx'[o] = truthTx[o]
  OBVIOUS
<1>2. T!Idle.op = "none"
  BY DEF T!Idle
<1>3. T!About(T!Idle) = {}
  BY <1>2, AboutOf
<1>4. Apart'
  BY <1>1, <1>2, <1>3 DEF BackingInv, Apart, Withdrawals
<1>5. Stands(truthTx[s])'
  BY <1>1, <1>2 DEF Stands, Withdrawals
<1>6. QED
  BY <1>1, <1>4, <1>5

\* What is written of the fact of a transaction that ends.
Written(s, t) ==
    /\ truthTx' = [truthTx EXCEPT ![s] = T!Idle]
    /\ DOMAIN confirmed' = Facts
    /\ \A g \in Facts \ {t.fact} : facts'[g] = facts[g] /\ confirmed'[g] = confirmed[g]
    /\ facts'[t.fact] = After(t)
    /\ \A c \in FactColumns : After(t)[c] = IF c \in DOMAIN t.sent THEN t.sent[c] ELSE facts[t.fact][c]
    /\ "at" \in DOMAIN t.sent /\ t.sent["at"] = TRUE => confirmed'[t.fact] = t.saw
    /\ "at" \notin DOMAIN t.sent => confirmed'[t.fact] = confirmed[t.fact]
    /\ "at" \in DOMAIN t.sent /\ t.sent["at"] # TRUE => After(t)["status"] # "VERIFIED"
    /\ "status" \in DOMAIN t.sent /\ t.sent["status"] = "VERIFIED" =>
          "at" \in DOMAIN t.sent /\ t.sent["at"] = TRUE

LEMMA WrittenFact ==
    ASSUME TruthInv, NEW s \in Sessions, NEW t, t = truthTx[s], t.op \in FactOps, t.fact \in Facts, T!WriteFact(s),
           DOMAIN confirmed = Facts
    PROVE  Written(s, t)
<1>1. DOMAIN facts = Facts /\ DOMAIN facts[t.fact] = FactColumns /\ KeepsStamp(t.sent)
  BY DEF TruthInv, Rows, StampedRow, Transactions
<1>2. /\ facts' = [facts EXCEPT ![t.fact] = After(t)]
      /\ truthTx' = [truthTx EXCEPT ![s] = T!Idle]
  BY DEF T!WriteFact, After
<1>3. \A c \in FactColumns : After(t)[c] = IF c \in DOMAIN t.sent THEN t.sent[c] ELSE facts[t.fact][c]
  BY <1>1 DEF After, T!Overwritten
<1>4. confirmed' = IF "at" \in DOMAIN t.sent /\ t.sent.at THEN [confirmed EXCEPT ![t.fact] = t.saw] ELSE confirmed
  BY DEF T!WriteFact
<1>5. /\ DOMAIN confirmed' = Facts
      /\ \A g \in Facts \ {t.fact} : confirmed'[g] = confirmed[g]
      /\ "at" \in DOMAIN t.sent /\ t.sent["at"] = TRUE => confirmed'[t.fact] = t.saw
      /\ "at" \notin DOMAIN t.sent => confirmed'[t.fact] = confirmed[t.fact]
  BY <1>4
<1>6. /\ "at" \in DOMAIN t.sent /\ t.sent["at"] # TRUE => After(t)["status"] # "VERIFIED"
      /\ "status" \in DOMAIN t.sent /\ t.sent["status"] = "VERIFIED" => "at" \in DOMAIN t.sent /\ t.sent["at"] = TRUE
  BY <1>1, <1>3 DEF KeepsStamp, FactColumns
<1>7. QED
  BY <1>1, <1>2, <1>3, <1>5, <1>6 DEF Written

\* A confirmation commits: what the fact says stays, and so does VERIFIED.
LEMMA CommitFactBacking ==
    ASSUME TruthInv, BackingInv, NEW s \in Sessions, T!CommitFact(s)
    PROVE  BackingInv'
<1>1. PICK t : t = truthTx[s]
  OBVIOUS
<1>2. /\ t.op = "fact" /\ T!WriteFact(s) /\ UNCHANGED <<claims, overtaken>>
      /\ ConfirmsValue(t) /\ t.fact \in Facts /\ DOMAIN confirmed = Facts /\ DOMAIN truthTx = Sessions
  BY <1>1 DEF T!CommitFact, BackingInv, Stands, ConfirmsValue, FactsInv, TruthInv, Transactions
<1> DEFINE f == t.fact
<1>3. Written(s, t)
  <2>1. t.op \in FactOps
    BY <1>2 DEF FactOps
  <2>2. QED
    BY <1>1, <1>2, <2>1, WrittenFact
<1>4. /\ facts'[f]["value"] = facts[f]["value"]
      /\ facts'[f]["status"] \in {facts[f]["status"], "VERIFIED"}
  BY <1>2, <1>3 DEF ConfirmsValue, FactColumns, Written
<1>5. facts'[f]["status"] = "VERIFIED" /\ f \notin overtaken => facts'[f]["value"] = confirmed'[f]
  <2>1. SUFFICES ASSUME facts'[f]["status"] = "VERIFIED", f \notin overtaken
                 PROVE  facts'[f]["value"] = confirmed'[f]
    OBVIOUS
  <2>2. CASE "at" \in DOMAIN t.sent
    BY <1>2, <1>3, <1>4, <2>1, <2>2 DEF ConfirmsValue, Written
  <2>3. CASE "at" \notin DOMAIN t.sent
    <3>1. "status" \notin DOMAIN t.sent
      BY <1>2, <1>3, <2>3 DEF ConfirmsValue, Written
    <3>2. facts[f]["status"] = "VERIFIED"
      BY <1>3, <2>1, <3>1 DEF FactColumns, Written
    <3>3. QED
      BY <1>2, <1>3, <1>4, <2>1, <2>3, <3>2 DEF BackingInv, FactsInv, Written
  <2>4. QED
    BY <2>2, <2>3
<1>6. \A g \in Facts : /\ facts[g].status # "none" => facts'[g].status # "none"
                       /\ facts[g].status = "VERIFIED" => facts'[g].status = "VERIFIED"
                       /\ facts'[g].value = facts[g].value
  BY <1>3, <1>4 DEF Written
<1>7. FactsInv'
  BY <1>2, <1>3, <1>4, <1>5 DEF BackingInv, FactsInv, ConfirmsValue, Written
<1>8. ClaimsInv'
  BY <1>2, <1>6 DEF BackingInv, ClaimsInv
<1>9. /\ Apart' /\ Stands(truthTx[s])'
      /\ \A o \in Sessions \ {s} : truthTx'[o] = truthTx[o]
  BY <1>2, <1>3, CloseApart DEF Written
<1>10. ASSUME NEW o \in Sessions \ {s}
       PROVE  Stands(truthTx[o])'
  <2>1. PICK u : u = truthTx[o] /\ u = truthTx'[o]
    BY <1>9
  <2>2. Stands(u)
    BY <2>1 DEF BackingInv
  <2>3. ConfirmsValue(u) => ConfirmsValue(u)'
    BY <1>2, <1>6 DEF ConfirmsValue
  <2>4. u.op \in Withdrawals /\ WithdrawsValue(u) => WithdrawsValue(u)'
    <3>1. SUFFICES ASSUME u.op \in Withdrawals, WithdrawsValue(u)
                   PROVE  WithdrawsValue(u)'
      OBVIOUS
    <3>2. T!About(t) = {f}
      BY <1>2, AboutOf DEF FactOps
    <3>3. u.fact \in overtaken \/ u.fact # f
      BY <1>1, <2>1, <3>1, <3>2 DEF BackingInv, Apart
    <3>4. u.fact \in Facts /\ (u.fact # f => facts'[u.fact] = facts[u.fact])
      BY <1>3, <3>1 DEF WithdrawsValue, Written
    <3>5. QED
      BY <1>2, <1>6, <3>1, <3>3, <3>4 DEF WithdrawsValue, After
  <2>5. FoundCiting(u) => FoundCiting(u)'
    BY <1>2 DEF FoundCiting
  <2>6. StillBacked(u) => StillBacked(u)'
    BY <1>2, <1>6 DEF StillBacked
  <2>7. Stands(u)'
    BY <2>2, <2>3, <2>4, <2>5, <2>6 DEF Stands
  <2>8. QED
    BY <2>1, <2>7
<1>11. QED
  BY <1>7, <1>8, <1>9, <1>10 DEF BackingInv

\* A withdrawal commits: the claims it found are demoted with the fact.
LEMMA DemoteBacking ==
    ASSUME TruthInv, BackingInv, NEW s \in Sessions, T!DemoteCiting(s)
    PROVE  BackingInv'
<1>1. PICK t : t = truthTx[s]
  OBVIOUS
<1>2. /\ t.op = "demote" /\ T!WriteFact(s) /\ UNCHANGED overtaken
      /\ WithdrawsValue(t) /\ FoundCiting(t) /\ t.fact \in Facts
      /\ DOMAIN confirmed = Facts /\ DOMAIN truthTx = Sessions
      /\ claims' = [c \in Claims |-> IF c \in t.cited THEN [claims[c] EXCEPT !.status = "SUGGESTED"] ELSE claims[c]]
  BY <1>1 DEF T!DemoteCiting, BackingInv, Stands, WithdrawsValue, FactsInv, TruthInv, Transactions, Withdrawals
<1> DEFINE f == t.fact
<1>3. Written(s, t)
  <2>1. t.op \in FactOps
    BY <1>2 DEF FactOps
  <2>2. QED
    BY <1>1, <1>2, <2>1, WrittenFact
<1>4. \A c \in Claims :
         /\ DOMAIN claims'[c] = {"status", "cites", "checkable"}
         /\ claims'[c].cites = claims[c].cites /\ claims'[c].checkable = claims[c].checkable
         /\ claims'[c] = claims[c] \/ claims'[c].status = "SUGGESTED"
         /\ c \in t.cited => claims'[c].status = "SUGGESTED"
  BY <1>2 DEF BackingInv, ClaimsInv
<1>5. facts'[f]["status"] # "none"
  BY <1>2, <1>3 DEF WithdrawsValue, FactColumns, Written
<1>6. FactsInv'
  BY <1>2, <1>3, <1>5 DEF BackingInv, FactsInv, WithdrawsValue, Written
<1>7. ClaimsInv'
  <2>1. ASSUME NEW c \in Claims, claims'[c].status = "VERIFIED", claims'[c].checkable,
               claims'[c].cites \cap overtaken = {}
        PROVE  \E g \in claims'[c].cites \cap Facts : facts'[g].status = "VERIFIED"
    <3>1. claims'[c] = claims[c] /\ c \notin t.cited
      BY <1>4, <2>1
    <3>2. PICK g \in claims[c].cites \cap Facts : facts[g].status = "VERIFIED"
      BY <2>1, <3>1 DEF BackingInv, ClaimsInv
    <3>3. g # f
      BY <1>2, <2>1, <3>1, <3>2 DEF FoundCiting
    <3>4. QED
      BY <1>3, <3>1, <3>2, <3>3 DEF Written
  <2>2. \A c \in Claims : claims'[c] = T!NoClaim \/ claims'[c].status # "none"
    BY <1>4 DEF BackingInv, ClaimsInv
  <2>3. DOMAIN claims' = Claims
    BY <1>2
  <2>4. QED
    BY <1>2, <1>4, <2>1, <2>2, <2>3 DEF ClaimsInv
<1>8. /\ Apart' /\ Stands(truthTx[s])'
      /\ \A o \in Sessions \ {s} : truthTx'[o] = truthTx[o]
  BY <1>2, <1>3, CloseApart DEF Written
<1>9. ASSUME NEW o \in Sessions \ {s}
      PROVE  Stands(truthTx[o])'
  <2>1. PICK u : u = truthTx[o] /\ u = truthTx'[o]
    BY <1>8
  <2>2. Stands(u)
    BY <2>1 DEF BackingInv
  <2>3. f \notin overtaken => f \notin T!About(u)
    BY <1>1, <1>2, <2>1 DEF BackingInv, Apart, Withdrawals
  <2>4. \A g \in Facts : facts[g].status # "none" => facts'[g].status # "none"
    BY <1>3, <1>5 DEF Written
  <2>5. u.op = "fact" => ConfirmsValue(u)'
    <3>1. SUFFICES ASSUME u.op = "fact"
                   PROVE  ConfirmsValue(u)'
      OBVIOUS
    <3>2. ConfirmsValue(u) /\ T!About(u) = {u.fact}
      BY <2>2, <3>1, AboutOf DEF Stands, FactOps
    <3>3. u.fact \in overtaken \/ facts'[u.fact] = facts[u.fact]
      BY <1>3, <2>3, <3>2 DEF ConfirmsValue, Written
    <3>4. QED
      BY <1>2, <2>4, <3>2, <3>3 DEF ConfirmsValue
  <2>6. u.op \in Withdrawals => WithdrawsValue(u)'
    <3>1. SUFFICES ASSUME u.op \in Withdrawals
                   PROVE  WithdrawsValue(u)'
      OBVIOUS
    <3>2. WithdrawsValue(u) /\ T!About(u) = {u.fact}
      BY <2>2, <3>1, AboutOf DEF Stands, FactOps, Withdrawals
    <3>3. u.fact \in overtaken \/ facts'[u.fact] = facts[u.fact]
      BY <1>3, <2>3, <3>2 DEF WithdrawsValue, Written
    <3>4. QED
      BY <1>2, <2>4, <3>2, <3>3 DEF WithdrawsValue, After
  <2>7. FoundCiting(u) => FoundCiting(u)'
    BY <1>2, <1>4 DEF FoundCiting
  <2>8. u.op = "claim" => StillBacked(u)'
    <3>1. SUFFICES ASSUME u.op = "claim"
                   PROVE  StillBacked(u)'
      OBVIOUS
    <3>2. StillBacked(u) /\ T!About(u) = u.grounds
      BY <2>2, <3>1, AboutOf DEF Stands
    <3>3. f \in u.grounds => f \in overtaken
      BY <2>3, <3>2
    <3>4. claims'[u.claim].status # "none"
      BY <1>4, <3>2 DEF StillBacked
    <3>5. QED
      BY <1>2, <1>3, <1>4, <3>2, <3>3, <3>4 DEF StillBacked, Written
  <2>9. Stands(u)'
    BY <2>2, <2>5, <2>6, <2>7, <2>8 DEF Stands
  <2>10. QED
    BY <2>1, <2>9
<1>10. QED
  BY <1>6, <1>7, <1>8, <1>9 DEF BackingInv

\* A decision about a claim commits, on the facts it was made on.
LEMMA CommitClaimBacking ==
    ASSUME TruthInv, BackingInv, NEW s \in Sessions, T!CommitClaim(s)
    PROVE  BackingInv'
<1>1. PICK t : t = truthTx[s]
  OBVIOUS
<1>2. /\ t.op = "claim" /\ UNCHANGED <<facts, confirmed, overtaken>> /\ StillBacked(t) /\ t.claim \in Claims
      /\ DOMAIN truthTx = Sessions /\ DOMAIN claims = Claims
      /\ claims' = [claims EXCEPT ![t.claim] = T!Overwritten(claims[t.claim], t.sent)]
      /\ truthTx' = [truthTx EXCEPT ![s] = T!Idle]
  BY <1>1 DEF T!CommitClaim, BackingInv, Stands, StillBacked, ClaimsInv, TruthInv, Transactions
<1> DEFINE c == t.claim
<1>3. /\ DOMAIN claims' = Claims
      /\ \A d \in Claims \ {c} : claims'[d] = claims[d]
      /\ DOMAIN claims'[c] = {"status", "cites", "checkable"}
      /\ claims'[c].cites = claims[c].cites /\ claims'[c].checkable = claims[c].checkable
      /\ claims'[c].status = IF "status" \in DOMAIN t.sent THEN t.sent["status"] ELSE claims[c].status
  <2>1. DOMAIN claims[c] = {"status", "cites", "checkable"}
    BY <1>2 DEF BackingInv, ClaimsInv
  <2>2. claims'[c] = T!Overwritten(claims[c], t.sent)
    BY <1>2
  <2>3. QED
    BY <1>2, <2>1, <2>2 DEF T!Overwritten, StillBacked
<1>4. claims'[c].status # "none"
  BY <1>2, <1>3 DEF StillBacked
<1>5. FactsInv'
  BY <1>2 DEF BackingInv, FactsInv
<1>6. ClaimsInv'
  <2>1. ASSUME claims'[c].status = "VERIFIED", claims'[c].checkable, claims'[c].cites \cap overtaken = {}
        PROVE  \E f \in claims'[c].cites \cap Facts : facts[f].status = "VERIFIED"
    <3>1. CASE "status" \in DOMAIN t.sent
      BY <1>2, <1>3, <2>1, <3>1 DEF StillBacked
    <3>2. CASE "status" \notin DOMAIN t.sent
      <4>1. c \in Claims /\ claims[c].status = "VERIFIED" /\ claims[c].checkable /\ claims[c].cites \cap overtaken = {}
        BY <1>2, <1>3, <2>1, <3>2
      <4>2. \E f \in claims[c].cites \cap Facts : facts[f].status = "VERIFIED"
        BY <4>1 DEF BackingInv, ClaimsInv
      <4>3. QED
        BY <1>3, <4>2
    <3>3. QED
      BY <3>1, <3>2
  <2>2. QED
    BY <1>2, <1>3, <1>4, <2>1 DEF BackingInv, ClaimsInv
<1>7. /\ Apart' /\ Stands(truthTx[s])'
      /\ \A o \in Sessions \ {s} : truthTx'[o] = truthTx[o]
  BY <1>2, CloseApart
<1>8. ASSUME NEW o \in Sessions \ {s}
      PROVE  Stands(truthTx[o])'
  <2>1. PICK u : u = truthTx[o] /\ u = truthTx'[o]
    BY <1>7
  <2>2. Stands(u)
    BY <2>1 DEF BackingInv
  <2>3. ConfirmsValue(u) => ConfirmsValue(u)'
    BY <1>2 DEF ConfirmsValue
  <2>4. WithdrawsValue(u) => WithdrawsValue(u)'
    BY <1>2 DEF WithdrawsValue, After
  <2>5. u.op = "demote" => FoundCiting(u)'
    <3>1. SUFFICES ASSUME u.op = "demote", u.fact \notin overtaken
                   PROVE  \A d \in Claims : claims'[d].status = "VERIFIED" /\ u.fact \in claims'[d].cites => d \in u.cited
      BY <1>2 DEF FoundCiting
    <3>2. FoundCiting(u) /\ u.fact \notin t.grounds
      BY <1>1, <1>2, <2>1, <2>2, <3>1, AboutOf DEF BackingInv, Apart, Stands, Withdrawals
    <3>3. claims'[c].status = "VERIFIED" /\ u.fact \in claims'[c].cites => claims[c].status = "VERIFIED"
      BY <1>2, <1>3, <3>2 DEF StillBacked
    <3>4. QED
      BY <1>3, <3>1, <3>2, <3>3 DEF FoundCiting
  <2>6. StillBacked(u) => StillBacked(u)'
    BY <1>2, <1>3, <1>4 DEF StillBacked
  <2>7. Stands(u)'
    BY <2>2, <2>3, <2>4, <2>5, <2>6 DEF Stands
  <2>8. QED
    BY <2>1, <2>7
<1>9. QED
  BY <1>5, <1>6, <1>7, <1>8 DEF BackingInv

-----------------------------------------------------------------------------
LEMMA BackingInit == T!Init => BackingInv
<1> SUFFICES ASSUME T!Init
             PROVE  BackingInv
  OBVIOUS
<1>1. FactsInv /\ ClaimsInv
  BY DEF T!Init, FactsInv, ClaimsInv, T!NoFact, T!NoClaim
<1>2. \A s \in Sessions : truthTx[s].op = "none"
  BY DEF T!Init, T!Idle
<1>3. Apart /\ \A s \in Sessions : Stands(truthTx[s])
  BY <1>2 DEF Apart, Stands, Withdrawals
<1>4. QED
  BY <1>1, <1>3 DEF BackingInv

LEMMA BackingNext ==
    ASSUME TruthInv, BackingInv, [T!Next]_T!vars
    PROVE  BackingInv'
<1> DOMAIN facts = Facts /\ DOMAIN claims = Claims /\ DOMAIN confirmed = Facts /\ DOMAIN truthTx = Sessions
  BY DEF TruthInv, Rows, Transactions, BackingInv, FactsInv, ClaimsInv
<1>1. ASSUME NEW s \in Sessions, NEW f \in Facts, NEW value \in Values,
             NEW source \in {"USER_INPUT", "AI_VISION"}, NEW verify \in BOOLEAN,
             T!CreateFact(s, f, value, source, verify)
      PROVE  BackingInv'
  <2> DEFINE given == T!InitialStatus(source, verify)
             row == [status |-> given, value |-> value, at |-> given = "VERIFIED"]
  <2>1. /\ facts' = [facts EXCEPT ![f] = row] /\ UNCHANGED <<claims, truthTx, overtaken>> /\ facts[f] = T!NoFact
        /\ confirmed' = IF given = "VERIFIED" THEN [confirmed EXCEPT ![f] = value] ELSE confirmed
    BY <1>1 DEF T!CreateFact, T!Recorded
  <2>2. row.status = given /\ row.value = value
    OBVIOUS
  <2>3. given # "none"
    BY DEF T!InitialStatus
  <2> HIDE DEF row, given
  <2>4. /\ facts'[f].status # "none"
        /\ facts'[f].status = "VERIFIED" => facts'[f].value = confirmed'[f]
    BY <2>1, <2>2, <2>3
  <2>5. \A g \in Facts \ {f} : facts'[g] = facts[g] /\ confirmed'[g] = confirmed[g]
    BY <2>1
  <2>6. DOMAIN confirmed' = Facts
    BY <2>1
  <2>7. QED
    BY <2>1, <2>4, <2>5, <2>6, InsertBacking
<1>2. ASSUME NEW s \in Sessions, NEW c \in Claims, NEW cited \in SUBSET Facts, NEW checkable \in BOOLEAN,
             T!CreateClaim(s, c, cited, checkable)
      PROVE  BackingInv'
  <2> DEFINE row == [status |-> "SUGGESTED", cites |-> cited, checkable |-> checkable]
  <2>1. claims' = [claims EXCEPT ![c] = row] /\ UNCHANGED <<facts, truthTx, confirmed, overtaken>> /\ claims[c] = T!NoClaim
    BY <1>2 DEF T!CreateClaim, T!Proposed
  <2>2. DOMAIN row = {"status", "cites", "checkable"} /\ row.status = "SUGGESTED"
    OBVIOUS
  <2> HIDE DEF row
  <2>3. \A d \in Claims :
           \/ claims'[d] = claims[d]
           \/ /\ claims[d] = T!NoClaim /\ claims'[d].status = "SUGGESTED"
              /\ DOMAIN claims'[d] = {"status", "cites", "checkable"}
    BY <2>1, <2>2
  <2>4. QED
    BY <2>1, <2>3, InsertBacking
<1>3. ASSUME NEW s \in Sessions, NEW f \in Facts, NEW c \in Claims, NEW value \in Values,
             T!FileAnalysis(s, f, c, value)
      PROVE  BackingInv'
  <2> DEFINE fact == [status |-> T!InitialStatus("AI_VISION", FALSE), value |-> value, at |-> FALSE]
             claim == [status |-> "SUGGESTED", cites |-> {}, checkable |-> TRUE]
  <2>1. /\ facts' = [facts EXCEPT ![f] = fact] /\ claims' = [claims EXCEPT ![c] = claim]
        /\ UNCHANGED <<truthTx, confirmed, overtaken>> /\ facts[f] = T!NoFact /\ claims[c] = T!NoClaim
    BY <1>3 DEF T!FileAnalysis, T!Recorded, T!Proposed
  <2>2. fact.status = "AI_INFERRED"
    BY DEF T!InitialStatus
  <2>3. DOMAIN claim = {"status", "cites", "checkable"} /\ claim.status = "SUGGESTED"
    OBVIOUS
  <2> HIDE DEF fact, claim
  <2>4. \A d \in Claims :
           \/ claims'[d] = claims[d]
           \/ /\ claims[d] = T!NoClaim /\ claims'[d].status = "SUGGESTED"
              /\ DOMAIN claims'[d] = {"status", "cites", "checkable"}
    BY <2>1, <2>3
  <2>5. \A g \in Facts :
           \/ facts'[g] = facts[g] /\ confirmed'[g] = confirmed[g]
           \/ facts[g] = T!NoFact /\ facts'[g].status = "AI_INFERRED"
    BY <2>1, <2>2
  <2>6. QED
    BY <2>1, <2>4, <2>5, InsertBacking
<1>4. ASSUME NEW s \in Sessions, NEW f \in Facts, T!VerifyFact(s, f)
      PROVE  BackingInv'
  <2> DEFINE new == T!Stamped(facts[f])
  <2>1. /\ DOMAIN new = FactColumns /\ new["at"] = TRUE /\ new["status"] = "VERIFIED"
        /\ new["value"] = facts[f]["value"]
    BY DEF TruthInv, Rows, StampedRow, T!Stamped, FactColumns
  <2>2. T!OpenFact(s, f, new, TRUE, FALSE)
    BY <1>4 DEF T!VerifyFact
  <2> HIDE DEF new
  <2>3. QED
    BY <2>1, <2>2, OpenFactBacking
<1>5. ASSUME NEW s \in Sessions, NEW f \in Facts, T!RejectFact(s, f)
      PROVE  BackingInv'
  <2> DEFINE new == [facts[f] EXCEPT !.status = "REJECTED", !.at = TRUE]
  <2>1. DOMAIN new = FactColumns /\ new["at"] = TRUE /\ new["status"] = "REJECTED"
    BY DEF TruthInv, Rows, StampedRow, FactColumns
  <2>2. T!OpenFact(s, f, new, TRUE, TRUE)
    BY <1>5 DEF T!RejectFact
  <2> HIDE DEF new
  <2>3. QED
    BY <2>1, <2>2, OpenFactBacking
<1>6. ASSUME NEW s \in Sessions, NEW f \in Facts, NEW value \in Values, NEW verify \in BOOLEAN,
             T!UpdateFact(s, f, value, verify)
      PROVE  BackingInv'
  <2> DEFINE edited == [facts[f] EXCEPT !.value = value]
             new == T!EditedFact(facts[f], value, verify)
             withdraws == value # facts[f].value
  <2>1. T!OpenFact(s, f, new, verify, withdraws) /\ withdraws \in BOOLEAN /\ facts[f].status # "none"
    BY <1>6 DEF T!UpdateFact, T!OpenFact, T!Recorded, BackingInv, FactsInv
  <2>2. /\ DOMAIN edited = FactColumns /\ edited["value"] = value
        /\ edited["status"] = facts[f]["status"]
    BY DEF TruthInv, Rows, StampedRow, FactColumns
  <2>3. DOMAIN new = FactColumns /\ new["value"] = value
    BY <2>2 DEF T!EditedFact, T!Stamped, T!Unstamped, FactColumns
  <2>4. verify => new["at"] = TRUE /\ new["status"] = "VERIFIED"
    BY <2>2 DEF T!EditedFact, T!Stamped, FactColumns
  <2>5. ~verify /\ withdraws => new["status"] # "VERIFIED" /\ new["status"] # "none"
    BY <2>1, <2>2 DEF T!EditedFact, T!Unstamped, FactColumns
  <2>6. ~verify /\ ~withdraws => new["status"] = facts[f]["status"]
    BY <2>2 DEF T!EditedFact, T!Unstamped
  <2>7. /\ ~withdraws => new["value"] = facts[f]["value"] /\ new["status"] \in {facts[f]["status"], "VERIFIED"}
        /\ withdraws => verify \/ new["status"] # "VERIFIED"
        /\ new["status"] # "none"
    BY <2>1, <2>3, <2>4, <2>5, <2>6
  <2> HIDE DEF edited, new, withdraws
  <2>8. QED
    BY <2>1, <2>3, <2>4, <2>7, OpenFactBacking
<1>7. ASSUME NEW s \in Sessions, T!ReadCiting(s)
      PROVE  BackingInv'
  <2>1. PICK t : t = truthTx[s]
    OBVIOUS
  <2> DEFINE u == [t EXCEPT !.op = "demote", !.cited = {c \in T!VerifiedClaims : t.fact \in claims[c].cites}]
  <2>2. t.op = "withdraw" /\ DOMAIN t = {"op", "fact", "sent", "saw", "cited"} /\ WithdrawsValue(t)
    BY <1>7, <2>1 DEF T!ReadCiting, TruthInv, Transactions, FactOps, BackingInv, Stands, Withdrawals
  <2>3. /\ u.op = "demote" /\ u.fact = t.fact /\ u.sent = t.sent /\ u.saw = t.saw
        /\ u.cited = {c \in T!VerifiedClaims : t.fact \in claims[c].cites}
    BY <2>2
  <2>4. truthTx' = [truthTx EXCEPT ![s] = u] /\ UNCHANGED <<facts, claims, confirmed, overtaken>>
    <3>1. /\ truthTx' = [truthTx EXCEPT ![s].op = "demote",
                                        ![s].cited = {c \in T!VerifiedClaims : truthTx[s].fact \in claims[c].cites}]
          /\ UNCHANGED <<facts, claims, confirmed, overtaken>>
      BY <1>7 DEF T!ReadCiting
    <3>2. QED
      BY <2>1, <2>2, <3>1
  <2> HIDE DEF u
  <2>5. WithdrawsValue(u)
    BY <2>2, <2>3 DEF WithdrawsValue, After
  <2>6. FoundCiting(u)
    BY <2>3 DEF FoundCiting, T!VerifiedClaims
  <2>7. Stands(u)
    BY <2>3, <2>5, <2>6 DEF Stands, Withdrawals
  <2>8. T!About(u) = T!About(t) /\ u.op \in Withdrawals
    BY <2>2, <2>3, AboutOf DEF FactOps, Withdrawals
  <2>9. \A o \in Sessions \ {s} :
           /\ u.op \in Withdrawals /\ u.fact \notin overtaken' => u.fact \notin T!About(truthTx[o])
           /\ truthTx[o].op \in Withdrawals /\ truthTx[o].fact \notin overtaken' =>
                 truthTx[o].fact \notin T!About(u)
    BY <2>1, <2>2, <2>3, <2>4, <2>8 DEF BackingInv, Apart, Withdrawals
  <2>10. QED
    BY <2>4, <2>7, <2>9, TurnBacking
<1>8. ASSUME NEW s \in Sessions, NEW c \in Claims, T!VerifyClaim(s, c)
      PROVE  BackingInv'
  <2>1. /\ T!OpenClaim(s, c, "VERIFIED", claims[c].cites)
        /\ claims[c].checkable => \E f \in claims[c].cites \cap Facts : facts[f].status = "VERIFIED"
    BY <1>8 DEF T!VerifyClaim, T!Backed, T!VerifiedFacts
  <2>2. QED
    BY <2>1, OpenClaimBacking
<1>9. ASSUME NEW s \in Sessions, NEW c \in Claims, T!RejectClaim(s, c)
      PROVE  BackingInv'
  BY <1>9, OpenClaimBacking DEF T!RejectClaim
<1>10. ASSUME NEW s \in Sessions, T!Rollback(s)
       PROVE  BackingInv'
  <2>1. truthTx' = [truthTx EXCEPT ![s] = T!Idle] /\ UNCHANGED <<facts, claims, confirmed, overtaken>>
    BY <1>10 DEF T!Rollback
  <2>2. T!Idle.op = "none"
    BY DEF T!Idle
  <2>3. T!About(T!Idle) = {} /\ Stands(T!Idle) /\ T!Idle.op \notin Withdrawals
    BY <2>2, AboutOf DEF Stands, Withdrawals
  <2>4. QED
    BY <2>1, <2>3, TurnBacking
<1>11. CASE UNCHANGED T!vars
  BY <1>11, InsertBacking DEF T!vars
<1>12. QED
  BY <1>1, <1>2, <1>3, <1>4, <1>5, <1>6, <1>7, <1>8, <1>9, <1>10, <1>11,
     CommitFactBacking, DemoteBacking, CommitClaimBacking DEF T!Next

-----------------------------------------------------------------------------
\* A step of the services is one of ProductTruth or leaves its rows alone.
LEMMA TruthSteps == [Next]_vars => [T!Next]_T!vars
BY DEF Next, vars, TruthMoves, GoodsMove, StoryMoves, PostMoves, CutMoves, MediaMove, StaffMoves,
       SignMoves, BrandMoves, RouterMoves, truth, T!vars

LEMMA TruthInvariant == Spec => [](TruthInv /\ BackingInv)
<1>1. Init => TruthInv /\ BackingInv
  BY TruthInit, BackingInit DEF Init
<1>2. (TruthInv /\ BackingInv) /\ [Next]_vars => (TruthInv /\ BackingInv)'
  BY TruthNext, BackingNext, TruthSteps
<1>3. QED
  BY <1>1, <1>2, PTL DEF Spec

\* product_truth.py, verify_fact, reject_fact and update_fact over the CHECK
\* verified_facts_have_a_timestamp of models.py: no interleaving of requests
\* leaves a fact VERIFIED without the time it was confirmed.
THEOREM VerifiedFactsAreStamped == Spec => []VerifiedIsStamped
<1>1. TruthInv => VerifiedIsStamped
  BY DEF TruthInv, Rows, StampedRow, VerifiedIsStamped, T!VerifiedIsStamped, T!VerifiedFacts
<1>2. QED
  BY <1>1, TruthInvariant, PTL

\* update_fact takes a confirmation back with the value it was given for: a
\* VERIFIED fact says what somebody confirmed, unless an edit or a rejection
\* overlapped another request about it.
THEOREM FactsSayWhatWasConfirmed == Spec => []ConfirmedAsSeen
<1>1. BackingInv => ConfirmedAsSeen
  BY DEF BackingInv, FactsInv, ConfirmedAsSeen, T!ConfirmedAsSeen, T!VerifiedFacts
<1>2. QED
  BY <1>1, TruthInvariant, PTL

\* _require_verified_backing and _demote_claims_citing: a checkable claim that
\* may be broadcast cites a VERIFIED fact, through every edit and rejection
\* that did not overlap another request about that fact.
THEOREM BroadcastClaimsAreBacked == Spec => []VerifiedClaimsAreBacked
<1>1. BackingInv => VerifiedClaimsAreBacked
  BY DEF BackingInv, ClaimsInv, VerifiedClaimsAreBacked, T!VerifiedClaimsAreBacked, T!VerifiedClaims,
         T!Backed, T!VerifiedFacts
<1>2. QED
  BY <1>1, TruthInvariant, PTL

-----------------------------------------------------------------------------
(* Images and status.                                                      *)

\* Transactions and rows have their columns, and no request moves an archived
\* product that it read as archived.
GoodsShape ==
    /\ DOMAIN goodsTx = Sessions
    /\ \A s \in Sessions :
          /\ goodsTx[s].op \in {"none", "move", "attach", "promote", "detach"}
          /\ goodsTx[s].op \in {"attach", "promote"} =>
                DOMAIN goodsTx[s] = {"op", "asset", "primary", "saw", "clears", "locks", "at"}
          /\ goodsTx[s].op = "detach" =>
                DOMAIN goodsTx[s] = {"op", "asset", "primary", "saw", "heir", "last", "locks", "at"}
          /\ goodsTx[s].op = "move" =>
                /\ goodsTx[s].target \in {"ARCHIVED", "READY", "REVIEW_REQUIRED"}
                /\ goodsTx[s].saw = "ARCHIVED" => goodsTx[s].target = "ARCHIVED"
    /\ \A a \in DOMAIN links : DOMAIN links[a] = {"primary", "order"}

\* What a request about the images holds is still so.
StillFits(t) ==
    /\ t.op = "attach" /\ ~t.primary => DOMAIN links # {} /\ t.clears = {}
    /\ t.op = "detach" /\ t.at = "read" =>
          t.asset \in DOMAIN links /\ ~t.last /\ (links[t.asset].primary => t.primary)
    /\ t.op = "detach" /\ t.at = "deleted" =>
          /\ t.asset \in DOMAIN links
          /\ t.last <=> DOMAIN links = {t.asset}
          /\ DOMAIN links # {t.asset} =>
                \E b \in DOMAIN links \ {t.asset} : b \in t.heir \/ links[b].primary

ImagesInv ==
    ~tangled =>
        /\ \A s, o \in Sessions :
              goodsTx[s].op \in G!ImageOps /\ goodsTx[o].op \in G!ImageOps => s = o
        /\ \A s \in Sessions : StillFits(goodsTx[s])
        /\ DOMAIN links # {} => \E a \in DOMAIN links : links[a].primary

StatusInv ==
    ~tangled /\ ~crossed =>
        /\ \A s, o \in Sessions :
              goodsTx[s].op \in G!StatusOps /\ goodsTx[o].op \in G!StatusOps => s = o
        /\ \A s \in Sessions : goodsTx[s].op \in G!StatusOps => goodsTx[s].saw = status
        /\ status = "DRAFT" => DOMAIN links = {}
        /\ status = "ASSETS_READY" => DOMAIN links # {}

GoodsInv == GoodsShape /\ ImagesInv /\ StatusInv

-----------------------------------------------------------------------------
LEMMA GoodsInit == G!Init => GoodsInv
BY DEF G!Init, GoodsInv, GoodsShape, ImagesInv, StatusInv, StillFits, G!Idle, G!ImageOps, G!StatusOps

\* A request arrives: it overlaps no other unless the history says so.
LEMMA OpenGoods ==
    ASSUME GoodsInv, NEW s \in Sessions, NEW t, G!Open(s, t),
           t.op \in {"attach", "promote", "detach", "move"},
           GoodsShape',
           t.saw = status \/ t.op = "promote",
           ~tangled => StillFits(t)
    PROVE  GoodsInv'
<1>1. /\ goodsTx' = [goodsTx EXCEPT ![s] = t] /\ UNCHANGED <<status, links>>
      /\ DOMAIN goodsTx = Sessions
  BY DEF G!Open, GoodsInv, GoodsShape
<1>2. goodsTx'[s] = t /\ \A o \in Sessions \ {s} : goodsTx'[o] = goodsTx[o]
  BY <1>1
<1>3. /\ ~tangled' => ~tangled /\ (t.op \in G!ImageOps => \A o \in Sessions \ {s} : goodsTx[o].op \notin G!ImageOps)
      /\ ~crossed' => ~crossed /\ (t.op \in G!StatusOps => \A o \in Sessions \ {s} : goodsTx[o].op \notin G!StatusOps)
  BY DEF G!Open, G!Overlaps
<1>4. ImagesInv'
  <2> SUFFICES ASSUME ~tangled'
               PROVE  /\ \A o, p \in Sessions :
                            goodsTx'[o].op \in G!ImageOps /\ goodsTx'[p].op \in G!ImageOps => o = p
                      /\ \A o \in Sessions : StillFits(goodsTx[o])'
                      /\ (DOMAIN links # {} => \E a \in DOMAIN links : links[a].primary)'
    BY DEF ImagesInv, G!ImageOps
  <2>1. \A o, p \in Sessions : goodsTx'[o].op \in G!ImageOps /\ goodsTx'[p].op \in G!ImageOps => o = p
    BY <1>2, <1>3 DEF GoodsInv, ImagesInv
  <2>2. ASSUME NEW o \in Sessions
        PROVE  StillFits(goodsTx[o])'
    <3>1. StillFits(goodsTx'[o])
      BY <1>2, <1>3 DEF GoodsInv, ImagesInv
    <3>2. QED
      BY <3>1, <1>1 DEF StillFits
  <2>3. (DOMAIN links # {} => \E a \in DOMAIN links : links[a].primary)'
    BY <1>1, <1>3 DEF GoodsInv, ImagesInv
  <2>4. QED
    BY <2>1, <2>2, <2>3
<1>5. StatusInv'
  <2>1. t.op = "promote" => t.op \notin G!StatusOps
    BY DEF G!StatusOps
  <2>2. QED
    BY <1>1, <1>2, <1>3, <2>1 DEF GoodsInv, StatusInv, G!StatusOps
<1>6. QED
  BY <1>4, <1>5 DEF GoodsInv

\* A request goes on to what it does next, or is over, and nothing is written.
LEMMA AdvanceGoods ==
    ASSUME GoodsInv, NEW s \in Sessions, NEW t,
           goodsTx' = [goodsTx EXCEPT ![s] = t],
           UNCHANGED <<status, links, tangled, crossed>>,
           GoodsShape',
           t.op \in {goodsTx[s].op, "none"},
           t.op \in G!StatusOps => t.saw = goodsTx[s].saw,
           ~tangled => StillFits(t)
    PROVE  GoodsInv'
<1>1. goodsTx'[s] = t /\ \A o \in Sessions \ {s} : goodsTx'[o] = goodsTx[o]
  BY DEF GoodsInv, GoodsShape
<1>2. t.op \in G!ImageOps => goodsTx[s].op \in G!ImageOps
  BY DEF G!ImageOps
<1>3. t.op \in G!StatusOps => goodsTx[s].op \in G!StatusOps
  BY DEF G!StatusOps
<1>4. ImagesInv'
  <2> SUFFICES ASSUME ~tangled'
               PROVE  /\ \A o, p \in Sessions :
                            goodsTx'[o].op \in G!ImageOps /\ goodsTx'[p].op \in G!ImageOps => o = p
                      /\ \A o \in Sessions : StillFits(goodsTx[o])'
                      /\ (DOMAIN links # {} => \E a \in DOMAIN links : links[a].primary)'
    BY DEF ImagesInv, G!ImageOps
  <2>1. \A o, p \in Sessions : goodsTx'[o].op \in G!ImageOps /\ goodsTx'[p].op \in G!ImageOps => o = p
    BY <1>1, <1>2 DEF GoodsInv, ImagesInv
  <2>2. ASSUME NEW o \in Sessions
        PROVE  StillFits(goodsTx[o])'
    <3>1. StillFits(goodsTx'[o])
      BY <1>1 DEF GoodsInv, ImagesInv
    <3>2. QED
      BY <3>1 DEF StillFits
  <2>3. (DOMAIN links # {} => \E a \in DOMAIN links : links[a].primary)'
    BY DEF GoodsInv, ImagesInv
  <2>4. QED
    BY <2>1, <2>2, <2>3
<1>5. StatusInv'
  BY <1>1, <1>3 DEF GoodsInv, StatusInv, G!StatusOps
<1>6. QED
  BY <1>4, <1>5 DEF GoodsInv

\* A request about the images commits. Alone, it leaves a primary image.
LEMMA CommitImages ==
    ASSUME GoodsInv, NEW s \in Sessions, goodsTx[s].op \in G!ImageOps, G!Close(s),
           \A a \in DOMAIN links' : DOMAIN links'[a] = {"primary", "order"},
           ~tangled => (DOMAIN links' # {} => \E a \in DOMAIN links' : links'[a].primary)
    PROVE  GoodsShape' /\ ImagesInv'
<1>1. /\ goodsTx'[s] = G!Idle /\ \A o \in Sessions \ {s} : goodsTx'[o] = goodsTx[o]
      /\ DOMAIN goodsTx' = Sessions /\ UNCHANGED <<tangled, crossed>>
  BY DEF G!Close, GoodsInv, GoodsShape
<1>2. GoodsShape'
  BY <1>1 DEF GoodsInv, GoodsShape, G!Idle
<1>3. ASSUME ~tangled'
      PROVE  \A o \in Sessions : goodsTx'[o].op \notin G!ImageOps
  BY <1>1, <1>3 DEF GoodsInv, ImagesInv, G!Idle, G!ImageOps
<1>4. ASSUME ~tangled', NEW o \in Sessions
      PROVE  StillFits(goodsTx[o])'
  BY <1>3, <1>4 DEF StillFits, G!ImageOps
<1>5. ImagesInv'
  BY <1>1, <1>3, <1>4 DEF ImagesInv, G!ImageOps
<1>6. QED
  BY <1>2, <1>5

\* One that moves the status as it read it, and it alone, leaves it in step
\* with the images.
LEMMA CommitStatus ==
    ASSUME GoodsInv, NEW s \in Sessions, goodsTx[s].op \in G!StatusOps, G!Close(s),
           ~tangled /\ ~crossed =>
               (status' = "DRAFT" => DOMAIN links' = {}) /\ (status' = "ASSETS_READY" => DOMAIN links' # {})
    PROVE  StatusInv'
<1>1. /\ goodsTx'[s] = G!Idle /\ \A o \in Sessions \ {s} : goodsTx'[o] = goodsTx[o]
      /\ UNCHANGED <<tangled, crossed>>
  BY DEF G!Close, GoodsInv, GoodsShape
<1>2. ASSUME ~tangled', ~crossed'
      PROVE  \A o \in Sessions : goodsTx'[o].op \notin G!StatusOps
  BY <1>1, <1>2 DEF GoodsInv, StatusInv, G!Idle, G!StatusOps
<1>3. QED
  BY <1>1, <1>2 DEF StatusInv, G!StatusOps

-----------------------------------------------------------------------------
LEMMA GoodsNext ==
    ASSUME GoodsInv, [G!Next]_G!vars
    PROVE  GoodsInv'
<1> USE DEF G!ImageOps, G!StatusOps
<1>1. ASSUME NEW s \in Sessions, NEW a \in Images, NEW wanted \in BOOLEAN, G!Attach(s, a, wanted)
      PROVE  GoodsInv'
  <2> DEFINE primary == wanted \/ DOMAIN links = {}
             t == [op |-> "attach", asset |-> a, primary |-> primary, saw |-> status,
                   clears |-> IF primary THEN G!Primaries ELSE {}, locks |-> {}, at |-> "read"]
  <2>1. G!Open(s, t)
    BY <1>1 DEF G!Attach, G!Attached
  <2>2. /\ t.op = "attach" /\ t.saw = status
        /\ DOMAIN t = {"op", "asset", "primary", "saw", "clears", "locks", "at"}
        /\ ~t.primary => DOMAIN links # {} /\ t.clears = {}
    OBVIOUS
  <2> HIDE DEF t
  <2>3. StillFits(t)
    BY <2>2 DEF StillFits
  <2>4. GoodsShape'
    BY <2>1, <2>2 DEF G!Open, GoodsInv, GoodsShape
  <2>5. QED
    BY <2>1, <2>2, <2>3, <2>4, OpenGoods
<1>2. ASSUME NEW s \in Sessions, NEW a \in Images, G!SetPrimary(s, a)
      PROVE  GoodsInv'
  <2> DEFINE t == [op |-> "promote", asset |-> a, primary |-> TRUE, saw |-> status,
                   clears |-> G!Primaries, locks |-> {}, at |-> "read"]
  <2>1. G!Open(s, t)
    BY <1>2 DEF G!SetPrimary
  <2>2. t.op = "promote" /\ DOMAIN t = {"op", "asset", "primary", "saw", "clears", "locks", "at"}
    OBVIOUS
  <2> HIDE DEF t
  <2>3. StillFits(t)
    BY <2>2 DEF StillFits
  <2>4. GoodsShape'
    BY <2>1, <2>2 DEF G!Open, GoodsInv, GoodsShape
  <2>5. QED
    BY <2>1, <2>2, <2>3, <2>4, OpenGoods
<1>3. ASSUME NEW s \in Sessions, NEW a \in Images, G!Detach(s, a)
      PROVE  GoodsInv'
  <2> DEFINE t == [op |-> "detach", asset |-> a, primary |-> links[a].primary, saw |-> status,
                   heir |-> {}, last |-> FALSE, locks |-> {}, at |-> "read"]
  <2>1. G!Open(s, t) /\ a \in DOMAIN links
    BY <1>3 DEF G!Detach, G!Attached
  <2>2. /\ t.op = "detach" /\ t.saw = status /\ t.at = "read" /\ t.asset = a /\ ~t.last
        /\ DOMAIN t = {"op", "asset", "primary", "saw", "heir", "last", "locks", "at"}
        /\ links[a].primary => t.primary
    OBVIOUS
  <2> HIDE DEF t
  <2>3. StillFits(t)
    BY <2>1, <2>2 DEF StillFits
  <2>4. GoodsShape'
    BY <2>1, <2>2 DEF G!Open, GoodsInv, GoodsShape
  <2>5. QED
    BY <2>1, <2>2, <2>3, <2>4, OpenGoods
<1>4. ASSUME NEW s \in Sessions, G!ClearPrimary(s)
      PROVE  GoodsInv'
  <2> DEFINE t == [goodsTx[s] EXCEPT !.at = "cleared", !.locks = goodsTx[s].clears]
  <2>1. /\ goodsTx' = [goodsTx EXCEPT ![s] = t] /\ UNCHANGED <<status, links, tangled, crossed>>
        /\ goodsTx[s].op \in {"attach", "promote"}
    BY <1>4 DEF G!ClearPrimary, G!Advance
  <2>2. DOMAIN goodsTx[s] = {"op", "asset", "primary", "saw", "clears", "locks", "at"}
    BY <2>1 DEF GoodsInv, GoodsShape
  <2>3. /\ DOMAIN t = DOMAIN goodsTx[s] /\ t.op = goodsTx[s].op /\ t.saw = goodsTx[s].saw
        /\ t.primary = goodsTx[s].primary /\ t.clears = goodsTx[s].clears
    BY <2>2
  <2> HIDE DEF t
  <2>4. ~tangled => StillFits(t)
    BY <2>1, <2>3 DEF GoodsInv, ImagesInv, StillFits
  <2>5. GoodsShape'
    BY <2>1, <2>2, <2>3 DEF GoodsInv, GoodsShape
  <2>6. QED
    BY <2>1, <2>3, <2>4, <2>5, AdvanceGoods
<1>5. ASSUME NEW s \in Sessions, G!CommitAttach(s)
      PROVE  GoodsInv'
  <2>1. PICK t : t = goodsTx[s]
    OBVIOUS
  <2>2. /\ t.op = "attach" /\ t.asset \notin DOMAIN links /\ G!Close(s)
        /\ links' = [b \in DOMAIN links \cup {t.asset} |->
                        IF b = t.asset THEN [primary |-> t.primary, order |-> G!NextOrder]
                                       ELSE G!Cleared(t)[b]]
        /\ status' = IF t.saw = "DRAFT" THEN "ASSETS_READY" ELSE status
    BY <1>5, <2>1 DEF G!CommitAttach, G!Attached
  <2>3. \A b \in DOMAIN links :
           DOMAIN G!Cleared(t)[b] = DOMAIN links[b] /\ (b \notin t.clears => G!Cleared(t)[b] = links[b])
    BY DEF G!Cleared, G!Attached
  <2>4. /\ DOMAIN links' = DOMAIN links \cup {t.asset}
        /\ links'[t.asset].primary = t.primary /\ DOMAIN links'[t.asset] = {"primary", "order"}
        /\ \A b \in DOMAIN links : links'[b] = G!Cleared(t)[b]
    BY <2>2
  <2>5. \A b \in DOMAIN links' : DOMAIN links'[b] = {"primary", "order"}
    BY <2>3, <2>4 DEF GoodsInv, GoodsShape
  <2>6. ASSUME ~tangled
        PROVE  \E b \in DOMAIN links' : links'[b].primary
    <3>1. CASE t.primary
      BY <2>4, <3>1
    <3>2. CASE ~t.primary
      <4>1. DOMAIN links # {} /\ t.clears = {}
        BY <2>1, <2>2, <2>6, <3>2 DEF GoodsInv, ImagesInv, StillFits
      <4>2. PICK b \in DOMAIN links : links[b].primary
        BY <2>6, <4>1 DEF GoodsInv, ImagesInv
      <4>3. links'[b] = links[b]
        BY <2>3, <2>4, <4>1
      <4>4. QED
        BY <2>4, <4>2, <4>3
    <3>3. QED
      BY <3>1, <3>2
  <2>7. ~tangled /\ ~crossed => status' # "DRAFT"
    BY <2>1, <2>2 DEF GoodsInv, StatusInv
  <2>8. DOMAIN links' # {}
    BY <2>4
  <2>9. StatusInv'
    BY <2>1, <2>2, <2>7, <2>8, CommitStatus
  <2>10. QED
    BY <2>1, <2>2, <2>5, <2>6, <2>9, CommitImages DEF GoodsInv
<1>6. ASSUME NEW s \in Sessions, G!CommitPrimary(s)
      PROVE  GoodsInv'
  <2>1. PICK t : t = goodsTx[s]
    OBVIOUS
  <2>2. /\ t.op = "promote" /\ t.asset \in DOMAIN links /\ G!Close(s) /\ UNCHANGED status
        /\ links' = [G!Cleared(t) EXCEPT ![t.asset].primary = TRUE]
    BY <1>6, <2>1 DEF G!CommitPrimary, G!Attached
  <2>3. DOMAIN G!Cleared(t) = DOMAIN links /\ \A b \in DOMAIN links : DOMAIN G!Cleared(t)[b] = {"primary", "order"}
    BY DEF G!Cleared, G!Attached, GoodsInv, GoodsShape
  <2>4. /\ DOMAIN links' = DOMAIN links /\ links'[t.asset].primary = TRUE
        /\ \A b \in DOMAIN links' : DOMAIN links'[b] = {"primary", "order"}
    BY <2>2, <2>3
  <2>5. GoodsShape' /\ ImagesInv'
    BY <2>1, <2>2, <2>4, CommitImages
  <2>6. StatusInv'
    BY <2>1, <2>2, <2>4 DEF GoodsInv, GoodsShape, StatusInv, G!Close, G!Idle
  <2>7. QED
    BY <2>5, <2>6 DEF GoodsInv
<1>7. ASSUME NEW s \in Sessions, G!DeleteLink(s)
      PROVE  GoodsInv'
  <2>1. PICK t : t = goodsTx[s]
    OBVIOUS
  <2>2. /\ t.op = "detach" /\ t.at = "read"
        /\ DOMAIN t = {"op", "asset", "primary", "saw", "heir", "last", "locks", "at"}
    BY <1>7, <2>1 DEF G!DeleteLink, GoodsInv, GoodsShape
  <2>3. ~tangled => t.asset \in DOMAIN links /\ ~t.last /\ (links[t.asset].primary => t.primary)
    BY <2>1, <2>2 DEF GoodsInv, ImagesInv, StillFits
  <2> DEFINE remaining == DOMAIN links \ {t.asset}
  <2>4. ASSUME NEW u, G!Advance(s, u), u.op = "detach", u.saw = t.saw, DOMAIN u = DOMAIN t, ~tangled => StillFits(u)
        PROVE  GoodsInv'
    <3>1. goodsTx' = [goodsTx EXCEPT ![s] = u] /\ UNCHANGED <<status, links, tangled, crossed>>
      BY <2>4 DEF G!Advance
    <3>2. GoodsShape'
      BY <2>2, <2>4, <3>1 DEF GoodsInv, GoodsShape
    <3>3. QED
      BY <2>1, <2>2, <2>4, <3>1, <3>2, AdvanceGoods
  <2>5. CASE remaining = {} /\ G!Advance(s, [t EXCEPT !.at = "deleted", !.locks = {t.asset}, !.last = TRUE])
    <3> DEFINE u == [t EXCEPT !.at = "deleted", !.locks = {t.asset}, !.last = TRUE]
    <3>1. /\ u.op = "detach" /\ u.saw = t.saw /\ DOMAIN u = DOMAIN t
          /\ u.at = "deleted" /\ u.asset = t.asset /\ u.last = TRUE
      BY <2>2
    <3> HIDE DEF u
    <3>2. ~tangled => DOMAIN links = {t.asset}
      BY <2>3, <2>5
    <3>3. ~tangled => StillFits(u)
      BY <3>1, <3>2 DEF StillFits
    <3>4. G!Advance(s, u)
      BY <2>5 DEF u
    <3>5. QED
      BY <2>4, <3>1, <3>3, <3>4
  <2>6. ASSUME NEW a \in remaining, 
               G!Advance(s, [t EXCEPT !.at = "deleted", !.locks = {t.asset},
                                      !.heir = IF t.primary /\ ~links[a].primary THEN {a} ELSE {}])
        PROVE  GoodsInv'
    <3> DEFINE heir == IF t.primary /\ ~links[a].primary THEN {a} ELSE {}
               u == [t EXCEPT !.at = "deleted", !.locks = {t.asset}, !.heir = heir]
    <3>1. /\ u.op = "detach" /\ u.saw = t.saw /\ DOMAIN u = DOMAIN t
          /\ u.at = "deleted" /\ u.asset = t.asset /\ u.heir = heir
      BY <2>2
    <3>2. G!Advance(s, u)
      BY <2>6
    <3>3. u.last = t.last
      BY <2>2
    <3> HIDE DEF u
    <3>4. ASSUME ~tangled
          PROVE  \E b \in remaining : b \in u.heir \/ links[b].primary
      <4>1. CASE t.primary
        BY <3>1, <4>1
      <4>2. CASE ~t.primary
        <5>1. PICK b \in DOMAIN links : links[b].primary
          BY <2>3, <3>4 DEF GoodsInv, ImagesInv
        <5>2. b # t.asset
          BY <2>3, <3>4, <4>2, <5>1
        <5>3. QED
          BY <5>1, <5>2
      <4>3. QED
        BY <4>1, <4>2
    <3>5. ~tangled => StillFits(u)
      BY <2>3, <3>1, <3>3, <3>4 DEF StillFits
    <3>6. QED
      BY <2>4, <3>1, <3>2, <3>5
  <2>7. QED
    BY <1>7, <2>1, <2>5, <2>6 DEF G!DeleteLink, G!Attached
<1>8. ASSUME NEW s \in Sessions, G!CommitDetach(s)
      PROVE  GoodsInv'
  <2>1. PICK t : t = goodsTx[s]
    OBVIOUS
  <2>2. /\ t.op = "detach" /\ t.at = "deleted" /\ G!Close(s)
        /\ links' = [b \in DOMAIN links \ {t.asset} |->
                        IF b \in t.heir THEN [links[b] EXCEPT !.primary = TRUE] ELSE links[b]]
        /\ status' = IF t.last /\ t.saw = "ASSETS_READY" THEN "DRAFT" ELSE status
    BY <1>8, <2>1 DEF G!CommitDetach, G!Without
  <2>3. DOMAIN links' = DOMAIN links \ {t.asset}
    BY <2>2
  <2>4. \A b \in DOMAIN links' : DOMAIN links'[b] = {"primary", "order"}
    BY <2>2, <2>3 DEF GoodsInv, GoodsShape
  <2>5. ASSUME NEW b \in DOMAIN links', b \in t.heir \/ links[b].primary
        PROVE  links'[b].primary
    <3>1. CASE b \in t.heir
      BY <2>2, <2>3, <3>1 DEF GoodsInv, GoodsShape
    <3>2. CASE b \notin t.heir
      BY <2>2, <2>3, <2>5, <3>2
    <3>3. QED
      BY <3>1, <3>2
  <2>6. ASSUME ~tangled
        PROVE  /\ t.asset \in DOMAIN links
               /\ t.last <=> DOMAIN links = {t.asset}
               /\ DOMAIN links # {t.asset} => \E b \in DOMAIN links \ {t.asset} : b \in t.heir \/ links[b].primary
    BY <2>1, <2>2, <2>6 DEF GoodsInv, ImagesInv, StillFits
  <2>7. ~tangled => (DOMAIN links' # {} => \E b \in DOMAIN links' : links'[b].primary)
    BY <2>3, <2>5, <2>6
  <2>8. ASSUME ~tangled, ~crossed
        PROVE  /\ status' = "DRAFT" => DOMAIN links' = {}
               /\ status' = "ASSETS_READY" => DOMAIN links' # {}
    <3>1. t.saw = status /\ (status = "DRAFT" => DOMAIN links = {})
      BY <2>1, <2>2, <2>8 DEF GoodsInv, StatusInv
    <3>2. QED
      BY <2>2, <2>3, <2>6, <2>8, <3>1
  <2>9. GoodsShape' /\ ImagesInv'
    BY <2>1, <2>2, <2>4, <2>7, CommitImages
  <2>10. StatusInv'
    BY <2>1, <2>2, <2>8, CommitStatus
  <2>11. QED
    BY <2>9, <2>10 DEF GoodsInv
<1>9. ASSUME NEW s \in Sessions, G!Archive(s) \/ G!MarkReviewed(s) \/ G!Analyze(s)
      PROVE  GoodsInv'
  <2>1. PICK target \in {"ARCHIVED", "READY", "REVIEW_REQUIRED"} :
           /\ G!Open(s, [op |-> "move", saw |-> status, target |-> target, locks |-> {}, at |-> "read"])
           /\ status = "ARCHIVED" => target = "ARCHIVED"
    <3>1. CASE G!Archive(s)
      BY <3>1 DEF G!Archive, G!Move
    <3>2. CASE G!MarkReviewed(s)
      <4>1. G!CanTransition(status, "READY")
        BY <3>2 DEF G!MarkReviewed, G!Move
      <4>2. QED
        BY <3>2, <4>1 DEF G!MarkReviewed, G!Move, G!CanTransition, G!NextStatuses
    <3>3. CASE G!Analyze(s)
      <4>1. G!CanTransition(status, "ANALYZING")
        BY <3>3 DEF G!Analyze, G!Move
      <4>2. QED
        BY <3>3, <4>1 DEF G!Analyze, G!Move, G!CanTransition, G!NextStatuses
    <3>4. QED
      BY <1>9, <3>1, <3>2, <3>3
  <2> DEFINE t == [op |-> "move", saw |-> status, target |-> target, locks |-> {}, at |-> "read"]
  <2>2. t.op = "move" /\ t.saw = status /\ t.target = target
    OBVIOUS
  <2>3. G!Open(s, t)
    BY <2>1
  <2> HIDE DEF t
  <2>4. StillFits(t)
    BY <2>2 DEF StillFits
  <2>5. GoodsShape'
    BY <2>1, <2>2, <2>3 DEF G!Open, GoodsInv, GoodsShape
  <2>6. QED
    BY <2>2, <2>3, <2>4, <2>5, OpenGoods
<1>10. ASSUME NEW s \in Sessions, G!CommitMove(s)
       PROVE  GoodsInv'
  <2>1. PICK t : t = goodsTx[s]
    OBVIOUS
  <2>2. /\ t.op = "move" /\ G!Close(s) /\ UNCHANGED links
        /\ status' \in {status, t.target} /\ t.target \in {"ARCHIVED", "READY", "REVIEW_REQUIRED"}
    BY <1>10, <2>1 DEF G!CommitMove, GoodsInv, GoodsShape
  <2>3. /\ goodsTx'[s] = G!Idle /\ \A o \in Sessions \ {s} : goodsTx'[o] = goodsTx[o]
        /\ DOMAIN goodsTx' = Sessions /\ UNCHANGED <<tangled, crossed>>
    BY <2>2 DEF G!Close, GoodsInv, GoodsShape
  <2>4. GoodsShape'
    BY <2>2, <2>3 DEF GoodsInv, GoodsShape, G!Idle
  <2>5. ImagesInv'
    <3>1. ASSUME ~tangled, NEW o \in Sessions
          PROVE  StillFits(goodsTx[o])'
      <4>1. StillFits(goodsTx'[o])
        BY <2>3, <3>1 DEF GoodsInv, ImagesInv, StillFits, G!Idle
      <4>2. QED
        BY <2>2, <4>1 DEF StillFits
    <3>2. QED
      BY <2>2, <2>3, <3>1 DEF GoodsInv, ImagesInv, G!Idle
  <2>6. StatusInv'
    BY <2>1, <2>2, CommitStatus DEF GoodsInv, StatusInv
  <2>7. QED
    BY <2>4, <2>5, <2>6 DEF GoodsInv
<1>11. ASSUME NEW s \in Sessions, G!Rollback(s)
       PROVE  GoodsInv'
  <2>1. goodsTx' = [goodsTx EXCEPT ![s] = G!Idle] /\ UNCHANGED <<status, links, tangled, crossed>>
    BY <1>11 DEF G!Rollback, G!Close
  <2>2. G!Idle.op = "none" /\ StillFits(G!Idle)
    BY DEF G!Idle, StillFits
  <2>3. GoodsShape'
    BY <2>1, <2>2 DEF GoodsInv, GoodsShape
  <2>4. QED
    BY <2>1, <2>2, <2>3, AdvanceGoods
<1>12. CASE UNCHANGED G!vars
  <2>1. ASSUME ~tangled, NEW o \in Sessions
        PROVE  StillFits(goodsTx[o])'
    BY <1>12, <2>1 DEF G!vars, GoodsInv, ImagesInv, StillFits
  <2>2. QED
    BY <1>12, <2>1 DEF G!vars, GoodsInv, GoodsShape, ImagesInv, StatusInv
<1>13. QED
  BY <1>1, <1>2, <1>3, <1>4, <1>5, <1>6, <1>7, <1>8, <1>9, <1>10, <1>11, <1>12 DEF G!Next

\* Only a request that read the product before it was archived, and now
\* commits, brings it back.
LEMMA GoodsArchived ==
    ASSUME GoodsInv, [G!Next]_G!vars, status = "ARCHIVED", status' # "ARCHIVED"
    PROVE  \E s \in Sessions :
              goodsTx[s].op \in G!StatusOps /\ goodsTx'[s] = G!Idle /\ goodsTx[s].saw # "ARCHIVED"
<1> USE DEF G!StatusOps
<1>1. ASSUME NEW s \in Sessions, G!Close(s)
      PROVE  goodsTx'[s] = G!Idle
  BY <1>1 DEF G!Close, GoodsInv, GoodsShape
<1>2. PICK s \in Sessions : G!CommitAttach(s) \/ G!CommitDetach(s) \/ G!CommitMove(s)
  <2>1. PICK s \in Sessions :
           \/ \E a \in Images, wanted \in BOOLEAN : G!Attach(s, a, wanted)
           \/ \E a \in Images : G!SetPrimary(s, a) \/ G!Detach(s, a)
           \/ G!ClearPrimary(s) \/ G!CommitAttach(s) \/ G!CommitPrimary(s) \/ G!DeleteLink(s)
           \/ G!CommitDetach(s) \/ G!Archive(s) \/ G!MarkReviewed(s) \/ G!Analyze(s)
           \/ G!CommitMove(s) \/ G!Rollback(s)
    BY DEF G!Next, G!vars
  <2>2. \A a \in Images : /\ \A wanted \in BOOLEAN : ~G!Attach(s, a, wanted)
                         /\ ~G!SetPrimary(s, a) /\ ~G!Detach(s, a)
    BY DEF G!Attach, G!SetPrimary, G!Detach, G!Open
  <2>3. ~G!ClearPrimary(s) /\ ~G!CommitPrimary(s) /\ ~G!DeleteLink(s) /\ ~G!Rollback(s)
    BY DEF G!ClearPrimary, G!CommitPrimary, G!DeleteLink, G!Rollback, G!Advance
  <2>4. ~G!Archive(s) /\ ~G!MarkReviewed(s) /\ ~G!Analyze(s)
    BY DEF G!Archive, G!MarkReviewed, G!Analyze, G!Move, G!Open
  <2>5. QED
    BY <2>1, <2>2, <2>3, <2>4
<1>3. CASE G!CommitAttach(s)
  BY <1>1, <1>3 DEF G!CommitAttach
<1>4. CASE G!CommitDetach(s)
  BY <1>1, <1>4 DEF G!CommitDetach
<1>5. CASE G!CommitMove(s)
  BY <1>1, <1>5 DEF G!CommitMove, GoodsInv, GoodsShape
<1>6. QED
  BY <1>2, <1>3, <1>4, <1>5

LEMMA GoodsSteps == [Next]_vars => [G!Next]_G!vars
BY DEF Next, vars, TruthMoves, GoodsMove, StoryMoves, PostMoves, CutMoves, MediaMove, StaffMoves,
       SignMoves, BrandMoves, RouterMoves, goods, G!vars

LEMMA GoodsInvariant == Spec => []GoodsInv
<1>1. Init => GoodsInv
  BY GoodsInit DEF Init
<1>2. GoodsInv /\ [Next]_vars => GoodsInv'
  BY GoodsNext, GoodsSteps
<1>3. QED
  BY <1>1, <1>2, PTL DEF Spec

\* attach_asset, set_primary_asset and detach_asset of products.py: whatever
\* their order, a product with images has a primary one, unless two of them
\* were open at once.
THEOREM APrimaryRemains == Spec => []PrimaryKept
<1>1. GoodsInv => PrimaryKept
  BY DEF GoodsInv, ImagesInv, PrimaryKept, G!PrimaryKept, G!Primaries, G!Attached
<1>2. QED
  BY <1>1, GoodsInvariant, PTL

\* The same requests and the moves of the status: DRAFT and ASSETS_READY are
\* right about the images.
THEOREM StatusIsOfTheImages == Spec => []StatusFollowsImages
<1>1. GoodsInv => StatusFollowsImages
  BY DEF GoodsInv, StatusInv, StatusFollowsImages, G!StatusFollowsImages, G!Attached
<1>2. QED
  BY <1>1, GoodsInvariant, PTL

\* _PRODUCT_TRANSITIONS under concurrent requests: ARCHIVED is left only by
\* the commit of a request that had read the status before.
THEOREM ArchivedIsLeftOnlyByStaleReads == Spec => ArchivedStays
<1>1. GoodsInv /\ [Next]_vars =>
         [status = "ARCHIVED" /\ status' # "ARCHIVED" =>
             \E s \in Sessions :
                 goodsTx[s].op \in G!StatusOps /\ goodsTx'[s] = G!Idle /\ goodsTx[s].saw # "ARCHIVED"]_G!vars
  BY GoodsArchived, GoodsSteps
<1>2. QED
  BY <1>1, GoodsInvariant, PTL DEF Spec, ArchivedStays, G!ArchivedStays

-----------------------------------------------------------------------------
(* Types.                                                                  *)

\* The columns a transaction sends have the types of a fact's.
SentFact(sent) ==
    /\ "status" \in DOMAIN sent => sent["status"] \in T!VerificationStatuses
    /\ "value" \in DOMAIN sent => sent["value"] \in Values
    /\ "at" \in DOMAIN sent => sent["at"] \in BOOLEAN

TruthTypes ==
    /\ T!TypeOK
    /\ \A s \in Sessions : truthTx[s].op \in FactOps => SentFact(truthTx[s].sent) /\ truthTx[s].saw \in Values

LEMMA TruthTypesInit == T!Init => TruthTypes
<1> SUFFICES ASSUME T!Init PROVE TruthTypes
  OBVIOUS
<1>1. T!TypeOK
  BY BoundsAssumption DEF T!Init, T!TypeOK, T!Idle, BoundsAssumption
<1>2. \A s \in Sessions : truthTx[s].op = "none"
  BY DEF T!Init, T!Idle
<1> QED
  BY <1>1, <1>2 DEF TruthTypes, FactOps

\* The number of requests stays within its bound.
LEMMA TruthRequest ==
    ASSUME NEW s \in Sessions, T!Request(s), truthRequests \in 0 .. MaxRequests.truth
    PROVE  truthRequests' \in 0 .. MaxRequests.truth
BY BoundsAssumption DEF T!Request, BoundsAssumption

\* A fact that is on record is a row.
LEMMA FactIsRow ==
    ASSUME TruthTypes, NEW f \in Facts, facts[f] # T!NoFact \/ facts[f].status # "none"
    PROVE  facts[f] \in T!FactRows
BY DEF TruthTypes, T!TypeOK, T!NoFact

LEMMA OpenFactTypes ==
    ASSUME TruthTypes, Transactions, NEW s \in Sessions, NEW f \in Facts, NEW new \in T!FactRows,
           NEW stamps \in BOOLEAN, NEW withdraws \in BOOLEAN, T!OpenFact(s, f, new, stamps, withdraws)
    PROVE  TruthTypes'
<1> DEFINE sent == [column \in DOMAIN T!Changed(facts[f], new) \cup (IF stamps THEN {"at"} ELSE {}) |-> new[column]]
           t == [op |-> IF withdraws THEN "withdraw" ELSE "fact", fact |-> f, sent |-> sent,
                 saw |-> new.value, cited |-> {}]
<1>1. /\ truthTx' = [truthTx EXCEPT ![s] = t] /\ UNCHANGED <<facts, claims, confirmed>>
      /\ T!Request(s)
  BY DEF T!OpenFact
<1>2. SentFact(sent)
  BY DEF SentFact, T!FactRows
<1> HIDE DEF sent
<1>3. t.op \in {"fact", "withdraw"} /\ t.sent = sent /\ t.saw \in Values
  BY DEF T!FactRows
<1> HIDE DEF t
<1>4. overtaken' \subseteq Facts
  BY DEF TruthTypes, T!TypeOK, T!OpenFact
<1>5. truthRequests' \in 0 .. MaxRequests.truth
  BY <1>1, TruthRequest DEF TruthTypes, T!TypeOK
<1>6. T!TypeOK'
  BY <1>1, <1>3, <1>4, <1>5 DEF TruthTypes, T!TypeOK, Transactions
<1> QED
  BY <1>1, <1>2, <1>3, <1>6 DEF TruthTypes, Transactions

LEMMA OpenClaimTypes ==
    ASSUME TruthTypes, Transactions, NEW s \in Sessions, NEW c \in Claims, NEW given, NEW grounds \in SUBSET Facts,
           T!OpenClaim(s, c, given, grounds)
    PROVE  TruthTypes'
<1>1. PICK t : t.op = "claim" /\ truthTx' = [truthTx EXCEPT ![s] = t]
  BY DEF T!OpenClaim
<1>2. UNCHANGED <<facts, claims, confirmed>> /\ T!Request(s) /\ overtaken' \subseteq Facts
  BY DEF T!OpenClaim, TruthTypes, T!TypeOK
<1>3. truthRequests' \in 0 .. MaxRequests.truth
  BY <1>2, TruthRequest DEF TruthTypes, T!TypeOK
<1> QED
  BY <1>1, <1>2, <1>3 DEF TruthTypes, T!TypeOK, Transactions, FactOps

\* A transaction about a fact writes a row again.
LEMMA WriteFactTypes ==
    ASSUME TruthTypes, TruthInv, BackingInv, NEW s \in Sessions, truthTx[s].op \in FactOps, T!WriteFact(s)
    PROVE  /\ facts' \in [Facts -> T!FactRows \cup {T!NoFact}] /\ confirmed' \in [Facts -> Values \cup {0}]
           /\ \A o \in Sessions :
                 /\ truthTx'[o].op \in {"none", "fact", "withdraw", "demote", "claim"}
                 /\ truthTx'[o].op \in FactOps => SentFact(truthTx'[o].sent) /\ truthTx'[o].saw \in Values
<1>1. PICK t : t = truthTx[s]
  OBVIOUS
<1>2. t.op \in FactOps /\ SentFact(t.sent) /\ t.saw \in Values /\ KeepsStamp(t.sent)
  BY <1>1 DEF TruthTypes, TruthInv, Transactions
<1>3. t.fact \in Facts /\ facts[t.fact].status # "none"
  BY <1>1, <1>2 DEF BackingInv, Stands, ConfirmsValue, WithdrawsValue, Withdrawals, FactOps
<1>4. facts[t.fact] \in T!FactRows
  BY <1>3, FactIsRow
<1>5. T!Overwritten(facts[t.fact], t.sent) \in T!FactRows
  BY <1>2, <1>4 DEF T!Overwritten, T!FactRows, SentFact
<1>6. facts' = [facts EXCEPT ![t.fact] = T!Overwritten(facts[t.fact], t.sent)]
  BY <1>1 DEF T!WriteFact
<1>7. confirmed' = confirmed \/ confirmed' = [confirmed EXCEPT ![t.fact] = t.saw]
  BY <1>1 DEF T!WriteFact
<1>8. truthTx' = [truthTx EXCEPT ![s] = T!Idle] /\ T!Idle.op = "none"
  BY DEF T!WriteFact, T!Idle
<1> QED
  BY <1>2, <1>3, <1>5, <1>6, <1>7, <1>8 DEF TruthTypes, T!TypeOK, TruthInv, Transactions, FactOps

LEMMA TruthTypesNext ==
    ASSUME TruthTypes, TruthInv, BackingInv, [T!Next]_T!vars
    PROVE  TruthTypes'
<1>0. Transactions /\ DOMAIN truthTx = Sessions
  BY DEF TruthInv, Transactions
<1>1. ASSUME NEW s \in Sessions, NEW f \in Facts, NEW value \in Values,
             NEW source \in {"USER_INPUT", "AI_VISION"}, NEW verify \in BOOLEAN,
             T!CreateFact(s, f, value, source, verify)
      PROVE  TruthTypes'
  <2> DEFINE given == T!InitialStatus(source, verify)
             row == [status |-> given, value |-> value, at |-> given = "VERIFIED"]
  <2>1. row \in T!FactRows
    BY DEF T!FactRows, T!VerificationStatuses, T!InitialStatus
  <2>2. /\ facts' = [facts EXCEPT ![f] = row] /\ UNCHANGED <<claims, truthTx, overtaken>> /\ T!Request(s)
        /\ confirmed' = confirmed \/ confirmed' = [confirmed EXCEPT ![f] = value]
    BY <1>1 DEF T!CreateFact
  <2> HIDE DEF row
  <2>3. truthRequests' \in 0 .. MaxRequests.truth
    BY <2>2, TruthRequest DEF TruthTypes, T!TypeOK
  <2> QED
    BY <2>1, <2>2, <2>3 DEF TruthTypes, T!TypeOK
<1>2. ASSUME NEW s \in Sessions, NEW c \in Claims, NEW cited \in SUBSET Facts, NEW checkable \in BOOLEAN,
             T!CreateClaim(s, c, cited, checkable)
      PROVE  TruthTypes'
  <2> DEFINE row == [status |-> "SUGGESTED", cites |-> cited, checkable |-> checkable]
  <2>1. row \in T!ClaimRows
    BY DEF T!ClaimRows, T!ClaimStatuses
  <2>2. claims' = [claims EXCEPT ![c] = row] /\ UNCHANGED <<facts, truthTx, confirmed, overtaken>> /\ T!Request(s)
    BY <1>2 DEF T!CreateClaim
  <2> HIDE DEF row
  <2>3. truthRequests' \in 0 .. MaxRequests.truth
    BY <2>2, TruthRequest DEF TruthTypes, T!TypeOK
  <2> QED
    BY <2>1, <2>2, <2>3 DEF TruthTypes, T!TypeOK
<1>3. ASSUME NEW s \in Sessions, NEW f \in Facts, NEW c \in Claims, NEW value \in Values,
             T!FileAnalysis(s, f, c, value)
      PROVE  TruthTypes'
  <2> DEFINE fact == [status |-> T!InitialStatus("AI_VISION", FALSE), value |-> value, at |-> FALSE]
             claim == [status |-> "SUGGESTED", cites |-> {}, checkable |-> TRUE]
  <2>1. fact \in T!FactRows /\ claim \in T!ClaimRows
    BY DEF T!FactRows, T!VerificationStatuses, T!InitialStatus, T!ClaimRows, T!ClaimStatuses
  <2>2. /\ facts' = [facts EXCEPT ![f] = fact] /\ claims' = [claims EXCEPT ![c] = claim]
        /\ UNCHANGED <<truthTx, confirmed, overtaken>> /\ T!Request(s)
    BY <1>3 DEF T!FileAnalysis
  <2> HIDE DEF fact, claim
  <2>3. truthRequests' \in 0 .. MaxRequests.truth
    BY <2>2, TruthRequest DEF TruthTypes, T!TypeOK
  <2> QED
    BY <2>1, <2>2, <2>3 DEF TruthTypes, T!TypeOK
<1>4. ASSUME NEW s \in Sessions, NEW f \in Facts, T!VerifyFact(s, f) \/ T!RejectFact(s, f)
      PROVE  TruthTypes'
  <2> DEFINE verified == T!Stamped(facts[f])
             rejected == [facts[f] EXCEPT !.status = "REJECTED", !.at = TRUE]
  <2>1. T!OpenFact(s, f, verified, TRUE, FALSE) \/ T!OpenFact(s, f, rejected, TRUE, TRUE)
    BY <1>4 DEF T!VerifyFact, T!RejectFact
  <2>2. facts[f] \in T!FactRows
    BY <2>1, FactIsRow DEF T!OpenFact, T!Recorded
  <2>3. verified \in T!FactRows /\ rejected \in T!FactRows
    BY <2>2 DEF T!Stamped, T!FactRows, T!VerificationStatuses
  <2> HIDE DEF verified, rejected
  <2> QED
    BY <1>0, <2>1, <2>3, OpenFactTypes
<1>5. ASSUME NEW s \in Sessions, NEW f \in Facts, NEW value \in Values, NEW verify \in BOOLEAN,
             T!UpdateFact(s, f, value, verify)
      PROVE  TruthTypes'
  <2>1. PICK withdraws \in BOOLEAN : T!OpenFact(s, f, T!EditedFact(facts[f], value, verify), verify, withdraws)
    BY <1>5 DEF T!UpdateFact
  <2>2. facts[f] \in T!FactRows
    BY <2>1, FactIsRow DEF T!OpenFact, T!Recorded
  <2>3. T!EditedFact(facts[f], value, verify) \in T!FactRows
    BY <2>2 DEF T!EditedFact, T!Stamped, T!Unstamped, T!FactRows, T!VerificationStatuses
  <2> QED
    BY <1>0, <2>1, <2>3, OpenFactTypes
<1>6. ASSUME NEW s \in Sessions, T!CommitFact(s)
      PROVE  TruthTypes'
  BY <1>6, WriteFactTypes DEF T!CommitFact, FactOps, TruthTypes, T!TypeOK
<1>7. ASSUME NEW s \in Sessions, T!ReadCiting(s)
      PROVE  TruthTypes'
  <2>1. /\ DOMAIN truthTx[s] = {"op", "fact", "sent", "saw", "cited"}
        /\ UNCHANGED <<facts, claims, truthRequests, confirmed, overtaken>>
        /\ truthTx[s].op \in FactOps
    BY <1>0, <1>7 DEF T!ReadCiting, Transactions, FactOps
  <2>2. /\ truthTx'[s].op = "demote" /\ truthTx'[s].sent = truthTx[s].sent /\ truthTx'[s].saw = truthTx[s].saw
        /\ \A o \in Sessions \ {s} : truthTx'[o] = truthTx[o]
    BY <1>0, <1>7, <2>1 DEF T!ReadCiting
  <2> QED
    BY <2>1, <2>2 DEF TruthTypes, T!TypeOK
<1>8. ASSUME NEW s \in Sessions, T!DemoteCiting(s)
      PROVE  TruthTypes'
  <2>1. \A c \in Claims : [claims[c] EXCEPT !.status = "SUGGESTED"] \in T!ClaimRows
    <3> SUFFICES ASSUME NEW c \in Claims PROVE [claims[c] EXCEPT !.status = "SUGGESTED"] \in T!ClaimRows
      OBVIOUS
    <3>1. claims[c] \in T!ClaimRows \cup {T!NoClaim}
      BY DEF TruthTypes, T!TypeOK
    <3>2. CASE claims[c] \in T!ClaimRows
      BY <3>2 DEF T!ClaimRows, T!ClaimStatuses
    <3>3. CASE claims[c] = T!NoClaim
      <4> DEFINE none == [status |-> "none", cites |-> {}, checkable |-> FALSE]
      <4>1. claims[c] = none
        BY <3>3 DEF T!NoClaim
      <4>2. [none EXCEPT !.status = "SUGGESTED"] \in T!ClaimRows
        BY DEF T!ClaimRows, T!ClaimStatuses
      <4> HIDE DEF none
      <4> QED
        BY <4>1, <4>2
    <3> QED
      BY <3>1, <3>2, <3>3
  <2>2. claims' \in [Claims -> T!ClaimRows \cup {T!NoClaim}]
    BY <1>8, <2>1 DEF T!DemoteCiting, TruthTypes, T!TypeOK
  <2>3. truthTx[s].op \in FactOps /\ T!WriteFact(s) /\ UNCHANGED <<truthRequests, overtaken>>
    BY <1>8 DEF T!DemoteCiting, FactOps
  <2> QED
    BY <2>2, <2>3, WriteFactTypes DEF TruthTypes, T!TypeOK
<1>9. ASSUME NEW s \in Sessions, NEW c \in Claims, T!VerifyClaim(s, c) \/ T!RejectClaim(s, c)
      PROVE  TruthTypes'
  <2>1. claims[c].cites \in SUBSET Facts
    BY DEF TruthTypes, T!TypeOK, T!ClaimRows, T!NoClaim
  <2> QED
    BY <1>0, <1>9, <2>1, OpenClaimTypes DEF T!VerifyClaim, T!RejectClaim
<1>10. ASSUME NEW s \in Sessions, T!CommitClaim(s)
       PROVE  TruthTypes'
  <2>1. PICK t : t = truthTx[s]
    OBVIOUS
  <2>2. StillBacked(t)
    BY <1>10, <2>1 DEF T!CommitClaim, BackingInv, Stands
  <2>3. /\ claims' = [claims EXCEPT ![t.claim] = T!Overwritten(claims[t.claim], t.sent)]
        /\ truthTx' = [truthTx EXCEPT ![s] = T!Idle] /\ T!Idle.op = "none"
        /\ UNCHANGED <<facts, truthRequests, confirmed, overtaken>>
    BY <1>10, <2>1 DEF T!CommitClaim, T!Idle
  <2>4. claims[t.claim] \in T!ClaimRows
    BY <2>2 DEF StillBacked, TruthTypes, T!TypeOK, T!NoClaim
  <2>5. T!Overwritten(claims[t.claim], t.sent) \in T!ClaimRows
    BY <2>2, <2>4 DEF T!Overwritten, T!ClaimRows, T!ClaimStatuses, StillBacked
  <2> QED
    BY <1>0, <2>3, <2>5 DEF TruthTypes, T!TypeOK, FactOps
<1>11. ASSUME NEW s \in Sessions, T!Rollback(s)
       PROVE  TruthTypes'
  BY <1>0, <1>11 DEF T!Rollback, T!Idle, TruthTypes, T!TypeOK, FactOps
<1>12. CASE UNCHANGED T!vars
  BY <1>12 DEF T!vars, TruthTypes, T!TypeOK
<1> QED
  BY <1>1, <1>2, <1>3, <1>4, <1>5, <1>6, <1>7, <1>8, <1>9, <1>10, <1>11, <1>12 DEF T!Next

LEMMA TruthIsTyped == Spec => []T!TypeOK
<1>1. Init => TruthTypes
  BY TruthTypesInit DEF Init
<1>2. TruthTypes /\ (TruthInv /\ BackingInv) /\ [Next]_vars => TruthTypes'
  BY TruthTypesNext, TruthSteps
<1>3. TruthTypes => T!TypeOK
  BY DEF TruthTypes
<1> QED
  BY <1>1, <1>2, <1>3, TruthInvariant, PTL DEF Spec
-----------------------------------------------------------------------------
\* Statuses, links and requests have their types; the orders have a bound, so
\* that there is a next one.
GoodsTypes ==
    /\ status \in G!ProductStatuses
    /\ DOMAIN links \subseteq Images /\ \A a \in DOMAIN links : links[a] \in G!LinkRows
    /\ \E n \in Nat : \A a \in DOMAIN links : links[a].order <= n
    /\ \A s \in Sessions :
          goodsTx[s].op \in {"attach", "promote"} => goodsTx[s].asset \in Images /\ goodsTx[s].primary \in BOOLEAN
    /\ goodsRequests \in 0 .. MaxRequests.goods

LEMMA GoodsTypesInit == G!Init => GoodsTypes
BY BoundsAssumption DEF G!Init, GoodsTypes, G!ProductStatuses, G!Idle, BoundsAssumption

\* A set of naturals with a bound has a largest element.
LEMMA GreatestOf ==
    ASSUME NEW O \in SUBSET Nat, O # {}, NEW n \in Nat, \A k \in O : k <= n
    PROVE  G!Max(O) \in O /\ G!Max(O) <= n
<1> DEFINE U == {m \in Nat : \A k \in O : k <= m}
           less == OpToRel(<, Nat)
<1>1. IsWellFoundedOn(less, Nat)
  BY NatLessThanWellFounded
<1>2. \A m \in Nat \ {0} : <<m - 1, m>> \in less
  BY DEF OpToRel
<1> HIDE DEF less
<1>3. PICK x \in U : \A y \in U : <<y, x>> \notin less
  BY <1>1, WFMin
<1>4. x \in Nat /\ \A k \in O : k <= x
  OBVIOUS
<1>5. ASSUME x # 0, x \notin O PROVE FALSE
  <2>1. x - 1 \in Nat /\ <<x - 1, x>> \in less
    BY <1>2, <1>4, <1>5
  <2>2. \A k \in O : k <= x - 1
    BY <1>4, <1>5, <2>1
  <2>3. x - 1 \in U
    BY <2>1, <2>2
  <2> QED
    BY <1>3, <2>1, <2>3
<1>6. x = 0 => \A k \in O : k = 0
  BY <1>4
<1>7. \E y \in O : \A k \in O : y >= k
  BY <1>4, <1>5, <1>6
<1> QED
  BY <1>7 DEF G!Max

\* next_sort_order is a number, and there is still a bound.
LEMMA NextOrderOf ==
    ASSUME GoodsTypes
    PROVE  /\ G!NextOrder \in Nat
           /\ \E n \in Nat : G!NextOrder <= n /\ \A a \in DOMAIN links : links[a].order <= n
<1>1. PICK n \in Nat : \A a \in DOMAIN links : links[a].order <= n
  BY DEF GoodsTypes
<1>2. CASE DOMAIN links = {}
  BY <1>2 DEF G!NextOrder, G!Attached
<1>3. CASE DOMAIN links # {}
  <2> DEFINE O == {links[a].order : a \in DOMAIN links}
  <2>1. O \in SUBSET Nat /\ O # {} /\ \A k \in O : k <= n
    BY <1>1, <1>3 DEF GoodsTypes, G!LinkRows
  <2>2. G!Max(O) \in Nat /\ G!Max(O) <= n
    BY <2>1, GreatestOf
  <2>3. G!NextOrder = 1 + G!Max(O)
    BY <1>3 DEF G!NextOrder, G!Attached
  <2> QED
    <3>1. n + 1 \in Nat /\ G!NextOrder <= n + 1
      BY <2>2, <2>3
    <3>2. \A a \in DOMAIN links : links[a].order \in Nat
      BY DEF GoodsTypes, G!LinkRows
    <3>3. \A a \in DOMAIN links : links[a].order <= n + 1
      BY <1>1, <3>2
    <3>4. G!NextOrder \in Nat
      BY <2>2, <2>3
    <3> QED
      BY <3>1, <3>3, <3>4
<1> QED
  BY <1>2, <1>3

LEMMA OpenGoodsTypes ==
    ASSUME GoodsTypes, GoodsShape, NEW s \in Sessions, NEW t, G!Open(s, t),
           t.op \in {"attach", "promote"} => t.asset \in Images /\ t.primary \in BOOLEAN
    PROVE  GoodsTypes'
<1>1. goodsTx'[s] = t /\ \A o \in Sessions \ {s} : goodsTx'[o] = goodsTx[o]
  BY DEF G!Open, GoodsShape
<1>2. goodsRequests' \in 0 .. MaxRequests.goods
  BY BoundsAssumption DEF G!Open, GoodsTypes, BoundsAssumption
<1> QED
  BY <1>1, <1>2 DEF G!Open, GoodsTypes

\* A request goes on, and writes nothing yet.
LEMMA AdvanceGoodsTypes ==
    ASSUME GoodsTypes, GoodsShape, NEW s \in Sessions, NEW t, G!Advance(s, t),
           t.op \in {"attach", "promote"} =>
               goodsTx[s].op = t.op /\ t.asset = goodsTx[s].asset /\ t.primary = goodsTx[s].primary
    PROVE  GoodsTypes'
<1>1. goodsTx'[s] = t /\ \A o \in Sessions \ {s} : goodsTx'[o] = goodsTx[o]
  BY DEF G!Advance, GoodsShape
<1> QED
  BY <1>1 DEF G!Advance, GoodsTypes

\* A commit leaves typed rows whose orders have a bound.
LEMMA CommitGoodsTypes ==
    ASSUME GoodsTypes, GoodsShape, NEW s \in Sessions, G!Close(s),
           status' \in G!ProductStatuses,
           DOMAIN links' \subseteq Images, \A a \in DOMAIN links' : links'[a] \in G!LinkRows,
           \E n \in Nat : \A a \in DOMAIN links' : links'[a].order <= n
    PROVE  GoodsTypes'
<1>1. goodsTx'[s] = G!Idle /\ \A o \in Sessions \ {s} : goodsTx'[o] = goodsTx[o]
  BY DEF G!Close, GoodsShape
<1> QED
  BY <1>1 DEF G!Close, G!Idle, GoodsTypes

LEMMA GoodsTypesNext ==
    ASSUME GoodsTypes, GoodsInv, [G!Next]_G!vars
    PROVE  GoodsTypes'
<1> USE DEF GoodsInv
<1>1. ASSUME NEW s \in Sessions, NEW a \in Images, NEW wanted \in BOOLEAN, G!Attach(s, a, wanted)
      PROVE  GoodsTypes'
  <2> DEFINE primary == wanted \/ G!Attached = {}
             t == [op |-> "attach", asset |-> a, primary |-> primary, saw |-> status,
                   clears |-> IF primary THEN G!Primaries ELSE {}, locks |-> {}, at |-> "read"]
  <2>1. G!Open(s, t)
    BY <1>1 DEF G!Attach
  <2>2. t.asset = a /\ t.primary \in BOOLEAN
    OBVIOUS
  <2> HIDE DEF t
  <2> QED
    BY <2>1, <2>2, OpenGoodsTypes
<1>2. ASSUME NEW s \in Sessions, NEW a \in Images, G!SetPrimary(s, a) \/ G!Detach(s, a)
      PROVE  GoodsTypes'
  <2>1. PICK t : G!Open(s, t) /\ (t.op = "detach" \/ (t.asset = a /\ t.primary = TRUE))
    BY <1>2 DEF G!SetPrimary, G!Detach
  <2> QED
    BY <2>1, OpenGoodsTypes
<1>3. ASSUME NEW s \in Sessions, G!ClearPrimary(s)
      PROVE  GoodsTypes'
  <2> DEFINE t == [goodsTx[s] EXCEPT !.at = "cleared", !.locks = goodsTx[s].clears]
  <2>1. G!Advance(s, t)
    BY <1>3 DEF G!ClearPrimary
  <2>2. t.op = goodsTx[s].op /\ t.asset = goodsTx[s].asset /\ t.primary = goodsTx[s].primary
    BY <1>3 DEF G!ClearPrimary, GoodsShape
  <2> HIDE DEF t
  <2> QED
    BY <2>1, <2>2, AdvanceGoodsTypes
<1>4. ASSUME NEW s \in Sessions, NEW t, t = goodsTx[s], t.op \in {"attach", "promote"}
      PROVE  /\ DOMAIN G!Cleared(t) = DOMAIN links
             /\ \A b \in DOMAIN links : G!Cleared(t)[b] \in G!LinkRows /\ G!Cleared(t)[b].order = links[b].order
  BY DEF G!Cleared, G!Attached, GoodsTypes, G!LinkRows
<1>5. ASSUME NEW s \in Sessions, G!CommitAttach(s)
      PROVE  GoodsTypes'
  <2>1. PICK t : t = goodsTx[s]
    OBVIOUS
  <2>2. /\ t.op = "attach" /\ G!Close(s) /\ status' \in {status, "ASSETS_READY"}
        /\ links' = [b \in DOMAIN links \cup {t.asset} |->
                        IF b = t.asset THEN [primary |-> t.primary, order |-> G!NextOrder]
                                       ELSE G!Cleared(t)[b]]
    BY <1>5, <2>1 DEF G!CommitAttach, G!Attached
  <2>3. t.asset \in Images /\ t.primary \in BOOLEAN
    BY <2>1, <2>2 DEF GoodsTypes
  <2>4. PICK n \in Nat : G!NextOrder \in Nat /\ G!NextOrder <= n /\ \A a \in DOMAIN links : links[a].order <= n
    BY NextOrderOf
  <2>5. [primary |-> t.primary, order |-> G!NextOrder] \in G!LinkRows
    BY <2>3, <2>4 DEF G!LinkRows
  <2>6. \A b \in DOMAIN links : G!Cleared(t)[b] \in G!LinkRows /\ G!Cleared(t)[b].order <= n
    BY <1>4, <2>1, <2>2, <2>4
  <2>7. /\ DOMAIN links' \subseteq Images
        /\ \A b \in DOMAIN links' : links'[b] \in G!LinkRows /\ links'[b].order <= n
    BY <2>2, <2>3, <2>4, <2>5, <2>6 DEF GoodsTypes
  <2>8. status' \in G!ProductStatuses
    BY <2>2 DEF GoodsTypes, G!ProductStatuses
  <2> QED
    BY <2>2, <2>4, <2>7, <2>8, CommitGoodsTypes
<1>6. ASSUME NEW s \in Sessions, G!CommitPrimary(s)
      PROVE  GoodsTypes'
  <2>1. PICK t : t = goodsTx[s]
    OBVIOUS
  <2>2. /\ t.op = "promote" /\ G!Close(s) /\ status' = status
        /\ links' = [G!Cleared(t) EXCEPT ![t.asset].primary = TRUE]
    BY <1>6, <2>1 DEF G!CommitPrimary
  <2>3. /\ DOMAIN links' = DOMAIN links
        /\ \A b \in DOMAIN links : links'[b] \in {G!Cleared(t)[b], [G!Cleared(t)[b] EXCEPT !.primary = TRUE]}
    BY <1>4, <2>1, <2>2 DEF G!Cleared, G!Attached
  <2>4. \A b \in DOMAIN links : links'[b] \in G!LinkRows /\ links'[b].order = links[b].order
    <3>1. \A row \in G!LinkRows :
             [row EXCEPT !.primary = TRUE] \in G!LinkRows /\ [row EXCEPT !.primary = TRUE].order = row.order
      BY DEF G!LinkRows
    <3>2. \A b \in DOMAIN links : G!Cleared(t)[b] \in G!LinkRows /\ G!Cleared(t)[b].order = links[b].order
      BY <1>4, <2>1, <2>2
    <3> QED
      BY <2>3, <3>1, <3>2
  <2>5. DOMAIN links' \subseteq Images /\ \E n \in Nat : \A b \in DOMAIN links' : links'[b].order <= n
    BY <2>3, <2>4 DEF GoodsTypes
  <2>6. status' \in G!ProductStatuses
    BY <2>2 DEF GoodsTypes
  <2> QED
    BY <2>2, <2>3, <2>4, <2>5, <2>6, CommitGoodsTypes
<1>7. ASSUME NEW s \in Sessions, G!DeleteLink(s)
      PROVE  GoodsTypes'
  <2> DEFINE deleted == [goodsTx[s] EXCEPT !.at = "deleted", !.locks = {goodsTx[s].asset}]
  <2>1. deleted.op = "detach" /\ "op" \in DOMAIN deleted
    BY <1>7 DEF G!DeleteLink, GoodsShape
  <2>2. \/ G!Advance(s, [deleted EXCEPT !.last = TRUE])
        \/ \E heir : G!Advance(s, [deleted EXCEPT !.heir = heir])
    BY <1>7 DEF G!DeleteLink
  <2> HIDE DEF deleted
  <2>3. [deleted EXCEPT !.last = TRUE].op = "detach" /\ \A heir : [deleted EXCEPT !.heir = heir].op = "detach"
    BY <2>1
  <2>4. CASE G!Advance(s, [deleted EXCEPT !.last = TRUE])
    BY <2>3, <2>4, AdvanceGoodsTypes
  <2>5. ASSUME NEW heir, G!Advance(s, [deleted EXCEPT !.heir = heir])
        PROVE  GoodsTypes'
    BY <2>3, <2>5, AdvanceGoodsTypes
  <2> QED
    BY <2>2, <2>4, <2>5
<1>8. ASSUME NEW s \in Sessions, G!CommitDetach(s)
      PROVE  GoodsTypes'
  <2>1. /\ G!Close(s) /\ status' \in {status, "DRAFT"} /\ DOMAIN links' \subseteq DOMAIN links
        /\ \A b \in DOMAIN links' : links'[b] \in {links[b], [links[b] EXCEPT !.primary = TRUE]}
    BY <1>8 DEF G!CommitDetach, G!Without
  <2>2. \A b \in DOMAIN links' : links'[b] \in G!LinkRows /\ links'[b].order = links[b].order
    BY <2>1 DEF GoodsTypes, G!LinkRows
  <2>3. DOMAIN links' \subseteq Images /\ \E n \in Nat : \A b \in DOMAIN links' : links'[b].order <= n
    BY <2>1, <2>2 DEF GoodsTypes
  <2>4. status' \in G!ProductStatuses
    BY <2>1 DEF GoodsTypes, G!ProductStatuses
  <2> QED
    BY <2>1, <2>2, <2>3, <2>4, CommitGoodsTypes
<1>9. ASSUME NEW s \in Sessions, G!Archive(s) \/ G!MarkReviewed(s) \/ G!Analyze(s)
      PROVE  GoodsTypes'
  <2>1. PICK t : G!Open(s, t) /\ t.op = "move"
    BY <1>9 DEF G!Archive, G!MarkReviewed, G!Analyze, G!Move
  <2> QED
    BY <2>1, OpenGoodsTypes
<1>10. ASSUME NEW s \in Sessions, G!CommitMove(s)
       PROVE  GoodsTypes'
  <2>1. G!Close(s) /\ links' = links /\ status' \in G!ProductStatuses
    BY <1>10 DEF G!CommitMove, GoodsShape, GoodsTypes, G!ProductStatuses
  <2> QED
    BY <2>1, CommitGoodsTypes DEF GoodsTypes
<1>11. ASSUME NEW s \in Sessions, G!Rollback(s)
       PROVE  GoodsTypes'
  BY <1>11, CommitGoodsTypes DEF G!Rollback, GoodsTypes
<1>12. CASE UNCHANGED G!vars
  BY <1>12 DEF G!vars, GoodsTypes
<1> QED
  BY <1>1, <1>2, <1>3, <1>5, <1>6, <1>7, <1>8, <1>9, <1>10, <1>11, <1>12 DEF G!Next

LEMMA GoodsAreTyped == Spec => []G!TypeOK
<1>1. Init => GoodsTypes
  BY GoodsTypesInit DEF Init
<1>2. GoodsTypes /\ GoodsInv /\ [Next]_vars => GoodsTypes'
  BY GoodsTypesNext, GoodsSteps
<1>3. GoodsTypes /\ GoodsInv => G!TypeOK
  BY DEF GoodsTypes, GoodsInv, GoodsShape, G!TypeOK, G!Attached, G!ImageOps
<1> QED
  BY <1>1, <1>2, <1>3, GoodsInvariant, PTL DEF Spec
=============================================================================
