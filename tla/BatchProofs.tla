----------------------------- MODULE BatchProofs -----------------------------
(***************************************************************************)
(* Proofs about Batch: a row is run no more often than it is claimed, a    *)
(* row that failed validation is never written, and all keep their types,  *)
(* among which that one claim takes no more rows than may run at once.     *)
(***************************************************************************)
EXTENDS Batch, FiniteSetTheorems, WellFoundedInduction, TLAPS

\* Rows, messages and sessions, as far as the two properties read them.
Types ==
    /\ item \in [Rows -> Items]
    /\ DOMAIN holder = Rows
    /\ runs \in [Rows -> Nat]
    /\ DOMAIN pc = Sessions /\ DOMAIN task = Sessions /\ DOMAIN read = Sessions
    /\ \A s \in Sessions :
          /\ DOMAIN read[s] \subseteq Rows
          /\ \A i \in DOMAIN read[s] : read[s][i] \in Items

\* What a session is at says what it is for and which rows it is about.
StageOf(s) ==
    /\ pc[s] \in {"idle", "select"} => DOMAIN read[s] = {}
    /\ pc[s] = "select" => task[s] \in {"start", "dispatch"}
    /\ pc[s] = "send" /\ DOMAIN read[s] # {} => task[s] = "dispatch"
    /\ pc[s] \in {"mark", "open", "work", "counted", "done"} <=> task[s] \in {"run", "fail"}

\* A claim that is not committed has its rows locked, as it read them.
ClaimOf(s) ==
    pc[s] = "claimed" =>
        \A i \in DOMAIN read[s] : holder[i] = s /\ read[s][i].attempts = item[i].attempts

\* No session and no message is about a row that failed validation.
ValidOf(s) == \A i \in DOMAIN read[s] : item[i].status # "INVALID"
ValidRuns == \A i \in Rows : runs[i] > 0 => item[i].status # "INVALID"

Bounded(i) == IsFiniteSet(Engaged(i)) /\ runs[i] + Cardinality(Engaged(i)) <= item[i].attempts

IInv ==
    /\ Types /\ ValidRuns
    /\ \A s \in Sessions : StageOf(s) /\ ClaimOf(s) /\ ValidOf(s)
    /\ \A i \in Rows : Bounded(i)

-----------------------------------------------------------------------------
(* What one session's step does to the count of a row.                     *)

Engages(s, i) ==
    /\ i \in DOMAIN read[s]
    /\ task[s] \in {"run", "fail"} \/ (task[s] = "dispatch" /\ pc[s] = "send")

\* Only the session s moves.
Elsewhere(s) ==
    \A o \in Sessions \ {s} : read'[o] = read[o] /\ task'[o] = task[o] /\ pc'[o] = pc[o]

\* One that is engaged, the messages and the claims balance.
Weight(s, i) == runs[i] + (IF Engages(s, i) THEN 1 ELSE 0)

LEMMA Balance ==
    ASSUME Types, Types', NEW i \in Rows, Bounded(i), NEW s \in Sessions, Elsewhere(s),
           Weight(s, i)' - item'[i].attempts <= Weight(s, i) - item[i].attempts
    PROVE  Bounded(i)'
<1> DEFINE Others == Engaged(i) \ {s}
           Count == Cardinality(Engaged(i))
           Counted == Cardinality(Engaged(i)')
           Rest0 == Cardinality(Others)
<1>1. IsFiniteSet(Others) /\ Rest0 \in Nat /\ Count \in Nat
  BY FS_Subset, FS_CardinalityType DEF Bounded
<1>2. /\ Engages(s, i) => Count = Rest0 + 1
      /\ ~Engages(s, i) => Count = Rest0
  <2>1. CASE Engages(s, i)
    <3>1. s \in Engaged(i)
      BY <2>1 DEF Engaged, Engages
    <3>2. Rest0 = Count - 1
      BY <3>1, FS_RemoveElement DEF Bounded
    <3>3. Count = Rest0 + 1
      BY <3>2, <1>1
    <3> QED
      BY <2>1, <3>3
  <2>2. CASE ~Engages(s, i)
    <3>1. Others = Engaged(i)
      BY <2>2 DEF Engaged, Engages
    <3> QED
      BY <2>2, <3>1
  <2> QED
    BY <2>1, <2>2
<1>3. /\ IsFiniteSet(Engaged(i)')
      /\ Engages(s, i)' => Counted = Rest0 + 1
      /\ ~Engages(s, i)' => Counted = Rest0
  <2>1. CASE Engages(s, i)'
    <3>1. Engaged(i)' = Others \cup {s}
      BY <2>1 DEF Engaged, Engages, Elsewhere
    <3>2. s \notin Others
      OBVIOUS
    <3>3. IsFiniteSet(Others \cup {s}) /\ Cardinality(Others \cup {s}) = Rest0 + 1
      BY <3>2, <1>1, FS_AddElement
    <3> QED
      BY <2>1, <3>1, <3>3
  <2>2. CASE ~Engages(s, i)'
    <3>1. Engaged(i)' = Others
      BY <2>2 DEF Engaged, Engages, Elsewhere
    <3> QED
      BY <2>2, <3>1, <1>1
  <2> QED
    BY <2>1, <2>2
<1>4. runs[i] \in Nat /\ runs'[i] \in Nat /\ item[i].attempts \in Nat /\ item'[i].attempts \in Nat
  BY DEF Types, Items
<1>5. runs[i] + Count <= item[i].attempts
  BY DEF Bounded
<1> HIDE DEF Others, Count, Counted, Rest0
<1>6. runs'[i] + Counted <= item'[i].attempts
  <2>1. CASE Engages(s, i) /\ Engages(s, i)'
    BY <2>1, <1>1, <1>2, <1>3, <1>4, <1>5 DEF Weight
  <2>2. CASE Engages(s, i) /\ ~Engages(s, i)'
    BY <2>2, <1>1, <1>2, <1>3, <1>4, <1>5 DEF Weight
  <2>3. CASE ~Engages(s, i) /\ Engages(s, i)'
    BY <2>3, <1>1, <1>2, <1>3, <1>4, <1>5 DEF Weight
  <2>4. CASE ~Engages(s, i) /\ ~Engages(s, i)'
    BY <2>4, <1>1, <1>2, <1>3, <1>4, <1>5 DEF Weight
  <2> QED
    BY <2>1, <2>2, <2>3, <2>4
<1> QED
  BY <1>3, <1>6 DEF Bounded, Counted

\* A step of one session that does its part keeps the invariant.
LEMMA StepInv ==
    ASSUME IInv, Types', NEW s \in Sessions, Elsewhere(s),
           StageOf(s)', ClaimOf(s)', ValidOf(s)', ValidRuns',
           \A i \in Rows : item[i].status # "INVALID" => item'[i].status # "INVALID",
           \A i \in Rows : holder[i] \in Sessions \ {s} =>
               holder'[i] = holder[i] /\ item'[i].attempts = item[i].attempts,
           \A i \in Rows : Weight(s, i)' - item'[i].attempts <= Weight(s, i) - item[i].attempts
    PROVE  IInv'
<1>1. \A i \in Rows : Bounded(i)'
  BY Balance DEF IInv
<1>2. ASSUME NEW o \in Sessions \ {s} PROVE StageOf(o)' /\ ClaimOf(o)' /\ ValidOf(o)'
  <2>1. read'[o] = read[o] /\ task'[o] = task[o] /\ pc'[o] = pc[o]
    BY DEF Elsewhere
  <2>2. StageOf(o) /\ ClaimOf(o) /\ ValidOf(o) /\ DOMAIN read[o] \subseteq Rows
    BY DEF IInv, Types
  <2>3. StageOf(o)'
    BY <2>1, <2>2 DEF StageOf
  <2>4. ClaimOf(o)'
    BY <2>1, <2>2 DEF ClaimOf
  <2>5. ValidOf(o)'
    BY <2>1, <2>2 DEF ValidOf
  <2> QED
    BY <2>3, <2>4, <2>5
<1> QED
  BY <1>1, <1>2 DEF IInv

\* What an UPDATE leaves of a row.
LEMMA UpdatedRow ==
    ASSUME NEW now \in Items, NEW old \in Items, NEW new \in Items
    PROVE  /\ Updated(now, old, new) \in Items
           /\ Updated(now, old, new).status = IF new.status = old.status THEN now.status ELSE new.status
           /\ Updated(now, old, new).attempts =
                  IF new.attempts = old.attempts THEN now.attempts ELSE new.attempts
<1> DEFINE row == [status |-> IF new.status = old.status THEN now.status ELSE new.status,
                   attempts |-> IF new.attempts = old.attempts THEN now.attempts ELSE new.attempts]
<1>1. DOMAIN now = {"status", "attempts"}
  BY DEF Items
<1>2. Updated(now, old, new) = row
  BY <1>1 DEF Updated
<1>3. row \in Items
  BY DEF Items
<1> QED
  BY <1>2, <1>3

\* Changing the status alone leaves the attempts, and no row becomes INVALID.
LEMMA StatusWritten ==
    ASSUME NEW now \in Items, NEW old \in Items, NEW status \in ItemStatuses \ {"INVALID"}
    PROVE  LET row == Updated(now, old, [old EXCEPT !.status = status])
           IN  /\ row \in Items /\ row.attempts = now.attempts
               /\ now.status # "INVALID" => row.status # "INVALID"
<1> DEFINE new == [old EXCEPT !.status = status]
<1>1. new \in Items /\ new.status = status /\ new.attempts = old.attempts
  BY DEF Items
<1> HIDE DEF new
<1>2. /\ Updated(now, old, new) \in Items
      /\ Updated(now, old, new).status = IF new.status = old.status THEN now.status ELSE new.status
      /\ Updated(now, old, new).attempts =
             IF new.attempts = old.attempts THEN now.attempts ELSE new.attempts
  BY <1>1, UpdatedRow
<1>3. LET row == Updated(now, old, new)
      IN  /\ row \in Items /\ row.attempts = now.attempts
          /\ now.status # "INVALID" => row.status # "INVALID"
  BY <1>1, <1>2
<1> QED
  BY <1>3 DEF new

-----------------------------------------------------------------------------
LEMMA InitInv == Init => IInv
<1> SUFFICES ASSUME Init PROVE IInv
  OBVIOUS
<1>1. Types
  BY DEF Init, Types, Items, ItemStatuses
<1>2. ValidRuns /\ \A s \in Sessions : StageOf(s) /\ ClaimOf(s) /\ ValidOf(s)
  BY DEF Init, ValidRuns, StageOf, ClaimOf, ValidOf
<1>3. \A i \in Rows : Engaged(i) = {}
  BY DEF Init, Engaged
<1>4. \A i \in Rows : Bounded(i)
  <2>1. IsFiniteSet({}) /\ Cardinality({}) = 0
    BY FS_EmptySet
  <2>2. \A i \in Rows : runs[i] = 0 /\ item[i].attempts = 0
    BY DEF Init
  <2> QED
    BY <1>3, <2>1, <2>2 DEF Bounded
<1> QED
  BY <1>1, <1>2, <1>4 DEF IInv


-----------------------------------------------------------------------------
(* The steps.                                                              *)

\* A request or task begins, or the dispatcher finds nothing to claim.
LEMMA BeginInv ==
    ASSUME IInv, NEW s \in Sessions, Start(s) \/ Dispatch(s)
    PROVE  IInv'
<1>1. /\ pc[s] = "idle" /\ read[s] = read'[s] /\ DOMAIN read[s] = {}
      /\ UNCHANGED <<item, holder, runs, read>>
      /\ \E kind \in {"start", "dispatch"} : task' = [task EXCEPT ![s] = kind]
      /\ \E label \in {"select", "claimed"} : pc' = [pc EXCEPT ![s] = label]
  BY DEF Start, Dispatch, Request, Begin, CountInFlight, Goto, rows, IInv, StageOf
<1>2. Types' /\ Elsewhere(s)
  BY <1>1 DEF IInv, Types, Elsewhere
<1>3. StageOf(s)' /\ ClaimOf(s)' /\ ValidOf(s)' /\ ValidRuns'
  BY <1>1 DEF IInv, Types, StageOf, ClaimOf, ValidOf, ValidRuns
<1>4. \A i \in Rows : Weight(s, i)' - item'[i].attempts <= Weight(s, i) - item[i].attempts
  BY <1>1 DEF IInv, Types, Items, Weight, Engages
<1> QED
  BY <1>1, <1>2, <1>3, <1>4, StepInv

\* The rows that are claimed were pending, and nobody had them locked.
LEMMA ClaimInv ==
    ASSUME IInv, NEW s \in Sessions, Claim(s)
    PROVE  IInv'
<1>1. PICK claimed \in SUBSET {i \in Rows : item[i].status = "PENDING" /\ holder[i] = Nobody} :
        /\ Read(s, claimed)
        /\ holder' = [i \in Rows |-> IF i \in claimed THEN s ELSE holder[i]]
  BY DEF Claim, First, Having
<1>2. /\ pc[s] = "select" /\ pc' = [pc EXCEPT ![s] = "claimed"] /\ UNCHANGED <<item, runs, task>>
      /\ read' = [read EXCEPT ![s] = [i \in claimed |-> item[i]]]
      /\ task[s] \in {"start", "dispatch"} /\ DOMAIN read[s] = {}
  BY <1>1 DEF Claim, Goto, queue, Read, IInv, StageOf
<1>3. Types' /\ Elsewhere(s)
  BY <1>1, <1>2 DEF IInv, Types, Elsewhere
<1>4. StageOf(s)' /\ ClaimOf(s)' /\ ValidOf(s)' /\ ValidRuns'
  BY <1>1, <1>2 DEF IInv, Types, StageOf, ClaimOf, ValidOf, ValidRuns
<1>5. \A i \in Rows : Weight(s, i)' - item'[i].attempts <= Weight(s, i) - item[i].attempts
  BY <1>1, <1>2 DEF IInv, Types, Items, Weight, Engages
<1>6. \A i \in Rows : holder[i] \in Sessions \ {s} => holder'[i] = holder[i]
  BY <1>1, BatchAssumption DEF BatchAssumption
<1> QED
  BY <1>2, <1>3, <1>4, <1>5, <1>6, StepInv

\* A claim counts before its rows are sent: a row it writes has one more.
LEMMA ClaimCommitInv ==
    ASSUME IInv, NEW s \in Sessions, ClaimCommit(s)
    PROVE  IInv'
<1> DEFINE claimed == DOMAIN read[s]
           kept == IF task[s] = "dispatch" THEN claimed ELSE {}
           queued(i) == [status |-> "QUEUED", attempts |-> read[s][i].attempts + 1]
<1>1. /\ pc[s] = "claimed" /\ Free(s) /\ UNCHANGED <<runs, task>>
      /\ holder' = Unlocked(s)
      /\ pc' = [pc EXCEPT ![s] = "send"]
      /\ read' = [read EXCEPT ![s] = [i \in kept |-> NoItem]]
      /\ item' = [i \in Rows |-> IF i \in claimed THEN Updated(item[i], read[s][i], queued(i)) ELSE item[i]]
  BY DEF ClaimCommit, Keep, Goto, queue, ItemsAfter
<1>2. /\ Types /\ StageOf(s) /\ ClaimOf(s) /\ ValidOf(s) /\ ValidRuns
      /\ task[s] \notin {"run", "fail"}
  BY <1>1 DEF IInv, StageOf
<1>3. ASSUME NEW i \in claimed
      PROVE  /\ item'[i] \in Items /\ item'[i].attempts = item[i].attempts + 1
             /\ item'[i].status # "INVALID" /\ item[i].status # "INVALID"
             /\ holder[i] = s
  <2>1. /\ item[i] \in Items /\ read[s][i] \in Items /\ i \in Rows
        /\ read[s][i].attempts = item[i].attempts /\ holder[i] = s
        /\ item[i].status # "INVALID"
    BY <1>1, <1>2 DEF Types, ClaimOf, ValidOf
  <2>2. queued(i) \in Items /\ queued(i).status = "QUEUED" /\ queued(i).attempts = item[i].attempts + 1
        /\ queued(i).attempts # read[s][i].attempts
    BY <2>1 DEF Items, ItemStatuses
  <2>3. item'[i] = Updated(item[i], read[s][i], queued(i))
    BY <1>1, <2>1
  <2> HIDE DEF queued
  <2> QED
    BY <2>1, <2>2, <2>3, UpdatedRow
<1>4. \A i \in Rows \ claimed : item'[i] = item[i]
  BY <1>1
<1>5. DOMAIN item' = Rows /\ \A i \in Rows : item'[i] \in Items
  BY <1>1, <1>2, <1>3, <1>4 DEF Types
<1>6. Types' /\ Elsewhere(s)
  <2>1. item' \in [Rows -> Items]
    BY <1>1, <1>5
  <2>2. NoItem \in Items
    BY DEF NoItem, Items, ItemStatuses
  <2> QED
    BY <2>1, <2>2, <1>1, <1>2 DEF Types, Elsewhere, Unlocked
<1>7. StageOf(s)' /\ ClaimOf(s)' /\ ValidOf(s)' /\ ValidRuns'
  BY <1>1, <1>2, <1>3, <1>4 DEF Types, StageOf, ClaimOf, ValidOf, ValidRuns
<1>8. \A i \in Rows : holder[i] \in Sessions \ {s} =>
          holder'[i] = holder[i] /\ item'[i].attempts = item[i].attempts
  BY <1>1, <1>3, <1>4 DEF Unlocked
<1>9. \A i \in Rows : item[i].status # "INVALID" => item'[i].status # "INVALID"
  BY <1>3, <1>4
<1>10. \A i \in Rows : Weight(s, i)' - item'[i].attempts <= Weight(s, i) - item[i].attempts
  <2> SUFFICES ASSUME NEW i \in Rows
               PROVE  Weight(s, i)' - item'[i].attempts <= Weight(s, i) - item[i].attempts
    OBVIOUS
  <2>1. item[i].attempts \in Nat /\ runs[i] \in Nat /\ runs'[i] = runs[i] /\ ~Engages(s, i)
    BY <1>1, <1>2 DEF Types, Items, Engages
  <2>2. CASE i \in claimed
    BY <2>1, <2>2, <1>3 DEF Weight
  <2>3. CASE i \notin claimed
    <3>1. ~Engages(s, i)'
      BY <2>3, <1>1, <1>2 DEF Engages, Types
    <3> QED
      BY <3>1, <2>1, <2>3, <1>4 DEF Weight
  <2> QED
    BY <2>2, <2>3
<1> QED
  BY <1>6, <1>7, <1>8, <1>9, <1>10, StepInv

\* Sending a row's message ends the engagement of the dispatcher with it.
LEMMA SendInv ==
    ASSUME IInv, NEW s \in Sessions, SendRun(s)
    PROVE  IInv'
<1>1. PICK i \in DOMAIN read[s] :
        /\ runs' = [runs EXCEPT ![i] = @ + 1]
        /\ read' = [read EXCEPT ![s] = [k \in DOMAIN read[s] \ {i} |-> NoItem]]
  BY DEF SendRun, Keep
<1>2. /\ pc[s] = "send" /\ task[s] = "dispatch" /\ UNCHANGED <<item, holder, pc, task>>
      /\ Types /\ StageOf(s) /\ ValidOf(s) /\ ValidRuns /\ i \in Rows /\ item[i].status # "INVALID"
  BY <1>1 DEF SendRun, rows, IInv, StageOf, Types, ValidOf
<1>3. NoItem \in Items
  BY DEF NoItem, Items, ItemStatuses
<1>4. Types' /\ Elsewhere(s)
  BY <1>1, <1>2, <1>3 DEF Types, Elsewhere
<1>5. StageOf(s)' /\ ClaimOf(s)' /\ ValidOf(s)'
  BY <1>1, <1>2 DEF Types, StageOf, ClaimOf, ValidOf
<1>6. ValidRuns'
  BY <1>1, <1>2 DEF Types, ValidRuns
<1>7. \A k \in Rows : Weight(s, k)' - item'[k].attempts <= Weight(s, k) - item[k].attempts
  <2> SUFFICES ASSUME NEW k \in Rows
               PROVE  Weight(s, k)' - item'[k].attempts <= Weight(s, k) - item[k].attempts
    OBVIOUS
  <2>1. item'[k].attempts = item[k].attempts /\ item[k].attempts \in Nat /\ runs[k] \in Nat
    BY <1>2 DEF Types, Items
  <2>2. CASE k = i
    <3>1. Engages(s, k) /\ ~Engages(s, k)' /\ runs'[k] = runs[k] + 1
      BY <2>2, <1>1, <1>2 DEF Types, Engages
    <3> QED
      BY <3>1, <2>1 DEF Weight
  <2>3. CASE k # i
    <3>1. (Engages(s, k)' <=> Engages(s, k)) /\ runs'[k] = runs[k]
      BY <2>3, <1>1, <1>2 DEF Types, Engages
    <3> QED
      BY <3>1, <2>1 DEF Weight
  <2> QED
    BY <2>2, <2>3
<1> QED
  BY <1>2, <1>4, <1>5, <1>6, <1>7, StepInv

\* The session lets go of its rows, and each message that it took comes back
\* at most once.
LEMMA RestInv ==
    ASSUME IInv, NEW s \in Sessions, Rest(s), UNCHANGED item, runs' \in [Rows -> Nat],
           holder' = holder \/ holder' = Unlocked(s),
           \A i \in Rows : runs'[i] = runs[i] \/ (Engages(s, i) /\ runs'[i] = runs[i] + 1)
    PROVE  IInv'
<1>1. /\ pc' = [pc EXCEPT ![s] = "idle"] /\ task' = [task EXCEPT ![s] = "none"]
      /\ read' = [read EXCEPT ![s] = [i \in {} |-> NoItem]]
  BY DEF Rest, Goto, Begin, Keep
<1>2. Types /\ ValidOf(s) /\ ValidRuns
  BY DEF IInv
<1>3. Types' /\ Elsewhere(s)
  BY <1>1, <1>2 DEF Types, Elsewhere, Unlocked
<1>4. StageOf(s)' /\ ClaimOf(s)' /\ ValidOf(s)'
  BY <1>1, <1>2 DEF Types, StageOf, ClaimOf, ValidOf
<1>5. ValidRuns'
  BY <1>2 DEF ValidRuns, ValidOf, Engages, Types
<1>6. \A i \in Rows : Weight(s, i)' - item'[i].attempts <= Weight(s, i) - item[i].attempts
  <2> SUFFICES ASSUME NEW i \in Rows
               PROVE  Weight(s, i)' - item'[i].attempts <= Weight(s, i) - item[i].attempts
    OBVIOUS
  <2>1. item[i].attempts \in Nat /\ runs[i] \in Nat /\ ~Engages(s, i)'
    BY <1>1, <1>2 DEF Types, Items, Engages
  <2>2. CASE Engages(s, i)
    BY <2>1, <2>2 DEF Weight
  <2>3. CASE ~Engages(s, i)
    BY <2>1, <2>3 DEF Weight
  <2> QED
    BY <2>2, <2>3
<1>7. \A i \in Rows : holder[i] \in Sessions \ {s} => holder'[i] = holder[i]
  BY DEF Unlocked
<1> QED
  BY <1>3, <1>4, <1>5, <1>6, <1>7, StepInv

\* A worker takes a message and is engaged in its place.
LEMMA TakeRunInv ==
    ASSUME IInv, NEW s \in Sessions, TakeRun(s)
    PROVE  IInv'
<1>1. PICK i \in Rows :
        /\ runs[i] > 0 /\ runs' = [runs EXCEPT ![i] = @ - 1]
        /\ read' = [read EXCEPT ![s] = [k \in {i} |-> item[k]]]
  BY DEF TakeRun, Read
<1>2. /\ pc[s] = "idle" /\ DOMAIN read[s] = {} /\ UNCHANGED <<item, holder>>
      /\ pc' = [pc EXCEPT ![s] = "mark"] /\ task' = [task EXCEPT ![s] = "run"]
      /\ Types /\ ValidRuns
  BY DEF TakeRun, Begin, Goto, rows, IInv, StageOf
<1>3. Types' /\ Elsewhere(s)
  BY <1>1, <1>2 DEF Types, Elsewhere
<1>4. StageOf(s)' /\ ClaimOf(s)' /\ ValidOf(s)' /\ ValidRuns'
  BY <1>1, <1>2 DEF Types, StageOf, ClaimOf, ValidOf, ValidRuns
<1>5. \A k \in Rows : Weight(s, k)' - item'[k].attempts <= Weight(s, k) - item[k].attempts
  <2> SUFFICES ASSUME NEW k \in Rows
               PROVE  Weight(s, k)' - item'[k].attempts <= Weight(s, k) - item[k].attempts
    OBVIOUS
  <2>1. item'[k].attempts = item[k].attempts /\ item[k].attempts \in Nat /\ runs[k] \in Nat /\ ~Engages(s, k)
    BY <1>2 DEF Types, Items, Engages
  <2>2. CASE k = i
    BY <2>1, <2>2, <1>1, <1>2 DEF Weight, Types
  <2>3. CASE k # i
    <3>1. ~Engages(s, k)' /\ runs'[k] = runs[k]
      BY <2>3, <1>1, <1>2 DEF Types, Engages
    <3> QED
      BY <3>1, <2>1 DEF Weight
  <2> QED
    BY <2>2, <2>3
<1> QED
  BY <1>2, <1>3, <1>4, <1>5, StepInv

\* An engaged session goes on with its row, and writes its status at most.
LEMMA WorkInv ==
    ASSUME IInv, NEW s \in Sessions,
           pc[s] \in {"mark", "open", "work", "counted"},
           Elsewhere(s), DOMAIN pc' = Sessions, DOMAIN task' = Sessions, DOMAIN read' = Sessions,
           pc'[s] \in {"open", "work", "counted", "done"}, task'[s] \in {"run", "fail"},
           DOMAIN read'[s] = DOMAIN read[s], \A i \in DOMAIN read[s] : read'[s][i] \in Items,
           UNCHANGED runs, item' \in [Rows -> Items], DOMAIN holder' = Rows,
           \A i \in Rows : item'[i].attempts = item[i].attempts
                           /\ (item[i].status # "INVALID" => item'[i].status # "INVALID"),
           \A i \in Rows : holder[i] \in Sessions \ {s} => holder'[i] = holder[i]
    PROVE  IInv'
<1>1. Types /\ StageOf(s) /\ ValidOf(s) /\ ValidRuns /\ task[s] \in {"run", "fail"}
  BY DEF IInv, StageOf
<1>2. Types'
  BY <1>1 DEF Types, Elsewhere
<1>3. StageOf(s)' /\ ClaimOf(s)' /\ ValidOf(s)'
  BY <1>1 DEF Types, StageOf, ClaimOf, ValidOf
<1>4. ValidRuns'
  BY <1>1 DEF ValidRuns
<1>5. \A i \in Rows : Weight(s, i)' - item'[i].attempts <= Weight(s, i) - item[i].attempts
  <2> SUFFICES ASSUME NEW i \in Rows
               PROVE  Weight(s, i)' - item'[i].attempts <= Weight(s, i) - item[i].attempts
    OBVIOUS
  <2>1. item[i].attempts \in Nat /\ runs[i] \in Nat
    BY <1>1 DEF Types, Items
  <2>2. Engages(s, i)' <=> Engages(s, i)
    BY <1>1 DEF Types, Engages
  <2> QED
    BY <2>1, <2>2 DEF Weight
<1> QED
  BY <1>2, <1>3, <1>4, <1>5, StepInv

\* The rows of a session with one status written to each.
Written(s, status) ==
    [i \in Rows |-> IF i \in DOMAIN read[s]
                    THEN Updated(item[i], read[s][i], [read[s][i] EXCEPT !.status = status])
                    ELSE item[i]]

LEMMA WrittenRows ==
    ASSUME Types, NEW s \in Sessions, NEW status \in ItemStatuses \ {"INVALID"}
    PROVE  /\ Written(s, status) \in [Rows -> Items]
           /\ \A i \in Rows : Written(s, status)[i].attempts = item[i].attempts
                 /\ (item[i].status # "INVALID" => Written(s, status)[i].status # "INVALID")
<1> DEFINE new(i) == Updated(item[i], read[s][i], [read[s][i] EXCEPT !.status = status])
<1>1. ASSUME NEW i \in DOMAIN read[s]
      PROVE  /\ new(i) \in Items /\ new(i).attempts = item[i].attempts
             /\ item[i].status # "INVALID" => new(i).status # "INVALID"
  <2>1. item[i] \in Items /\ read[s][i] \in Items
    BY DEF Types
  <2> QED
    BY <2>1, StatusWritten
<1>2. Written(s, status) = [i \in Rows |-> IF i \in DOMAIN read[s] THEN new(i) ELSE item[i]]
  BY DEF Written
<1> HIDE DEF new
<1> QED
  BY <1>1, <1>2 DEF Types

\* A retry or a cancellation reads rows, none of which is INVALID.
LEMMA AskInv ==
    ASSUME IInv, NEW s \in Sessions, Retry(s) \/ Cancel(s)
    PROVE  IInv'
<1>1. PICK kind \in {"retry", "cancel"} :
        /\ task' = [task EXCEPT ![s] = kind]
        /\ read' = [read EXCEPT ![s] = [i \in Asked(kind) |-> item[i]]]
  BY DEF Retry, Cancel, Begin, Read
<1>2. /\ pc[s] = "idle" /\ DOMAIN read[s] = {} /\ pc' = [pc EXCEPT ![s] = "asked"]
      /\ UNCHANGED <<item, holder, runs>> /\ Types /\ ValidRuns
  BY DEF Retry, Cancel, Request, Goto, rows, IInv, StageOf
<1>3. Asked(kind) \subseteq Rows /\ \A i \in Asked(kind) : item[i].status # "INVALID"
  BY DEF Asked, Having
<1>4. Types' /\ Elsewhere(s)
  BY <1>1, <1>2, <1>3 DEF Types, Elsewhere
<1>5. StageOf(s)' /\ ClaimOf(s)' /\ ValidOf(s)' /\ ValidRuns'
  BY <1>1, <1>2, <1>3 DEF Types, StageOf, ClaimOf, ValidOf, ValidRuns
<1>6. \A i \in Rows : Weight(s, i)' - item'[i].attempts <= Weight(s, i) - item[i].attempts
  BY <1>1, <1>2 DEF Types, Items, Weight, Engages
<1> QED
  BY <1>2, <1>4, <1>5, <1>6, StepInv

\* It writes their statuses and forgets them.
LEMMA AnswerInv ==
    ASSUME IInv, NEW s \in Sessions, pc[s] = "asked",
           NEW label \in {"send", "idle"}, pc' = [pc EXCEPT ![s] = label],
           task' = task \/ task' = [task EXCEPT ![s] = "none"],
           read' = [read EXCEPT ![s] = [i \in {} |-> NoItem]],
           NEW status \in ItemStatuses \ {"INVALID"}, item' = Written(s, status),
           UNCHANGED <<holder, runs>>
    PROVE  IInv'
<1>1. Types /\ StageOf(s) /\ ValidRuns
  BY DEF IInv
<1>2. /\ item' \in [Rows -> Items]
      /\ \A i \in Rows : item'[i].attempts = item[i].attempts
            /\ (item[i].status # "INVALID" => item'[i].status # "INVALID")
  BY <1>1, WrittenRows
<1> HIDE DEF Written
<1>3. Types' /\ Elsewhere(s)
  BY <1>1, <1>2 DEF Types, Elsewhere
<1>4. StageOf(s)' /\ ClaimOf(s)' /\ ValidOf(s)'
  BY <1>1, <1>2 DEF Types, StageOf, ClaimOf, ValidOf
<1>5. ValidRuns'
  BY <1>1, <1>2 DEF ValidRuns
<1>6. \A i \in Rows : Weight(s, i)' - item'[i].attempts <= Weight(s, i) - item[i].attempts
  BY <1>1, <1>2 DEF Types, StageOf, Items, Weight, Engages
<1> QED
  BY <1>2, <1>3, <1>4, <1>5, <1>6, StepInv

-----------------------------------------------------------------------------
\* The rows that a session read stay as they are or are read again.
LEMMA RunInv ==
    ASSUME IInv, NEW s \in Sessions,
           MarkRunning(s) \/ LoadRow(s) \/ Finish(s) \/ Refuse(s) \/ RunCommit(s)
    PROVE  IInv'
<1> USE DEF Keep, Read, Begin, Goto, Unlocked, rows, queue
<1>1. Types /\ NoItem \in Items /\ "RUNNING" \in ItemStatuses
      /\ "COMPLETED" \in ItemStatuses /\ "FAILED" \in ItemStatuses
  BY DEF IInv, NoItem, Items, ItemStatuses
<1>2. pc[s] \in {"mark", "open", "work", "counted"} => task[s] \in {"run", "fail"}
  BY DEF IInv, StageOf
<1>3. CASE MarkRunning(s)
  <2>1. item' = Written(s, "RUNNING")
    BY <1>3 DEF MarkRunning, ItemsAfter, Written
  <2>2. /\ item' \in [Rows -> Items]
        /\ \A i \in Rows : item'[i].attempts = item[i].attempts
              /\ (item[i].status # "INVALID" => item'[i].status # "INVALID")
    BY <2>1, <1>1, WrittenRows
  <2>3. /\ pc[s] = "mark" /\ pc' = [pc EXCEPT ![s] = "open"] /\ UNCHANGED <<task, runs, holder>>
        /\ read' = [read EXCEPT ![s] = [i \in DOMAIN read[s] |-> NoItem]]
    BY <1>3 DEF MarkRunning
  <2> QED
    BY <1>1, <1>2, <2>2, <2>3, WorkInv DEF Types, Elsewhere
<1>4. CASE LoadRow(s)
  <2>1. /\ pc[s] = "open" /\ pc' = [pc EXCEPT ![s] = "work"] /\ UNCHANGED <<task, item, runs, holder>>
        /\ read' = [read EXCEPT ![s] = [i \in DOMAIN read[s] |-> item[i]]]
    BY <1>4 DEF LoadRow
  <2> QED
    BY <1>1, <1>2, <2>1, WorkInv DEF Types, Elsewhere
<1>5. CASE Finish(s)
  <2>1. /\ pc[s] = "work" /\ pc' = [pc EXCEPT ![s] = "counted"] /\ UNCHANGED <<task, read, item, runs>>
        /\ holder' = [i \in Rows |-> IF i \in DOMAIN read[s] THEN s ELSE holder[i]] /\ Free(s)
    BY <1>5 DEF Finish
  <2>2. \A i \in Rows : holder[i] \in Sessions \ {s} => holder'[i] = holder[i]
    BY <2>1, BatchAssumption DEF Free, BatchAssumption
  <2> QED
    BY <1>1, <1>2, <2>1, <2>2, WorkInv DEF Types, Elsewhere
<1>6. CASE Refuse(s)
  <2>1. /\ pc[s] \in {"work", "counted"} /\ pc' = [pc EXCEPT ![s] = "open"]
        /\ task' = [task EXCEPT ![s] = "fail"] /\ UNCHANGED <<item, runs>> /\ holder' = Unlocked(s)
        /\ read' = [read EXCEPT ![s] = [i \in DOMAIN read[s] |-> NoItem]]
    BY <1>6 DEF Refuse
  <2> QED
    BY <1>1, <2>1, WorkInv DEF Types, Elsewhere
<1>7. CASE RunCommit(s)
  <2> DEFINE status == IF task[s] = "run" THEN "COMPLETED" ELSE "FAILED"
  <2>1. /\ pc[s] = "counted" /\ pc' = [pc EXCEPT ![s] = "done"]
        /\ task' = [task EXCEPT ![s] = "run"] /\ UNCHANGED runs /\ holder' = Unlocked(s)
        /\ read' = [read EXCEPT ![s] = [i \in DOMAIN read[s] |-> NoItem]]
    BY <1>7 DEF RunCommit
  <2>2. item' = Written(s, status)
    BY <1>7 DEF RunCommit, Ended, ItemsAfter, Written
  <2>3. status \in ItemStatuses \ {"INVALID"}
    BY <1>1
  <2> HIDE DEF status
  <2>4. /\ item' \in [Rows -> Items]
        /\ \A i \in Rows : item'[i].attempts = item[i].attempts
              /\ (item[i].status # "INVALID" => item'[i].status # "INVALID")
    BY <2>2, <2>3, <1>1, WrittenRows
  <2> QED
    BY <1>1, <2>1, <2>4, WorkInv DEF Types, Elsewhere
<1> QED
  BY <1>3, <1>4, <1>5, <1>6, <1>7

\* A task or request that ends, whatever way.
LEMMA EndInv ==
    ASSUME IInv, NEW s \in Sessions,
           SendDispatch(s) \/ Acknowledge(s) \/ Rollback(s) \/ DieAndRedeliver(s)
    PROVE  IInv'
<1>1. Types /\ StageOf(s)
  BY DEF IInv
<1>2. CASE SendDispatch(s) \/ Acknowledge(s)
  <2>1. Rest(s) /\ UNCHANGED <<item, holder, runs>>
    BY <1>2 DEF SendDispatch, Acknowledge, rows, queue
  <2> QED
    BY <2>1, <1>1, RestInv DEF Types
<1>3. CASE Rollback(s)
  <2>1. Rest(s) /\ UNCHANGED <<item, runs>> /\ holder' = Unlocked(s)
    BY <1>3 DEF Rollback, Break
  <2> QED
    BY <2>1, <1>1, RestInv DEF Types
<1>4. CASE DieAndRedeliver(s)
  <2>1. Rest(s) /\ UNCHANGED item /\ holder' = Unlocked(s)
    BY <1>4 DEF DieAndRedeliver, Break
  <2>2. /\ runs' \in [Rows -> Nat]
        /\ \A i \in Rows : runs'[i] = runs[i] \/ (Engages(s, i) /\ runs'[i] = runs[i] + 1)
    <3>1. CASE UNCHANGED runs
      BY <3>1, <1>1 DEF Types
    <3>2. CASE task[s] \in {"run", "fail"}
                 /\ runs' = [i \in Rows |-> IF i \in DOMAIN read[s] THEN runs[i] + 1 ELSE runs[i]]
      BY <3>2, <1>1 DEF Types, Engages
    <3> QED
      BY <1>4, <3>1, <3>2 DEF DieAndRedeliver
  <2> QED
    BY <2>1, <2>2, RestInv
<1> QED
  BY <1>2, <1>3, <1>4

LEMMA NextInv ==
    ASSUME IInv, [Next]_vars
    PROVE  IInv'
<1>1. ASSUME NEW s \in Sessions, Start(s) \/ Dispatch(s) PROVE IInv'
  BY <1>1, BeginInv
<1>2. ASSUME NEW s \in Sessions, Retry(s) \/ Cancel(s) PROVE IInv'
  BY <1>2, AskInv
<1>3. ASSUME NEW s \in Sessions, Claim(s) \/ ClaimCommit(s) PROVE IInv'
  BY <1>3, ClaimInv, ClaimCommitInv
<1>4. ASSUME NEW s \in Sessions, SendRun(s) \/ TakeRun(s) PROVE IInv'
  BY <1>4, SendInv, TakeRunInv
<1>5. ASSUME NEW s \in Sessions,
             MarkRunning(s) \/ LoadRow(s) \/ Finish(s) \/ Refuse(s) \/ RunCommit(s)
      PROVE  IInv'
  BY <1>5, RunInv
<1>6. ASSUME NEW s \in Sessions,
             SendDispatch(s) \/ Acknowledge(s) \/ Rollback(s) \/ DieAndRedeliver(s)
      PROVE  IInv'
  BY <1>6, EndInv
<1>7. ASSUME NEW s \in Sessions, RetryCommit(s) PROVE IInv'
  <2>1. /\ pc[s] = "asked" /\ pc' = [pc EXCEPT ![s] = "send"] /\ task' = task /\ read' = [read EXCEPT ![s] = [i \in {} |-> NoItem]]
        /\ item' = Written(s, "PENDING") /\ UNCHANGED <<holder, runs>>
    BY <1>7 DEF RetryCommit, Keep, Goto, queue, ItemsAfter, Written
  <2>2. "PENDING" \in ItemStatuses
    BY DEF ItemStatuses
  <2> QED
    BY <2>1, <2>2, AnswerInv
<1>8. ASSUME NEW s \in Sessions, CancelCommit(s) PROVE IInv'
  <2>1. /\ pc[s] = "asked" /\ pc' = [pc EXCEPT ![s] = "idle"]
        /\ task' = [task EXCEPT ![s] = "none"] /\ read' = [read EXCEPT ![s] = [i \in {} |-> NoItem]]
        /\ item' = Written(s, "SKIPPED") /\ UNCHANGED <<holder, runs>>
    BY <1>8 DEF CancelCommit, Rest, Keep, Goto, Begin, queue, ItemsAfter, Written
  <2>2. "SKIPPED" \in ItemStatuses
    BY DEF ItemStatuses
  <2> QED
    BY <2>1, <2>2, AnswerInv
<1>9. CASE UNCHANGED vars
  BY <1>9 DEF vars, IInv, Types, ValidRuns, StageOf, ClaimOf, ValidOf, Bounded, Engaged
<1> QED
  BY <1>1, <1>2, <1>3, <1>4, <1>5, <1>6, <1>7, <1>8, <1>9 DEF Next, Proceed

\* A row is sent and run no more often than it was claimed, whatever is
\* delivered twice, rolled back, retried or cancelled meanwhile: every
\* message and every engaged session goes back to a claim of its own.
THEOREM RunsAreClaimed == Spec => []OneRunPerClaim
<1>1. IInv /\ [Next]_vars => IInv'
  BY NextInv
<1>2. IInv => OneRunPerClaim
  BY DEF IInv, Bounded, OneRunPerClaim
<1> QED
  BY InitInv, <1>1, <1>2, PTL DEF Spec

\* A row that failed validation is never written: no claim, retry, run or
\* cancellation, however late it commits, has read one.
THEOREM InvalidRowsAreLeft == Spec => InvalidRowsStay
<1>1. ASSUME NEW s \in Sessions,
             ValidOf(s) /\ Types,
             \A i \in Rows \ DOMAIN read[s] : item'[i] = item[i]
      PROVE  \A i \in Rows : item[i].status = "INVALID" => item'[i] = item[i]
  BY <1>1 DEF ValidOf
<1>2. IInv /\ [Next]_vars => [\A i \in Rows : item[i].status = "INVALID" => item'[i] = item[i]]_vars
  <2> SUFFICES ASSUME IInv, [Next]_vars
               PROVE  \A i \in Rows : item[i].status = "INVALID" => item'[i] = item[i]
    OBVIOUS
  <2>1. Types /\ \A s \in Sessions : ValidOf(s)
    BY DEF IInv
  <2>2. ASSUME NEW s \in Sessions, ClaimCommit(s) \/ MarkRunning(s) \/ RunCommit(s)
                                   \/ RetryCommit(s) \/ CancelCommit(s)
        PROVE  \A i \in Rows \ DOMAIN read[s] : item'[i] = item[i]
    BY <2>2 DEF ClaimCommit, MarkRunning, RunCommit, RetryCommit, CancelCommit, Ended, ItemsAfter
  <2>3. UNCHANGED item
        \/ \E s \in Sessions : ClaimCommit(s) \/ MarkRunning(s) \/ RunCommit(s)
                               \/ RetryCommit(s) \/ CancelCommit(s)
    BY DEF Next, Proceed, vars, rows, queue, Start, Request, Dispatch, Retry, Cancel, TakeRun, Claim,
           SendRun, SendDispatch, LoadRow, Finish, Acknowledge, Refuse, Rollback, DieAndRedeliver, Break
  <2> QED
    BY <1>1, <2>1, <2>2, <2>3
<1>3. IInv /\ [Next]_vars => IInv'
  BY NextInv
<1> QED
  BY InitInv, <1>2, <1>3, PTL DEF Spec, InvalidRowsStay

-----------------------------------------------------------------------------
(* Every variable has its type.                                            *)

\* A nonempty finite set of numbers has a greatest one: the one with the
\* fewest above it.
LEMMA Greatest ==
    ASSUME NEW S \in SUBSET Nat, IsFiniteSet(S), S # {}
    PROVE  \E m \in S : \A k \in S : k <= m
<1> DEFINE above(m) == {k \in S : k > m}
           T == {x \in SUBSET S : \E m \in S : x = above(m)}
<1>1. \A m \in S : above(m) \in T
  OBVIOUS
<1>2. T \subseteq FiniteSubsetsOf(S) /\ T # {}
  BY <1>1, FS_FiniteSubsetsOfFinite
<1>3. IsWellFoundedOn(StrictSubsetOrdering(S), FiniteSubsetsOf(S))
  BY FS_StrictSubsetOrderingWellFounded
<1> HIDE DEF T
<1>4. PICK x \in T : \A y \in T : <<y, x>> \notin StrictSubsetOrdering(S)
  BY <1>2, <1>3, WFMin
<1>5. PICK m \in S : x = above(m)
  BY DEF T
<1>6. ASSUME NEW k \in S, k > m PROVE FALSE
  <2>1. above(k) \subseteq x /\ k \in x /\ k \notin above(k) /\ x \subseteq S
    <3>1. \A j \in S : j \in Nat
      OBVIOUS
    <3>2. ASSUME NEW j \in above(k) PROVE j \in above(m)
      BY <1>6, <3>1
    <3>3. k \in above(m) /\ k \notin above(k)
      BY <1>6, <3>1
    <3>4. above(m) \subseteq S
      OBVIOUS
    <3> HIDE DEF above
    <3> QED
      BY <1>5, <3>2, <3>3, <3>4
  <2> HIDE DEF above
  <2>2. <<above(k), x>> \in StrictSubsetOrdering(S)
    BY <2>1 DEF StrictSubsetOrdering
  <2> QED
    BY <1>1, <1>4, <2>2
<1> QED
  BY <1>6

\* LIMIT n gives no more than n rows.
LEMMA FirstIsLimited ==
    ASSUME NEW S \in SUBSET Nat, IsFiniteSet(S), NEW n \in Nat
    PROVE  Cardinality(First(S, n)) <= n
<1>1. First(S, n) \subseteq S /\ IsFiniteSet(First(S, n)) /\ Cardinality(First(S, n)) \in Nat
  BY FS_Subset, FS_CardinalityType DEF First
<1>2. CASE First(S, n) = {}
  BY <1>2, FS_EmptySet
<1>3. CASE First(S, n) # {}
  <2>1. PICK m \in First(S, n) : \A k \in First(S, n) : k <= m
    BY <1>1, <1>3, Greatest
  <2> DEFINE below == {k \in S : k < m}
  <2>2. First(S, n) \ {m} \subseteq below
    <3>1. \A k \in First(S, n) : k \in Nat /\ k \in S
      BY <1>1
    <3>2. ASSUME NEW k \in First(S, n) \ {m} PROVE k < m /\ k \in S
      BY <2>1, <3>1
    <3> QED
      BY <3>2
  <2>3. IsFiniteSet(below) /\ Cardinality(below) \in Nat /\ Cardinality(below) < n
    BY <2>1, FS_Subset, FS_CardinalityType DEF First
  <2>4. Cardinality(First(S, n) \ {m}) <= Cardinality(below)
    BY <2>2, <2>3, FS_Subset
  <2>5. Cardinality(First(S, n) \ {m}) = Cardinality(First(S, n)) - 1
    BY <1>1, <2>1, FS_RemoveElement
  <2> QED
    BY <1>1, <2>3, <2>4, <2>5
<1> QED
  BY <1>2, <1>3

\* A dispatcher or a start request is about no more rows than may be in
\* flight, and selects no more.
Within(s) ==
    /\ task[s] \in {"start", "dispatch"} => Cardinality(DOMAIN read[s]) <= MaxConcurrency
    /\ pc[s] = "select" => count[s] <= MaxConcurrency

\* What TypeOK says beside Types.
Scheduled ==
    /\ batch \in Batches
    /\ holder \in [Rows -> Sessions \cup {Nobody}]
    /\ dispatches \in Nat
    /\ requests \in 0 .. MaxRequests /\ failures \in 0 .. MaxFailures
    /\ pc \in [Sessions -> Labels]
    /\ task \in [Sessions -> {"none", "start", "dispatch", "run", "fail", "retry", "cancel"}]
    /\ saw \in [Sessions -> Batches]
    /\ rollup \in [Sessions -> Batches]
    /\ count \in [Sessions -> Nat]
    /\ \A s \in Sessions : Within(s)

LEMMA CountsOfRows ==
    ASSUME NEW S \in SUBSET Rows
    PROVE  IsFiniteSet(S) /\ Cardinality(S) \in Nat
BY BatchAssumption, FS_Subset, FS_CardinalityType DEF BatchAssumption

\* What an UPDATE leaves of the batch.
LEMMA UpdatedBatch ==
    ASSUME NEW now \in Batches, NEW old \in Batches, NEW new \in Batches
    PROVE  Updated(now, old, new) \in Batches
<1> DEFINE row == [status |-> IF new.status = old.status THEN now.status ELSE new.status,
                   completed |-> IF new.completed = old.completed THEN now.completed ELSE new.completed,
                   failed |-> IF new.failed = old.failed THEN now.failed ELSE new.failed]
<1>1. DOMAIN now = {"status", "completed", "failed"}
  BY DEF Batches
<1>2. Updated(now, old, new) = row
  BY <1>1 DEF Updated
<1>3. row \in Batches
  BY DEF Batches
<1> QED
  BY <1>2, <1>3

LEMMA ScheduledAtFirst == Init => Scheduled
<1> SUFFICES ASSUME Init PROVE Scheduled
  OBVIOUS
<1>1. NoBatch \in Batches /\ batch \in Batches
  BY DEF Init, NoBatch, Batches, BatchStatuses
<1>2. MaxRequests \in Nat /\ MaxFailures \in Nat /\ 0 \in 0 .. MaxRequests /\ 0 \in 0 .. MaxFailures
  BY BatchAssumption DEF BatchAssumption
<1> QED
  BY <1>1, <1>2 DEF Init, Scheduled, Within, Labels

\* A claim is no larger than the capacity that was counted.
LEMMA ClaimsAreScheduled ==
    ASSUME IInv, Scheduled, NEW s \in Sessions,
           Start(s) \/ Dispatch(s) \/ Claim(s) \/ ClaimCommit(s)
    PROVE  Scheduled'
<1>1. Types /\ StageOf(s) /\ Within(s) /\ MaxConcurrency \in Nat
  BY BatchAssumption DEF IInv, Scheduled, BatchAssumption
<1>2. CASE Start(s) \/ Dispatch(s)
  <2> DEFINE capacity == MaxConcurrency - Cardinality(InFlight)
             open == batch.status \in {"READY", "RUNNING"} /\ capacity > 0
  <2>1. Cardinality(InFlight) \in Nat
    BY CountsOfRows DEF InFlight, Having
  <2>2. /\ pc' = [pc EXCEPT ![s] = IF open THEN "select" ELSE "claimed"]
        /\ count' = [count EXCEPT ![s] = IF open THEN capacity ELSE 0]
        /\ saw' = [saw EXCEPT ![s] = batch]
        /\ UNCHANGED <<batch, holder, failures, read, rollup>>
        /\ pc[s] = "idle"
    BY <1>2 DEF Start, Dispatch, Request, CountInFlight, See, Goto, rows
  <2>3. /\ requests' \in 0 .. MaxRequests /\ dispatches' \in Nat
        /\ \E kind \in {"start", "dispatch"} : task' = [task EXCEPT ![s] = kind]
    BY <1>2, BatchAssumption DEF Start, Dispatch, Request, Begin, Scheduled, BatchAssumption
  <2>4. DOMAIN read[s] = {} /\ Cardinality(DOMAIN read'[s]) = 0
    BY <1>1, <2>2, FS_EmptySet DEF StageOf
  <2>5. (IF open THEN capacity ELSE 0) \in Nat /\ (IF open THEN capacity ELSE 0) <= MaxConcurrency
    BY <1>1, <2>1
  <2> HIDE DEF open, capacity
  <2>6. Within(s)'
    BY <1>1, <2>2, <2>4, <2>5 DEF Within, Scheduled
  <2>7. \A o \in Sessions \ {s} : Within(o)'
    BY <2>2, <2>3 DEF Within, Scheduled
  <2> QED
    BY <2>2, <2>3, <2>5, <2>6, <2>7 DEF Scheduled, Labels
<1>3. CASE Claim(s)
  <2> DEFINE waiting == {i \in Having({"PENDING"}) : holder[i] = Nobody}
             claimed == First(waiting, count[s])
  <2>1. /\ pc[s] = "select" /\ pc' = [pc EXCEPT ![s] = "claimed"]
        /\ read' = [read EXCEPT ![s] = [i \in claimed |-> item[i]]]
        /\ holder' = [i \in Rows |-> IF i \in claimed THEN s ELSE holder[i]]
        /\ UNCHANGED <<batch, dispatches, requests, failures, task, saw, rollup, count>>
    BY <1>3 DEF Claim, Read, Goto, queue
  <2>2. waiting \in SUBSET Nat /\ IsFiniteSet(waiting)
    BY CountsOfRows, BatchAssumption DEF Having, BatchAssumption
  <2>3. count[s] \in Nat /\ count[s] <= MaxConcurrency
    BY <1>1, <2>1 DEF Scheduled, Within
  <2> HIDE DEF waiting
  <2>4. Cardinality(claimed) <= count[s]
    BY <2>2, <2>3, FirstIsLimited
  <2>5. IsFiniteSet(claimed) /\ Cardinality(claimed) \in Nat
    BY <2>2, FS_Subset, FS_CardinalityType DEF First
  <2> HIDE DEF claimed
  <2>6. DOMAIN read'[s] = claimed
    BY <1>1, <2>1 DEF Types
  <2>7. Within(s)'
    BY <1>1, <2>1, <2>3, <2>4, <2>5, <2>6 DEF Within, Scheduled
  <2>8. \A o \in Sessions \ {s} : Within(o)'
    BY <1>1, <2>1 DEF Within, Scheduled, Types
  <2> QED
    BY <2>1, <2>7, <2>8 DEF Scheduled, Labels
<1>4. CASE ClaimCommit(s)
  <2> DEFINE claimed == DOMAIN read[s]
             waiting == Cardinality(Having({"PENDING", "QUEUED"}) \ claimed)
             started == [saw[s] EXCEPT !.status =
                           IF claimed # {} /\ @ = "READY" THEN "RUNNING" ELSE @]
  <2>1. /\ batch' = Updated(batch, saw[s], started)
        /\ holder' = Unlocked(s)
        /\ read' = [read EXCEPT ![s] = [i \in IF task[s] = "dispatch" THEN claimed ELSE {} |-> NoItem]]
        /\ count' = [count EXCEPT ![s] = waiting]
        /\ pc' = [pc EXCEPT ![s] = "send"]
        /\ saw' = [saw EXCEPT ![s] = NoBatch] /\ rollup' = [rollup EXCEPT ![s] = NoBatch]
        /\ UNCHANGED <<dispatches, requests, failures, task>>
    BY <1>4 DEF ClaimCommit, ItemsAfter, Keep, Goto, Forget, queue
  <2>2. waiting \in Nat
    BY CountsOfRows DEF Having
  <2>3. NoBatch \in Batches /\ started \in Batches /\ saw[s] \in Batches
    BY DEF NoBatch, Scheduled, Batches, BatchStatuses
  <2>4. batch' \in Batches
    BY <2>1, <2>3, UpdatedBatch DEF Scheduled
  <2>5. Within(s)'
    BY <1>1, <2>1, FS_EmptySet DEF Within, Scheduled, Types
  <2>6. \A o \in Sessions \ {s} : Within(o)'
    BY <1>1, <2>1 DEF Within, Scheduled, Types
  <2> HIDE DEF waiting
  <2> QED
    BY <2>1, <2>2, <2>3, <2>4, <2>5, <2>6 DEF Scheduled, Labels, Unlocked
<1> QED
  BY <1>2, <1>3, <1>4

\* A task of one row, and the requests that retry or cancel, are about no
\* claim.
LEMMA RunsAreScheduled ==
    ASSUME IInv, Scheduled, NEW s \in Sessions,
           TakeRun(s) \/ MarkRunning(s) \/ LoadRow(s) \/ Finish(s) \/ Refuse(s) \/ RunCommit(s)
    PROVE  Scheduled'
<1> USE DEF Keep, Read, Begin, Goto, Forget, See, Unlocked, rows, queue
<1>1. Types /\ StageOf(s) /\ Within(s) /\ NoBatch \in Batches
  BY DEF IInv, Scheduled, NoBatch, Batches, BatchStatuses
<1>2. ASSUME DOMAIN read' = Sessions, \A o \in Sessions \ {s} : read'[o] = read[o],
             NEW label \in Labels \ {"select"}, pc' = [pc EXCEPT ![s] = label],
             task' = task \/ task' = [task EXCEPT ![s] = "run"] \/ task' = [task EXCEPT ![s] = "fail"],
             task'[s] \in {"run", "fail"}, UNCHANGED count
      PROVE  \A o \in Sessions : Within(o)'
  BY <1>2 DEF Scheduled, Within
<1>3. CASE TakeRun(s)
  <2>1. \A o \in Sessions : Within(o)'
    BY <1>1, <1>2, <1>3 DEF TakeRun, Types, Scheduled, Labels
  <2> QED
    BY <1>3, <2>1 DEF TakeRun, Scheduled, Labels
<1>4. CASE MarkRunning(s)
  <2>1. /\ pc[s] = "mark" /\ pc' = [pc EXCEPT ![s] = "open"]
        /\ UNCHANGED <<batch, holder, dispatches, requests, failures, task, saw, rollup, count>>
        /\ read' = [read EXCEPT ![s] = [i \in DOMAIN read[s] |-> NoItem]]
    BY <1>4 DEF MarkRunning, ItemsAfter
  <2>2. \A o \in Sessions : Within(o)'
    BY <1>1, <1>2, <2>1 DEF StageOf, Types, Labels
  <2> QED
    BY <2>1, <2>2 DEF Scheduled, Labels
<1>5. CASE LoadRow(s)
  <2>1. /\ pc[s] = "open" /\ pc' = [pc EXCEPT ![s] = "work"]
        /\ UNCHANGED <<batch, holder, dispatches, requests, failures, task, saw, rollup, count>>
        /\ read' = [read EXCEPT ![s] = [i \in DOMAIN read[s] |-> item[i]]]
    BY <1>5 DEF LoadRow
  <2>2. \A o \in Sessions : Within(o)'
    BY <1>1, <1>2, <2>1 DEF StageOf, Types, Labels
  <2> QED
    BY <2>1, <2>2 DEF Scheduled, Labels
<1>6. CASE Finish(s)
  <2> DEFINE among(statuses) == Cardinality({i \in Rows : Ended(s)[i].status \in statuses})
             completed == among({"COMPLETED"})
             failed == among({"FAILED"})
             outstanding == among(ItemStatuses \ TerminalItem)
             status == RolledUp(batch.status, completed, failed, outstanding)
             counted == [status |-> status, completed |-> completed, failed |-> failed]
  <2>1. /\ pc[s] = "work" /\ pc' = [pc EXCEPT ![s] = "counted"]
        /\ holder' = [i \in Rows |-> IF i \in DOMAIN read[s] THEN s ELSE holder[i]]
        /\ saw' = [saw EXCEPT ![s] = batch]
        /\ rollup' = [rollup EXCEPT ![s] = counted]
        /\ UNCHANGED <<batch, dispatches, requests, failures, task, read, count>>
    BY <1>6 DEF Finish
  <2>2. completed \in Nat /\ failed \in Nat /\ outstanding \in Nat
    BY CountsOfRows
  <2> HIDE DEF completed, failed, outstanding
  <2>3. batch.status \in BatchStatuses
    BY DEF Scheduled, Batches
  <2>4. status \in BatchStatuses
    BY <2>2, <2>3 DEF RolledUp, BatchStatuses
  <2> HIDE DEF status
  <2>5. counted \in Batches
    BY <2>2, <2>4 DEF Batches
  <2> HIDE DEF counted
  <2>6. \A o \in Sessions : Within(o)'
    BY <1>1, <1>2, <2>1 DEF StageOf, Types, Labels
  <2> QED
    BY <2>1, <2>5, <2>6 DEF Scheduled, Labels
<1>7. CASE Refuse(s)
  <2>1. \A o \in Sessions : Within(o)'
    BY <1>1, <1>2, <1>7 DEF Refuse, Types, Scheduled, Labels
  <2> QED
    BY <1>1, <1>7, <2>1 DEF Refuse, Scheduled, Labels
<1>8. CASE RunCommit(s)
  <2>1. \A o \in Sessions : Within(o)'
    BY <1>1, <1>2, <1>8 DEF RunCommit, Types, Scheduled, Labels
  <2>2. batch' \in Batches
    BY <1>8, UpdatedBatch DEF RunCommit, Scheduled
  <2> QED
    BY <1>1, <1>8, <2>1, <2>2 DEF RunCommit, Scheduled, Labels
<1> QED
  BY <1>3, <1>4, <1>5, <1>6, <1>7, <1>8

LEMMA RequestsAreScheduled ==
    ASSUME IInv, Scheduled, NEW s \in Sessions,
           Retry(s) \/ Cancel(s) \/ RetryCommit(s) \/ CancelCommit(s)
    PROVE  Scheduled'
<1> USE DEF Keep, Begin, Goto, Forget, See, rows, queue
<1>1. Types /\ StageOf(s) /\ Within(s) /\ NoBatch \in Batches /\ MaxRequests \in Nat
  BY BatchAssumption DEF IInv, Scheduled, NoBatch, Batches, BatchStatuses, BatchAssumption
<1>2. CASE Retry(s) \/ Cancel(s)
  <2>1. /\ \E kind \in {"retry", "cancel"} : task' = [task EXCEPT ![s] = kind]
        /\ \E S : read' = [read EXCEPT ![s] = S]
        /\ pc' = [pc EXCEPT ![s] = "asked"] /\ saw' = [saw EXCEPT ![s] = batch]
        /\ requests' \in 0 .. MaxRequests
        /\ UNCHANGED <<batch, holder, dispatches, failures, rollup, count>>
    BY <1>1, <1>2 DEF Retry, Cancel, Request, Read, Scheduled
  <2>2. \A o \in Sessions : Within(o)'
    BY <1>1, <2>1 DEF Within, Scheduled, Types
  <2> QED
    BY <2>1, <2>2 DEF Scheduled, Labels
<1>3. CASE RetryCommit(s)
  <2> DEFINE reopened == IF DOMAIN read[s] = {} THEN saw[s]
                         ELSE [saw[s] EXCEPT !.status = "RUNNING", !.failed = 0]
  <2>1. /\ task[s] = "retry" /\ batch' = Updated(batch, saw[s], reopened)
        /\ read' = [read EXCEPT ![s] = [i \in {} |-> NoItem]]
        /\ pc' = [pc EXCEPT ![s] = "send"]
        /\ saw' = [saw EXCEPT ![s] = NoBatch] /\ rollup' = [rollup EXCEPT ![s] = NoBatch]
        /\ UNCHANGED <<holder, dispatches, requests, failures, task, count>>
    BY <1>3 DEF RetryCommit, ItemsAfter
  <2>2. reopened \in Batches /\ saw[s] \in Batches /\ batch \in Batches
    BY DEF Scheduled, Batches, BatchStatuses
  <2>3. batch' \in Batches
    BY <2>1, <2>2, UpdatedBatch
  <2>4. \A o \in Sessions : Within(o)'
    BY <1>1, <2>1 DEF Within, Scheduled, Types
  <2> QED
    BY <1>1, <2>1, <2>3, <2>4 DEF Scheduled, Labels
<1>4. CASE CancelCommit(s)
  <2> DEFINE canceled == [saw[s] EXCEPT !.status = "CANCELED"]
  <2>1. /\ batch' = Updated(batch, saw[s], canceled)
        /\ read' = [read EXCEPT ![s] = [i \in {} |-> NoItem]]
        /\ pc' = [pc EXCEPT ![s] = "idle"] /\ task' = [task EXCEPT ![s] = "none"]
        /\ saw' = [saw EXCEPT ![s] = NoBatch] /\ rollup' = [rollup EXCEPT ![s] = NoBatch]
        /\ count' = [count EXCEPT ![s] = 0]
        /\ UNCHANGED <<holder, dispatches, requests, failures>>
    BY <1>4 DEF CancelCommit, Rest, ItemsAfter
  <2>2. canceled \in Batches /\ saw[s] \in Batches /\ batch \in Batches
    BY DEF Scheduled, Batches, BatchStatuses
  <2>3. batch' \in Batches
    BY <2>1, <2>2, UpdatedBatch
  <2>4. \A o \in Sessions : Within(o)'
    BY <1>1, <2>1 DEF Within, Scheduled, Types
  <2> QED
    BY <1>1, <2>1, <2>3, <2>4 DEF Scheduled, Labels
<1> QED
  BY <1>2, <1>3, <1>4

\* Sending shortens a claim; whatever ends has none.
LEMMA EndsAreScheduled ==
    ASSUME IInv, Scheduled, NEW s \in Sessions,
           SendRun(s) \/ SendDispatch(s) \/ Acknowledge(s) \/ Rollback(s) \/ DieAndRedeliver(s)
    PROVE  Scheduled'
<1> USE DEF Keep, Begin, Goto, Forget, Unlocked, rows, queue
<1>1. Types /\ StageOf(s) /\ Within(s) /\ NoBatch \in Batches /\ MaxFailures \in Nat
      /\ MaxConcurrency \in Nat
  BY BatchAssumption DEF IInv, Scheduled, NoBatch, Batches, BatchStatuses, BatchAssumption
<1>2. CASE SendRun(s)
  <2>1. PICK i \in DOMAIN read[s] : read' = [read EXCEPT ![s] = [k \in DOMAIN read[s] \ {i} |-> NoItem]]
    BY <1>2 DEF SendRun
  <2>2. UNCHANGED <<batch, holder, dispatches, requests, failures, pc, task, saw, rollup, count>>
    BY <1>2 DEF SendRun
  <2>3. DOMAIN read'[s] = DOMAIN read[s] \ {i}
    BY <1>1, <2>1 DEF Types
  <2>4. IsFiniteSet(DOMAIN read[s]) /\ Cardinality(DOMAIN read[s]) \in Nat
        /\ Cardinality(DOMAIN read'[s]) \in Nat
        /\ Cardinality(DOMAIN read'[s]) <= Cardinality(DOMAIN read[s])
    BY <1>1, <2>3, CountsOfRows, FS_Subset, FS_CardinalityType DEF Types
  <2>5. Within(s)'
    BY <1>1, <2>2, <2>4 DEF Within
  <2>6. \A o \in Sessions \ {s} : Within(o)'
    BY <1>1, <2>1, <2>2 DEF Within, Scheduled, Types
  <2> QED
    BY <2>2, <2>5, <2>6 DEF Scheduled
<1>3. CASE SendDispatch(s) \/ Acknowledge(s) \/ Rollback(s) \/ DieAndRedeliver(s)
  <2>1. Rest(s) /\ UNCHANGED <<batch, requests>>
    BY <1>3 DEF SendDispatch, Acknowledge, Rollback, DieAndRedeliver, Break
  <2>2. holder' = holder \/ holder' = Unlocked(s)
    BY <1>3 DEF SendDispatch, Acknowledge, Rollback, DieAndRedeliver, Break
  <2>3. dispatches' \in Nat
    BY <1>3 DEF SendDispatch, Acknowledge, Rollback, DieAndRedeliver, Break, Scheduled
  <2>4. failures' \in 0 .. MaxFailures
    BY <1>1, <1>3 DEF SendDispatch, Acknowledge, Rollback, DieAndRedeliver, Break, Scheduled
  <2>5. \A o \in Sessions : Within(o)'
    BY <1>1, <2>1 DEF Rest, Within, Scheduled, Types
  <2> QED
    BY <1>1, <2>1, <2>2, <2>3, <2>4, <2>5 DEF Rest, Scheduled, Labels
<1> QED
  BY <1>2, <1>3

\* Every variable has its type, and no claim takes more rows than
\* max_concurrency allows: it takes the first ones up to the capacity that was
\* counted, and holds them until they are sent.
THEOREM BatchTypeCorrect == Spec => []TypeOK
<1> DEFINE Typed == IInv /\ Scheduled
<1>1. Typed => TypeOK
  BY DEF IInv, Types, Scheduled, Within, TypeOK
<1>2. Typed /\ [Next]_vars => Typed'
  <2> SUFFICES ASSUME IInv, Scheduled, [Next]_vars PROVE IInv' /\ Scheduled'
    OBVIOUS
  <2>1. IInv'
    BY NextInv
  <2>2. CASE UNCHANGED vars
    BY <2>1, <2>2 DEF vars, Scheduled, Within
  <2>3. CASE Next
    BY <2>1, <2>3, ClaimsAreScheduled, RunsAreScheduled, RequestsAreScheduled, EndsAreScheduled DEF Next, Proceed
  <2> QED
    BY <2>2, <2>3
<1>3. Init => Typed
  BY InitInv, ScheduledAtFirst
<1> HIDE DEF Typed
<1> QED
  BY <1>1, <1>2, <1>3, PTL DEF Spec
=============================================================================
