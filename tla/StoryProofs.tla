----------------------------- MODULE StoryProofs -----------------------------
(***************************************************************************)
(* Proofs about one project (Story): the choice of a plan, the approval of *)
(* scripts and storyboards, and the totals, for any sessions and bounds.   *)
(*                                                                         *)
(* The properties except what requests that overlapped may have spoiled,   *)
(* so the invariant says that the history has all of it (SpoiledIsRaced).  *)
(* From that follows what a request can count on when it commits (Current):*)
(* a round has locked every selected plan, a document that was read as     *)
(* approved is approved, and an edit of a shot has the row as it is. The   *)
(* unique indexes give "at most one", and Current that it is not none.     *)
(*                                                                         *)
(* A total is a fold over the shots. TotalIsTabled says that there is what *)
(* it computes, by induction over the numbers (SetInduction), so that any  *)
(* draft has a total. The last part is about types (StoryTypes).           *)
(***************************************************************************)
EXTENDS Services, Sequences, FiniteSetTheorems, SequenceTheorems, WellFoundedInduction, TLAPS

IsSequence(f) == f \in Seq({f[i] : i \in DOMAIN f})

\* The rows are sequences, and those of storyboards have their columns.
TablesTyped ==
    /\ IsSequence(plans) /\ IsSequence(scripts) /\ IsSequence(boards)
    /\ \A b \in DOMAIN boards : DOMAIN boards[b] = {"status", "total", "shots"}
    /\ DOMAIN project = {"status", "duration"} /\ project.duration \in Durations

\* What a request is about is there, and what it locks is what it chose.
Typed(t) ==
    /\ t.op # "none" =>
          DOMAIN t = {"op", "id", "saw", "stage", "brief", "rows", "locks", "at"} /\ t.brief \in Durations
    /\ t.op = "brief" => t.id[1] \in Durations
    /\ t.op = "select" => t.id[1] \in DOMAIN plans
    /\ t.op = "approve" => t.id[1] \in DOMAIN scripts \ t.rows
    /\ t.op = "accept" => t.id[1] \in DOMAIN boards \ t.rows
    /\ t.op = "shot" => t.id[1] \in DOMAIN boards
    /\ t.op \in {"round", "select"} /\ t.at = "locked" => t.locks = {"plan"} \X t.rows
    /\ t.op = "approve" /\ t.at = "locked" => t.locks = {"script"} \X t.rows
    /\ t.op = "accept" /\ t.at = "locked" => t.locks = {"board"} \X t.rows

\* What a request read is so still, unless another that overlapped it may
\* have spoiled that.
Current(t) ==
    /\ t.op = "round" /\ "choice" \notin raced => \A p \in DOMAIN plans : plans[p] => p \in t.rows
    /\ t.op = "approve" /\ t.saw.status = "APPROVED" /\ "scripts" \notin raced => scripts[t.id[1]] = "APPROVED"
    /\ t.op = "accept" /\ t.saw.status = "APPROVED" /\ "boards" \notin raced => boards[t.id[1]].status = "APPROVED"
    /\ t.op = "accept" /\ "totals" \notin raced => t.saw.sum = t.saw.total
    /\ t.op = "shot" /\ "totals" \notin raced =>
          /\ t.saw = boards[t.id[1]]
          /\ t.at = "locked" => t.rows = {S!Total([t.saw.shots EXCEPT ![t.id[2]] = t.id[3]])}

\* The history has all that open requests may spoil of each other.
SpoiledIsRaced ==
    \A s, o \in Sessions : s # o => S!Spoiled(storyTx[s], storyTx[o]) \subseteq raced

\* One row alone is selected, or approved.
Single(X) == \E x \in X : X = {x}
ApprovedBoards == {b \in DOMAIN boards : boards[b].status = "APPROVED"}

Kept ==
    /\ chosen => Single(S!Selected)
    /\ ~chosen /\ "choice" \notin raced => \A p \in DOMAIN plans : ~plans[p]
    /\ "script" \in accepted /\ "scripts" \notin raced => Single(S!Approved(scripts))
    /\ "board" \in accepted /\ "boards" \notin raced => Single(ApprovedBoards)
    /\ "totals" \notin raced => \A b \in DOMAIN boards : boards[b].total = S!Total(boards[b].shots)

StoryInv ==
    /\ TablesTyped
    /\ DOMAIN storyTx = Sessions
    /\ \A s \in Sessions : Typed(storyTx[s]) /\ Current(storyTx[s])
    /\ SpoiledIsRaced
    /\ Kept

-----------------------------------------------------------------------------
(* Sequences, sets and choices.                                            *)

LEMMA AppendRow ==
    ASSUME NEW f, IsSequence(f), NEW e
    PROVE  /\ DOMAIN f = 1 .. Len(f) /\ Len(f) \in Nat
           /\ DOMAIN Append(f, e) = DOMAIN f \cup {Len(f) + 1} /\ Len(f) + 1 \notin DOMAIN f
           /\ \A i \in DOMAIN f : Append(f, e)[i] = f[i]
           /\ Append(f, e)[Len(f) + 1] = e
           /\ IsSequence(Append(f, e))
<1> DEFINE S0 == {f[i] : i \in DOMAIN f} \cup {e}
           g == Append(f, e)
<1>1. f \in Seq(S0)
  BY SeqMonotonic DEF IsSequence
<1>2. DOMAIN f = 1 .. Len(f) /\ Len(f) \in Nat
  BY <1>1, LenProperties
<1>3. g \in Seq(S0) /\ Len(g) = Len(f) + 1 /\ g[Len(f) + 1] = e /\ \A i \in 1 .. Len(f) : g[i] = f[i]
  BY <1>1, AppendProperties
<1>4. DOMAIN g = 1 .. Len(g)
  BY <1>3, LenProperties
<1>5. DOMAIN g = DOMAIN f \cup {Len(f) + 1} /\ Len(f) + 1 \notin DOMAIN f
  BY <1>2, <1>3, <1>4
<1>6. S0 \subseteq {g[i] : i \in DOMAIN g}
  BY <1>2, <1>3, <1>5
<1>7. IsSequence(g)
  <2> HIDE DEF g, S0
  <2>1. Seq(S0) \subseteq Seq({g[i] : i \in DOMAIN g})
    BY <1>6, SeqMonotonic
  <2>2. QED
    BY <1>3, <2>1 DEF IsSequence
<1>8. QED
  BY <1>2, <1>3, <1>5, <1>7

LEMMA ConcatRows ==
    ASSUME NEW f, IsSequence(f), NEW h, IsSequence(h)
    PROVE  /\ DOMAIN f \subseteq DOMAIN (f \o h)
           /\ \A i \in DOMAIN f : (f \o h)[i] = f[i]
           /\ \A i \in DOMAIN (f \o h) \ DOMAIN f : \E k \in DOMAIN h : (f \o h)[i] = h[k]
           /\ IsSequence(f \o h)
<1> DEFINE S0 == {f[i] : i \in DOMAIN f} \cup {h[i] : i \in DOMAIN h}
           g == f \o h
<1>1. f \in Seq(S0) /\ h \in Seq(S0)
  BY SeqMonotonic DEF IsSequence
<1>2. DOMAIN f = 1 .. Len(f) /\ Len(f) \in Nat /\ DOMAIN h = 1 .. Len(h) /\ Len(h) \in Nat
  BY <1>1, LenProperties
<1>3. /\ g \in Seq(S0) /\ Len(g) = Len(f) + Len(h)
      /\ \A i \in 1 .. Len(f) + Len(h) : g[i] = IF i <= Len(f) THEN f[i] ELSE h[i - Len(f)]
  BY <1>1, ConcatProperties
<1>4. DOMAIN g = 1 .. Len(f) + Len(h)
  BY <1>3, LenProperties
<1> HIDE DEF g
<1>5. DOMAIN f \subseteq DOMAIN g /\ \A i \in DOMAIN f : g[i] = f[i]
  BY <1>2, <1>3, <1>4
<1>6. \A i \in DOMAIN g \ DOMAIN f : i - Len(f) \in DOMAIN h /\ g[i] = h[i - Len(f)]
  BY <1>2, <1>3, <1>4
<1>7. \A k \in DOMAIN h : Len(f) + k \in DOMAIN g /\ g[Len(f) + k] = h[k]
  BY <1>2, <1>3, <1>4
<1>8. S0 \subseteq {g[i] : i \in DOMAIN g}
  BY <1>5, <1>7
<1>9. IsSequence(g)
  <2>1. Seq(S0) \subseteq Seq({g[i] : i \in DOMAIN g})
    BY <1>8, SeqMonotonic
  <2>2. QED
    BY <1>3, <2>1 DEF IsSequence
<1>10. QED
  BY <1>5, <1>6, <1>9 DEF g

\* Rows that are rewritten in place are a sequence still.
LEMMA RewrittenRows ==
    ASSUME NEW f, IsSequence(f), NEW g, g = [i \in DOMAIN f |-> g[i]]
    PROVE  IsSequence(g)
<1>1. DOMAIN f = 1 .. Len(f) /\ Len(f) \in Nat
  BY LenProperties DEF IsSequence
<1>2. g \in [1 .. Len(f) -> {g[i] : i \in DOMAIN g}]
  BY <1>1
<1>3. g \in Seq({g[i] : i \in DOMAIN g})
  BY <1>1, <1>2, SeqDef
<1>4. QED
  BY <1>3 DEF IsSequence

LEMMA NumberedRows ==
    ASSUME NEW n \in Nat, NEW e
    PROVE  IsSequence([i \in 1 .. n |-> e])
<1> DEFINE f == [i \in 1 .. n |-> e]
<1>1. f \in [1 .. n -> {f[i] : i \in DOMAIN f}] /\ f = [i \in 1 .. n |-> f[i]]
  OBVIOUS
<1>2. f \in Seq({f[i] : i \in DOMAIN f})
  BY <1>1, SeqDef
<1>3. QED
  BY <1>2 DEF IsSequence

LEMMA StoryCount == \A X : S!Cardinality(X) = Cardinality(X)
BY DEF S!Cardinality, Cardinality

LEMMA SingleCount ==
    ASSUME NEW X, Single(X)
    PROVE  S!Cardinality(X) = 1
BY FS_Singleton, StoryCount DEF Single

\* Of rows at most one is in X, and one is.
LEMMA CountSingle ==
    ASSUME NEW f, IsSequence(f), NEW X \in SUBSET DOMAIN f, NEW x \in X, S!Cardinality(X) <= 1
    PROVE  Single(X)
<1>1. DOMAIN f = 1 .. Len(f) /\ Len(f) \in Nat
  BY LenProperties DEF IsSequence
<1>2. IsFiniteSet(X) /\ Cardinality(X) <= 1
  <2>1. IsFiniteSet(1 .. Len(f))
    BY <1>1, FS_Interval
  <2>2. IsFiniteSet(X)
    BY <1>1, <2>1, FS_Subset
  <2>3. Cardinality(X) = S!Cardinality(X)
    BY StoryCount
  <2>4. QED
    BY <2>2, <2>3
<1>3. ASSUME NEW y \in X, y # x
      PROVE  FALSE
  <2>1. IsFiniteSet({x}) /\ Cardinality({x}) = 1
    BY FS_Singleton
  <2>2. Cardinality({x} \cup {y}) = Cardinality({x}) + 1
    BY <1>3, <2>1, FS_AddElement
  <2>3. Cardinality({x} \cup {y}) <= Cardinality(X)
    BY <1>2, <1>3, FS_Subset
  <2>4. Cardinality(X) \in Nat
    BY <1>2, FS_CardinalityType
  <2>5. QED
    BY <1>2, <2>1, <2>2, <2>3, <2>4
<1>4. QED
  BY <1>3 DEF Single

LEMMA ChosenAlone == \A x : (CHOOSE n \in {x} : TRUE) = x
OBVIOUS

-----------------------------------------------------------------------------
(* Totals.                                                                 *)

\* Induction over the numbers, for a set of them.
LEMMA SetInduction ==
    ASSUME NEW T0 \in SUBSET Nat, 0 \in T0, \A n \in T0 : n + 1 \in T0
    PROVE  T0 = Nat
<1> DEFINE M1 == Nat \ T0
           less == OpToRel(<, Nat)
<1>1. IsWellFoundedOn(less, Nat)
  BY NatLessThanWellFounded
<1>2. \A n \in Nat \ {0} : <<n - 1, n>> \in less
  BY DEF OpToRel
<1> HIDE DEF less
<1>3. ASSUME M1 # {} PROVE FALSE
  <2>1. PICK x \in M1 : \A y \in M1 : <<y, x>> \notin less
    BY <1>1, <1>3, WFMin
  <2>2. x \in Nat /\ x # 0 /\ x - 1 \in Nat /\ <<x - 1, x>> \in less
    BY <1>2, <2>1
  <2>3. x - 1 \in T0
    BY <2>1, <2>2
  <2> QED
    BY <2>1, <2>2, <2>3
<1> QED
  BY <1>3

\* The element a fold takes next.
NextOf(t) == CHOOSE x \in t : TRUE

\* There is a table of the sums over sets of positions.
LEMMA TotalTable ==
    ASSUME NEW m \in Nat, NEW f \in [1 .. m -> Nat]
    PROVE  \E g : g = [t \in SUBSET (1 .. m) |->
                          IF t = {} THEN 0 ELSE f[NextOf(t)] + g[t \ {NextOf(t)}]]
                  /\ g \in [SUBSET (1 .. m) -> Nat]
<1> DEFINE D == 1 .. m
           Small(n) == {t \in SUBSET D : Cardinality(t) <= n}
           Solves(g, n) ==
               /\ g \in [Small(n) -> Nat]
               /\ \A t \in Small(n) : g[t] = IF t = {} THEN 0 ELSE f[NextOf(t)] + g[t \ {NextOf(t)}]
           U == {n \in Nat : \E g : Solves(g, n)}
<1>0. IsFiniteSet(D) /\ Cardinality(D) = m
  <2>1. 1 \in Int /\ m \in Int
    OBVIOUS
  <2> QED
    BY <2>1, FS_Interval
<1>1. ASSUME NEW t \in SUBSET D
      PROVE  IsFiniteSet(t) /\ Cardinality(t) \in Nat /\ Cardinality(t) <= m
  <2>1. IsFiniteSet(t) /\ Cardinality(t) <= Cardinality(D)
    BY <1>0, FS_Subset
  <2> QED
    BY <1>0, <2>1, FS_CardinalityType
<1>2. ASSUME NEW t \in SUBSET D, t # {}
      PROVE  /\ NextOf(t) \in t /\ Cardinality(t) # 0
             /\ Cardinality(t \ {NextOf(t)}) = Cardinality(t) - 1
  <2>1. NextOf(t) \in t
    BY <1>2 DEF NextOf
  <2> QED
    BY <1>1, <1>2, <2>1, FS_RemoveElement, FS_EmptySet
<1> HIDE DEF D
<1>3. 0 \in U
  <2> DEFINE g == [t \in Small(0) |-> 0]
  <2>1. ASSUME NEW t \in Small(0), t # {} PROVE FALSE
    <3>1. Cardinality(t) \in Nat /\ Cardinality(t) <= 0
      BY <1>1
    <3>2. Cardinality(t) = 0
      BY <3>1
    <3>3. t \in SUBSET D
      OBVIOUS
    <3> QED
      BY <1>2, <2>1, <3>2, <3>3
  <2>2. g \in [Small(0) -> Nat] /\ \A t \in Small(0) : g[t] = 0
    OBVIOUS
  <2> HIDE DEF g
  <2>3. Solves(g, 0)
    BY <2>1, <2>2
  <2> QED
    BY <2>3
<1>4. ASSUME NEW n \in U PROVE n + 1 \in U
  <2> HIDE DEF Solves
  <2>1. n \in Nat /\ n + 1 \in Nat
    OBVIOUS
  <2>2. PICK g : Solves(g, n)
    OBVIOUS
  <2> USE DEF Solves
  <2> DEFINE h == [t \in Small(n + 1) |-> IF t = {} THEN 0 ELSE f[NextOf(t)] + g[t \ {NextOf(t)}]]
  <2>3. ASSUME NEW t \in Small(n + 1), t # {}
        PROVE  t \ {NextOf(t)} \in Small(n) /\ f[NextOf(t)] \in Nat
    <3>1. Cardinality(t) \in Nat /\ Cardinality(t) <= n + 1 /\ Cardinality(t \ {NextOf(t)}) = Cardinality(t) - 1
      BY <1>1, <1>2, <2>3
    <3>2. Cardinality(t \ {NextOf(t)}) <= n
      BY <2>1, <3>1
    <3>3. NextOf(t) \in D
      BY <1>2, <2>3
    <3> QED
      BY <3>2, <3>3 DEF D
  <2>4. Small(n) \subseteq Small(n + 1)
    BY <1>1, <2>1
  <2>5. h \in [Small(n + 1) -> Nat]
    BY <2>2, <2>3
  <2>6. \A t \in Small(n) : h[t] = g[t]
    BY <2>2, <2>4
  <2>7. \A t \in Small(n + 1) : h[t] = IF t = {} THEN 0 ELSE f[NextOf(t)] + h[t \ {NextOf(t)}]
    BY <2>3, <2>6
  <2> HIDE DEF h
  <2>8. Solves(h, n + 1)
    BY <2>5, <2>7
  <2> QED
    BY <2>1, <2>8
<1>5. U = Nat
  <2> HIDE DEF Solves
  <2> HIDE DEF U
  <2>1. U \in SUBSET Nat
    BY DEF U
  <2> QED
    BY <1>3, <1>4, <2>1, SetInduction
<1>6. PICK g : Solves(g, m)
  <2> HIDE DEF Solves
  <2> QED
    BY <1>5
<1>7. Small(m) = SUBSET D
  BY <1>1
<1> QED
  BY <1>6, <1>7 DEF D

\* And the total of all shots is in that table.
LEMMA TotalIsTabled ==
    ASSUME NEW m \in Nat, NEW f \in [1 .. m -> Nat]
    PROVE  \E g \in [SUBSET (1 .. m) -> Nat] :
              /\ S!Total(f) = g[1 .. m]
              /\ \A t \in SUBSET (1 .. m) : g[t] = IF t = {} THEN 0 ELSE f[NextOf(t)] + g[t \ {NextOf(t)}]
<1> DEFINE D == DOMAIN f
           iter[t \in SUBSET D] == IF t = {} THEN 0 ELSE LET x == NextOf(t) IN f[x] + iter[t \ {x}]
           Table(g) == g = [t \in SUBSET D |-> IF t = {} THEN 0 ELSE f[NextOf(t)] + g[t \ {NextOf(t)}]]
<1>1. S!Total(f) = iter[D]
  BY DEF S!Total, S!FoldSeq, S!FoldFunction, S!FoldFunctionOnSet, S!MapThenFoldSet, NextOf
<1>2. D = 1 .. m
  OBVIOUS
<1>3. PICK g : Table(g) /\ g \in [SUBSET D -> Nat]
  BY <1>2, TotalTable
<1>4. iter = CHOOSE g0 : Table(g0)
  OBVIOUS
<1>5. Table(iter)
  BY <1>3, <1>4
<1> HIDE DEF iter
<1>6. iter = [t \in SUBSET D |-> IF t = {} THEN 0 ELSE f[NextOf(t)] + iter[t \ {NextOf(t)}]]
  BY <1>5
<1> HIDE DEF Table, D
<1> DEFINE U == {n \in Nat : \A t \in SUBSET D : Cardinality(t) <= n => iter[t] \in Nat}
<1>7. IsFiniteSet(D) /\ Cardinality(D) \in Nat
  <2>1. 1 \in Int /\ m \in Int
    OBVIOUS
  <2> QED
    BY <1>2, <2>1, FS_Interval, FS_CardinalityType
<1>8. ASSUME NEW t \in SUBSET D
      PROVE  /\ Cardinality(t) \in Nat
             /\ t # {} => /\ Cardinality(t) # 0 /\ NextOf(t) \in D /\ f[NextOf(t)] \in Nat
                          /\ t \ {NextOf(t)} \in SUBSET D
                          /\ Cardinality(t \ {NextOf(t)}) = Cardinality(t) - 1
  <2>1. IsFiniteSet(t) /\ Cardinality(t) \in Nat
    BY <1>7, FS_Subset, FS_CardinalityType
  <2>2. ASSUME t # {} PROVE NextOf(t) \in t
    BY <2>2 DEF NextOf
  <2> QED
    BY <1>2, <2>1, <2>2, FS_RemoveElement, FS_EmptySet
<1>9. 0 \in U
  <2> SUFFICES ASSUME NEW t \in SUBSET D, Cardinality(t) <= 0 PROVE iter[t] \in Nat
    OBVIOUS
  <2>1. t = {}
    <3>1. Cardinality(t) \in Nat
      BY <1>8
    <3>2. Cardinality(t) = 0
      BY <3>1
    <3> QED
      BY <1>8, <3>2
  <2> QED
    BY <1>6, <2>1
<1>10. ASSUME NEW n \in U PROVE n + 1 \in U
  <2>0. n \in Nat /\ n + 1 \in Nat /\ \A t \in SUBSET D : Cardinality(t) <= n => iter[t] \in Nat
    OBVIOUS
  <2> SUFFICES ASSUME NEW t \in SUBSET D, Cardinality(t) <= n + 1 PROVE iter[t] \in Nat
    BY <2>0
  <2>1. CASE t = {}
    BY <1>6, <2>1
  <2>2. CASE t # {}
    <3>1. t \ {NextOf(t)} \in SUBSET D /\ Cardinality(t \ {NextOf(t)}) <= n /\ f[NextOf(t)] \in Nat
      BY <1>8, <2>0, <2>2
    <3>2. iter[t \ {NextOf(t)}] \in Nat
      BY <2>0, <3>1
    <3>3. iter[t] = f[NextOf(t)] + iter[t \ {NextOf(t)}]
      BY <1>6, <2>2
    <3> QED
      BY <3>1, <3>2, <3>3
  <2> QED
    BY <2>1, <2>2
<1> HIDE DEF U
<1>11. U = Nat
  <2>1. U \in SUBSET Nat
    BY DEF U
  <2> QED
    BY <1>9, <1>10, <2>1, SetInduction
<1>12. ASSUME NEW t \in SUBSET D
       PROVE  iter[t] \in Nat
  <2>0. Cardinality(t) \in Nat
    BY <1>8
  <2>1. Cardinality(t) \in U /\ Cardinality(t) <= Cardinality(t)
    BY <1>11, <2>0
  <2> QED
    BY <2>1 DEF U
<1>13. iter \in [SUBSET D -> Nat]
  BY <1>6, <1>12
<1> QED
  BY <1>1, <1>2, <1>6, <1>13

LEMMA TotalIsNatural ==
    ASSUME NEW m \in Nat, NEW f \in [1 .. m -> Nat]
    PROVE  S!Total(f) \in Nat
<1>1. PICK g \in [SUBSET (1 .. m) -> Nat] : S!Total(f) = g[1 .. m]
  BY TotalIsTabled
<1>2. 1 .. m \in SUBSET (1 .. m)
  OBVIOUS
<1> QED
  BY <1>1, <1>2

\* fit_shot_durations: every shot of a new storyboard has a duration.
LEMMA FittedShots ==
    ASSUME NEW d, NEW shots \in S!Fitted(d)
    PROVE  shots \in [1 .. ShotsPerBoard -> Nat] /\ S!Total(shots) \in Nat
<1>1. shots \in [1 .. ShotsPerBoard -> ShotDurations]
  BY DEF S!Fitted
<1>2. shots \in [1 .. ShotsPerBoard -> Nat] /\ ShotsPerBoard \in Nat
  BY <1>1, StoryAssumption
<1> QED
  BY <1>2, TotalIsNatural

-----------------------------------------------------------------------------
(* Requests that overlap.                                                  *)

LEMMA SpoiledOf ==
    ASSUME NEW t, NEW u
    PROVE  /\ S!Spoiled(t, u) \subseteq {"choice", "scripts", "boards", "totals"}
           /\ "choice" \in S!Spoiled(t, u) <=> {t.op, u.op} \in {{"plans", "select"}, {"round", "select"}}
           /\ "scripts" \in S!Spoiled(t, u) <=>
                 t.op = "approve" /\ u.op = "approve" /\ "APPROVED" \in {t.saw.status, u.saw.status}
           /\ "boards" \in S!Spoiled(t, u) <=>
                 t.op = "accept" /\ u.op = "accept" /\ "APPROVED" \in {t.saw.status, u.saw.status}
           /\ "totals" \in S!Spoiled(t, u) <=> {t.op, u.op} \subseteq {"shot", "accept"}
<1>1. S!Spoiled(t, u) \subseteq {"choice", "scripts", "boards", "totals"}
  BY DEF S!Spoiled
<1>2. "choice" \in S!Spoiled(t, u) <=> {t.op, u.op} \in {{"plans", "select"}, {"round", "select"}}
  BY DEF S!Spoiled
<1>3. "scripts" \in S!Spoiled(t, u) <=>
         t.op = "approve" /\ u.op = "approve" /\ "APPROVED" \in {t.saw.status, u.saw.status}
  BY DEF S!Spoiled
<1>4. "boards" \in S!Spoiled(t, u) <=>
         t.op = "accept" /\ u.op = "accept" /\ "APPROVED" \in {t.saw.status, u.saw.status}
  BY DEF S!Spoiled
<1>5. "totals" \in S!Spoiled(t, u) <=> {t.op, u.op} \subseteq {"shot", "accept"}
  BY DEF S!Spoiled
<1>6. QED
  BY <1>1, <1>2, <1>3, <1>4, <1>5

LEMMA SpoiledSame ==
    ASSUME NEW t, NEW u
    PROVE  S!Spoiled(t, u) = S!Spoiled(u, t)
<1>1. /\ "choice" \in S!Spoiled(t, u) <=> "choice" \in S!Spoiled(u, t)
      /\ "scripts" \in S!Spoiled(t, u) <=> "scripts" \in S!Spoiled(u, t)
      /\ "boards" \in S!Spoiled(t, u) <=> "boards" \in S!Spoiled(u, t)
      /\ "totals" \in S!Spoiled(t, u) <=> "totals" \in S!Spoiled(u, t)
  <2>1. {t.op, u.op} = {u.op, t.op} /\ {t.saw.status, u.saw.status} = {u.saw.status, t.saw.status}
    OBVIOUS
  <2>2. QED
    BY <2>1, SpoiledOf
<1>2. QED
  BY <1>1, SpoiledOf

\* An idle session spoils nothing, and a request no more than it did when it
\* was opened.
LEMMA SpoiledIdle ==
    ASSUME NEW t, t.op \notin {"plans", "round", "select", "approve", "accept", "shot"}, NEW u
    PROVE  S!Spoiled(t, u) = {}
<1>1. /\ {t.op, u.op} \notin {{"plans", "select"}, {"round", "select"}}
      /\ ~({t.op, u.op} \subseteq {"shot", "accept"})
  OBVIOUS
<1>2. QED
  BY <1>1, SpoiledOf

LEMMA SpoiledLater ==
    ASSUME NEW t, NEW v, NEW u,
           v.saw = t.saw, v.op = t.op \/ (t.op = "plans" /\ v.op = "round")
    PROVE  S!Spoiled(v, u) \subseteq S!Spoiled(t, u)
<1>1. CASE v.op = t.op
  BY <1>1, SpoiledOf
<1>2. CASE t.op = "plans" /\ v.op = "round"
  <2>1. {v.op, u.op} \in {{"plans", "select"}, {"round", "select"}} =>
           {t.op, u.op} \in {{"plans", "select"}, {"round", "select"}}
    BY <1>2
  <2>2. ~({v.op, u.op} \subseteq {"shot", "accept"})
    BY <1>2
  <2>3. QED
    BY <1>2, <2>1, <2>2, SpoiledOf
<1>3. QED
  BY <1>1, <1>2

\* What is true of a request stays so while no table changes.
LEMMA StillCurrent ==
    ASSUME NEW t, Typed(t), Current(t), UNCHANGED <<plans, scripts, boards>>, raced \subseteq raced'
    PROVE  Typed(t)' /\ Current(t)'
<1>1. Typed(t)'
  BY DEF Typed
<1>2. Current(t)'
  BY DEF Current
<1>3. QED
  BY <1>1, <1>2

\* A request begins, goes on, or is over without a document written.
LEMMA TurnStory ==
    ASSUME StoryInv, NEW s \in Sessions, NEW t,
           storyTx' = [storyTx EXCEPT ![s] = t],
           UNCHANGED <<plans, scripts, boards, chosen, accepted>>, raced \subseteq raced',
           DOMAIN project' = {"status", "duration"}, project'.duration \in Durations,
           Typed(t), Current(t),
           \A o \in Sessions \ {s} : S!Spoiled(t, storyTx[o]) \subseteq raced'
    PROVE  StoryInv'
<1>1. storyTx'[s] = t /\ DOMAIN storyTx' = Sessions /\ \A o \in Sessions \ {s} : storyTx'[o] = storyTx[o]
  BY DEF StoryInv
<1>2. TablesTyped'
  BY DEF StoryInv, TablesTyped, IsSequence
<1>3. ASSUME NEW o \in Sessions
      PROVE  Typed(storyTx[o])' /\ Current(storyTx[o])'
  <2>1. PICK u : u = storyTx'[o]
    OBVIOUS
  <2>2. Typed(u) /\ Current(u)
    BY <1>1, <2>1 DEF StoryInv
  <2>3. Typed(u)' /\ Current(u)'
    BY <2>2, StillCurrent
  <2>4. QED
    BY <2>1, <2>3
<1>4. SpoiledIsRaced'
  <2> SUFFICES ASSUME NEW o \in Sessions, NEW p \in Sessions, o # p
               PROVE  S!Spoiled(storyTx'[o], storyTx'[p]) \subseteq raced'
    BY DEF SpoiledIsRaced, S!Spoiled
  <2>1. CASE o = s
    BY <1>1, <2>1
  <2>2. CASE p = s
    BY <1>1, <2>2, SpoiledSame
  <2>3. CASE o # s /\ p # s
    BY <1>1, <2>3 DEF StoryInv, SpoiledIsRaced
  <2>4. QED
    BY <2>1, <2>2, <2>3
<1>5. Kept'
  BY DEF StoryInv, Kept, S!Selected, S!Approved, ApprovedBoards
<1>6. QED
  BY <1>1, <1>2, <1>3, <1>4, <1>5 DEF StoryInv

\* A request commits a document: the others are what they were, and what
\* they spoil of each other is known.
LEMMA CloseStory ==
    ASSUME StoryInv, NEW s \in Sessions, S!Close(s)
    PROVE  /\ storyTx'[s] = S!Idle /\ DOMAIN storyTx' = Sessions
           /\ \A o \in Sessions \ {s} : storyTx'[o] = storyTx[o]
           /\ SpoiledIsRaced' /\ UNCHANGED raced
           /\ Typed(S!Idle)' /\ Current(S!Idle)'
<1>1. /\ storyTx'[s] = S!Idle /\ DOMAIN storyTx' = Sessions /\ UNCHANGED raced
      /\ \A o \in Sessions \ {s} : storyTx'[o] = storyTx[o]
  BY DEF StoryInv, S!Close
<1>2. S!Idle.op = "none"
  BY DEF S!Idle
<1>3. SpoiledIsRaced'
  <2> SUFFICES ASSUME NEW o \in Sessions, NEW p \in Sessions, o # p
               PROVE  S!Spoiled(storyTx'[o], storyTx'[p]) \subseteq raced'
    BY DEF SpoiledIsRaced, S!Spoiled
  <2>1. CASE o = s
    BY <1>1, <1>2, <2>1, SpoiledIdle
  <2>2. CASE p = s
    BY <1>1, <1>2, <2>2, SpoiledIdle, SpoiledSame
  <2>3. CASE o # s /\ p # s
    BY <1>1, <2>3 DEF StoryInv, SpoiledIsRaced
  <2>4. QED
    BY <2>1, <2>2, <2>3
<1>4. Typed(S!Idle)'
  BY <1>2 DEF Typed, S!Idle
<1>5. Current(S!Idle)'
  BY <1>2 DEF Current, S!Idle
<1>6. QED
  BY <1>1, <1>3, <1>4, <1>5

\* So it is enough to look at each of the others by itself.
LEMMA CommitStory ==
    ASSUME StoryInv, NEW s \in Sessions, S!Close(s), TablesTyped', Kept',
           \A o \in Sessions \ {s} : \A u : u = storyTx[o] /\ Typed(u) /\ Current(u) => Typed(u)' /\ Current(u)'
    PROVE  StoryInv'
<1>1. /\ storyTx'[s] = S!Idle /\ DOMAIN storyTx' = Sessions
      /\ \A o \in Sessions \ {s} : storyTx'[o] = storyTx[o]
      /\ SpoiledIsRaced' /\ Typed(S!Idle)' /\ Current(S!Idle)'
  BY CloseStory
<1>2. ASSUME NEW o \in Sessions
      PROVE  Typed(storyTx[o])' /\ Current(storyTx[o])'
  <2>1. PICK u : u = storyTx'[o]
    OBVIOUS
  <2>2. CASE o = s
    <3>1. u = S!Idle
      BY <1>1, <2>1, <2>2
    <3>2. Typed(u)' /\ Current(u)'
      BY <1>1, <3>1 DEF S!Idle
    <3>3. QED
      BY <2>1, <3>2
  <2>3. CASE o # s
    <3>1. u = storyTx[o] /\ Typed(u) /\ Current(u)
      BY <1>1, <2>1, <2>3 DEF StoryInv
    <3>2. Typed(u)' /\ Current(u)'
      BY <2>3, <3>1
    <3>3. QED
      BY <2>1, <3>2
  <2>4. QED
    BY <2>2, <2>3
<1>3. QED
  BY <1>1, <1>2 DEF StoryInv

\* A request arrives with what it read.
LEMMA OpenStory ==
    ASSUME StoryInv, NEW s \in Sessions, NEW op, NEW id, NEW saw, NEW chose, S!Open(s, op, id, saw, chose),
           op \notin {"none", "round"},
           op = "brief" => id[1] \in Durations,
           op = "select" => id[1] \in DOMAIN plans,
           op = "approve" => id[1] \in DOMAIN scripts \ chose /\ saw.status = scripts[id[1]],
           op = "accept" =>
               /\ id[1] \in DOMAIN boards \ chose /\ saw.status = boards[id[1]].status
               /\ saw.total = boards[id[1]].total /\ saw.sum = S!Total(boards[id[1]].shots),
           op = "shot" => id[1] \in DOMAIN boards /\ saw = boards[id[1]]
    PROVE  StoryInv'
<1> DEFINE t == [op |-> op, id |-> id, saw |-> saw, stage |-> project.status,
                 brief |-> project.duration, rows |-> chose, locks |-> {}, at |-> "read"]
<1>1. /\ storyTx' = [storyTx EXCEPT ![s] = t]
      /\ UNCHANGED <<project, plans, scripts, boards, chosen, accepted>>
      /\ raced' = raced \cup UNION {S!Spoiled(storyTx'[s], storyTx[o]) : o \in Sessions \ {s}}
  BY DEF S!Open, S!tables
<1>2. /\ DOMAIN t = {"op", "id", "saw", "stage", "brief", "rows", "locks", "at"}
      /\ t.op = op /\ t.id = id /\ t.saw = saw /\ t.brief = project.duration /\ t.rows = chose
      /\ t.locks = {} /\ t.at = "read"
  OBVIOUS
<1> HIDE DEF t
<1>3. storyTx'[s] = t /\ \A o \in Sessions \ {s} : storyTx'[o] = storyTx[o]
  BY <1>1 DEF StoryInv
<1>4. raced \subseteq raced' /\ \A o \in Sessions \ {s} : S!Spoiled(t, storyTx[o]) \subseteq raced'
  BY <1>1, <1>3
<1>5. Typed(t)
  BY <1>2 DEF Typed, StoryInv, TablesTyped
<1>6. Current(t)
  BY <1>2 DEF Current, StoryInv, Kept
<1>7. QED
  BY <1>1, <1>4, <1>5, <1>6, TurnStory DEF StoryInv, TablesTyped

\* It goes on: it is about the same, and saw the same.
LEMMA AdvanceStory ==
    ASSUME StoryInv, NEW s \in Sessions, NEW t, S!Advance(s, t),
           t.saw = storyTx[s].saw, t.op = storyTx[s].op \/ (storyTx[s].op = "plans" /\ t.op = "round"),
           Typed(t), Current(t)
    PROVE  StoryInv'
<1>1. /\ storyTx' = [storyTx EXCEPT ![s] = t]
      /\ UNCHANGED <<project, plans, scripts, boards, chosen, accepted, raced>>
  BY DEF S!Advance, S!tables
<1>2. ASSUME NEW o \in Sessions \ {s}
      PROVE  S!Spoiled(t, storyTx[o]) \subseteq raced
  <2>1. S!Spoiled(t, storyTx[o]) \subseteq S!Spoiled(storyTx[s], storyTx[o])
    BY SpoiledLater
  <2>2. QED
    BY <2>1 DEF StoryInv, SpoiledIsRaced
<1>3. QED
  BY <1>1, <1>2, TurnStory DEF StoryInv, TablesTyped

\* It has its locks.
LEMMA LockStory ==
    ASSUME StoryInv, NEW s \in Sessions, NEW kind, S!LockRows(s, kind),
           kind = "plan" => storyTx[s].op \in {"round", "select"},
           kind = "script" => storyTx[s].op = "approve",
           kind = "board" => storyTx[s].op = "accept",
           kind \in {"plan", "script", "board"}
    PROVE  StoryInv'
<1>1. PICK t : t = storyTx[s]
  OBVIOUS
<1> DEFINE v == [t EXCEPT !.at = "locked", !.locks = {kind} \X t.rows]
<1>2. Typed(t) /\ Current(t) /\ S!Advance(s, v)
  BY <1>1 DEF StoryInv, S!LockRows
<1>3. t.op \in {"round", "select", "approve", "accept"}
  BY <1>1
<1>4. DOMAIN t = {"op", "id", "saw", "stage", "brief", "rows", "locks", "at"}
  BY <1>2, <1>3 DEF Typed
<1>5. /\ DOMAIN v = {"op", "id", "saw", "stage", "brief", "rows", "locks", "at"}
      /\ v.op = t.op /\ v.id = t.id /\ v.saw = t.saw /\ v.brief = t.brief /\ v.rows = t.rows
      /\ v.locks = {kind} \X t.rows
  BY <1>4
<1> HIDE DEF v
<1>6. Typed(v)
  BY <1>1, <1>2, <1>3, <1>5 DEF Typed
<1>7. Current(v)
  BY <1>2, <1>3, <1>5 DEF Current
<1>8. QED
  BY <1>1, <1>2, <1>5, <1>6, <1>7, AdvanceStory

-----------------------------------------------------------------------------
(* Plans.                                                                  *)

LEMMA PlansProposedInv ==
    ASSUME StoryInv, NEW s \in Sessions, S!PlansProposed(s)
    PROVE  StoryInv'
<1>1. PICK t : t = storyTx[s]
  OBVIOUS
<1> DEFINE v == [t EXCEPT !.op = "round", !.rows = S!Selected]
<1>2. t.op = "plans" /\ t.at = "read" /\ Typed(t) /\ S!Advance(s, v)
  BY <1>1 DEF StoryInv, S!PlansProposed
<1>3. DOMAIN t = {"op", "id", "saw", "stage", "brief", "rows", "locks", "at"} /\ t.brief \in Durations
  BY <1>2 DEF Typed
<1>4. /\ DOMAIN v = {"op", "id", "saw", "stage", "brief", "rows", "locks", "at"}
      /\ v.op = "round" /\ v.saw = t.saw /\ v.brief = t.brief /\ v.rows = S!Selected /\ v.at = "read"
  BY <1>2, <1>3
<1> HIDE DEF v
<1>5. Typed(v)
  BY <1>3, <1>4 DEF Typed
<1>6. Current(v)
  BY <1>4 DEF Current, S!Selected
<1>7. QED
  BY <1>1, <1>2, <1>4, <1>5, <1>6, AdvanceStory

\* A new round commits.
LEMMA CommitPlansInv ==
    ASSUME StoryInv, NEW s \in Sessions, S!CommitPlans(s)
    PROVE  StoryInv'
<1>1. PICK t : t = storyTx[s]
  OBVIOUS
<1> DEFINE fresh == [i \in 1 .. PlansPerRound |-> FALSE]
           left == S!Cleared(t)
<1>2. /\ t.op = "round" /\ t.at = "locked" /\ Typed(t) /\ Current(t)
      /\ plans' = left \o fresh /\ S!Close(s) /\ chosen' = FALSE
      /\ UNCHANGED <<scripts, boards, accepted>>
      /\ project' = S!Moved(t, "CREATIVE_PLANNING")
  BY <1>1 DEF S!CommitPlans, StoryInv
<1>3. IsSequence(left) /\ DOMAIN left = DOMAIN plans
  <2>1. DOMAIN left = DOMAIN plans /\ left = [p \in DOMAIN plans |-> left[p]]
    BY DEF S!Cleared
  <2> HIDE DEF left
  <2>2. QED
    BY <2>1, RewrittenRows DEF StoryInv, TablesTyped
<1>4. IsSequence(fresh) /\ \A k \in DOMAIN fresh : fresh[k] = FALSE
  BY NumberedRows, StoryAssumption
<1>5. \A p \in DOMAIN plans : left[p] => plans[p] /\ (t.rows # {} => p \notin t.rows)
  BY <1>2 DEF S!Cleared, Typed
<1>6. /\ IsSequence(plans') /\ DOMAIN plans \subseteq DOMAIN plans'
      /\ \A p \in DOMAIN plans : plans'[p] = left[p]
      /\ \A p \in DOMAIN plans' \ DOMAIN plans : \E k \in DOMAIN fresh : plans'[p] = fresh[k]
  <2>1. plans' = left \o fresh
    BY <1>2
  <2> HIDE DEF left, fresh
  <2>2. /\ DOMAIN left \subseteq DOMAIN (left \o fresh)
        /\ \A i \in DOMAIN left : (left \o fresh)[i] = left[i]
        /\ \A i \in DOMAIN (left \o fresh) \ DOMAIN left : \E k \in DOMAIN fresh : (left \o fresh)[i] = fresh[k]
        /\ IsSequence(left \o fresh)
    BY <1>3, <1>4, ConcatRows
  <2>3. QED
    BY <1>3, <2>1, <2>2
<1>7. \A p \in DOMAIN plans' : plans'[p] => p \in DOMAIN plans /\ plans[p] /\ p \notin t.rows
  BY <1>4, <1>5, <1>6
<1>8. DOMAIN project' = {"status", "duration"} /\ project'.duration \in Durations /\ UNCHANGED raced
  BY <1>2, CloseStory DEF S!Moved, StoryInv, TablesTyped
<1>9. TablesTyped'
  BY <1>2, <1>6, <1>8 DEF StoryInv, TablesTyped
<1>10. Kept'
  <2>1. "choice" \notin raced' => \A p \in DOMAIN plans' : ~plans'[p]
    BY <1>2, <1>7, <1>8 DEF Current
  <2>2. QED
    BY <1>2, <1>8, <2>1 DEF StoryInv, Kept, S!Approved, ApprovedBoards
<1>11. ASSUME NEW u, Typed(u), Current(u)
       PROVE  Typed(u)' /\ Current(u)'
  <2>1. Typed(u)'
    BY <1>2, <1>6, <1>11 DEF Typed
  <2>2. Current(u)'
    BY <1>2, <1>7, <1>8, <1>11 DEF Current
  <2>3. QED
    BY <2>1, <2>2
<1>12. QED
  BY <1>2, <1>9, <1>10, <1>11, CommitStory

LEMMA CommitSelectInv ==
    ASSUME StoryInv, NEW s \in Sessions, S!CommitSelect(s)
    PROVE  StoryInv'
<1>1. PICK t : t = storyTx[s]
  OBVIOUS
<1> DEFINE p == t.id[1]
           left == S!Cleared(t)
<1>2. /\ t.op = "select" /\ Typed(t) /\ {q \in DOMAIN plans : left[q]} \subseteq {p}
      /\ plans' = [left EXCEPT ![p] = TRUE] /\ chosen' = TRUE /\ S!Close(s)
      /\ UNCHANGED <<project, scripts, boards, accepted>>
  BY <1>1 DEF S!CommitSelect, StoryInv
<1>3. DOMAIN left = DOMAIN plans /\ p \in DOMAIN plans
  BY <1>2 DEF S!Cleared, Typed
<1> HIDE DEF left
<1>4. DOMAIN plans' = DOMAIN plans /\ plans'[p] = TRUE /\ \A q \in DOMAIN plans : plans'[q] => q = p
  BY <1>2, <1>3
<1>5. IsSequence(plans')
  <2>1. plans' = [q \in DOMAIN plans |-> plans'[q]]
    BY <1>2, <1>3
  <2>2. QED
    BY <2>1, RewrittenRows DEF StoryInv, TablesTyped
<1>6. UNCHANGED raced
  BY <1>2, CloseStory
<1>7. TablesTyped'
  BY <1>2, <1>5 DEF StoryInv, TablesTyped
<1>8. Kept'
  <2>1. S!Selected' = {p}
    BY <1>3, <1>4 DEF S!Selected
  <2>2. Single(S!Selected)'
    BY <2>1 DEF Single
  <2>3. QED
    BY <1>2, <1>6, <2>2 DEF StoryInv, Kept, S!Approved, ApprovedBoards
<1>9. ASSUME NEW o \in Sessions \ {s}, NEW u, u = storyTx[o], Typed(u), Current(u)
      PROVE  Typed(u)' /\ Current(u)'
  <2>1. Typed(u)'
    BY <1>2, <1>4, <1>9 DEF Typed
  <2>2. u.op = "round" => "choice" \in raced
    <3>1. u.op = "round" => {u.op, t.op} = {"round", "select"}
      BY <1>2
    <3>2. S!Spoiled(u, t) \subseteq raced
      BY <1>1, <1>9 DEF StoryInv, SpoiledIsRaced
    <3>3. QED
      BY <3>1, <3>2, SpoiledOf
  <2>3. Current(u)'
    BY <1>2, <1>6, <1>9, <2>2 DEF Current
  <2>4. QED
    BY <2>1, <2>3
<1>10. QED
  BY <1>2, <1>7, <1>8, <1>9, CommitStory

-----------------------------------------------------------------------------
(* Scripts.                                                                *)

LEMMA CommitScriptInv ==
    ASSUME StoryInv, NEW s \in Sessions, S!CommitScript(s)
    PROVE  StoryInv'
<1>1. /\ scripts' = Append(scripts, "DRAFT") /\ S!Close(s) /\ UNCHANGED <<plans, boards, chosen, accepted>>
      /\ project' = S!MovedFrom(storyTx[s], "CREATIVE_PLANNING", "SCRIPTING")
  BY DEF S!CommitScript
<1>2. PICK new : /\ DOMAIN scripts' = DOMAIN scripts \cup {new} /\ new \notin DOMAIN scripts
                 /\ \A v \in DOMAIN scripts : scripts'[v] = scripts[v]
                 /\ scripts'[new] = "DRAFT" /\ IsSequence(scripts')
  BY <1>1, AppendRow DEF StoryInv, TablesTyped
<1>3. S!Approved(scripts') = S!Approved(scripts)
  BY <1>2 DEF S!Approved
<1>4. DOMAIN project' = {"status", "duration"} /\ project'.duration \in Durations /\ UNCHANGED raced
  BY <1>1, CloseStory DEF S!MovedFrom, S!Moved, StoryInv, TablesTyped
<1>5. TablesTyped'
  BY <1>1, <1>2, <1>4 DEF StoryInv, TablesTyped
<1>6. Kept'
  BY <1>1, <1>3, <1>4 DEF StoryInv, Kept, S!Selected, ApprovedBoards
<1>7. ASSUME NEW u, Typed(u), Current(u)
      PROVE  Typed(u)' /\ Current(u)'
  <2>1. Typed(u)'
    BY <1>1, <1>2, <1>7 DEF Typed
  <2>2. Current(u)'
    BY <1>1, <1>2, <1>4, <1>7 DEF Typed, Current
  <2>3. QED
    BY <2>1, <2>2
<1>8. QED
  BY <1>1, <1>5, <1>6, <1>7, CommitStory

\* What an approval leaves of the documents of a kind: its own is approved.
LEMMA ApprovalOf ==
    ASSUME NEW t, NEW kind, NEW table, t.locks = {kind} \X t.rows, t.id[1] \in DOMAIN table \ t.rows,
           t.saw.status = "APPROVED" => table[t.id[1]] = "APPROVED"
    PROVE  /\ DOMAIN S!AfterApproval(t, kind, table) = DOMAIN table
           /\ t.id[1] \in S!Approved(S!AfterApproval(t, kind, table))
<1>1. DOMAIN S!AfterApproval(t, kind, table) = DOMAIN table
  BY DEF S!AfterApproval
<1>2. <<kind, t.id[1]>> \notin t.locks
  OBVIOUS
<1>3. S!AfterApproval(t, kind, table)[t.id[1]] = "APPROVED"
  BY <1>2 DEF S!AfterApproval
<1>4. QED
  BY <1>1, <1>3 DEF S!Approved

LEMMA CommitApprovalInv ==
    ASSUME StoryInv, NEW s \in Sessions, S!CommitApproval(s)
    PROVE  StoryInv'
<1>1. PICK t : t = storyTx[s]
  OBVIOUS
<1> DEFINE after == S!AfterApproval(t, "script", scripts)
<1>2. /\ t.op = "approve" /\ t.at = "locked" /\ Typed(t) /\ Current(t)
      /\ S!Cardinality(S!Approved(after)) <= 1 /\ scripts' = after
      /\ project' = S!MovedFrom(t, "SCRIPTING", "STORYBOARDING")
      /\ accepted' = accepted \cup {"script"}
      /\ S!Close(s) /\ UNCHANGED <<plans, boards, chosen>>
  BY <1>1 DEF S!CommitApproval, StoryInv
<1>3. DOMAIN after = DOMAIN scripts /\ after = [v \in DOMAIN scripts |-> after[v]]
  BY DEF S!AfterApproval
<1>4. "scripts" \notin raced => t.id[1] \in S!Approved(after)
  BY <1>2, ApprovalOf DEF Typed, Current
<1> HIDE DEF after
<1>5. IsSequence(after)
  BY <1>3, RewrittenRows DEF StoryInv, TablesTyped
<1>6. "scripts" \notin raced => Single(S!Approved(scripts'))
  <2>1. S!Approved(after) \in SUBSET DOMAIN after
    BY DEF S!Approved
  <2>2. QED
    BY <1>2, <1>4, <1>5, <2>1, CountSingle
<1>7. DOMAIN project' = {"status", "duration"} /\ project'.duration \in Durations /\ UNCHANGED raced
  BY <1>2, CloseStory DEF S!MovedFrom, S!Moved, StoryInv, TablesTyped
<1>8. TablesTyped'
  BY <1>2, <1>5, <1>7 DEF StoryInv, TablesTyped
<1>9. Kept'
  BY <1>2, <1>6, <1>7 DEF StoryInv, Kept, S!Selected, ApprovedBoards
<1>10. ASSUME NEW o \in Sessions \ {s}, NEW u, u = storyTx[o], Typed(u), Current(u)
       PROVE  Typed(u)' /\ Current(u)'
  <2>1. Typed(u)'
    BY <1>2, <1>3, <1>10 DEF Typed
  <2>2. u.op = "approve" /\ u.saw.status = "APPROVED" => "scripts" \in raced
    <3>1. S!Spoiled(u, t) \subseteq raced
      BY <1>1, <1>10 DEF StoryInv, SpoiledIsRaced
    <3>2. QED
      BY <1>2, <3>1, SpoiledOf
  <2>3. Current(u)'
    BY <1>2, <1>7, <1>10, <2>2 DEF Current
  <2>4. QED
    BY <2>1, <2>3
<1>11. QED
  BY <1>2, <1>8, <1>9, <1>10, CommitStory

-----------------------------------------------------------------------------
(* Storyboards.                                                            *)

LEMMA CommitBoardInv ==
    ASSUME StoryInv, NEW s \in Sessions, S!CommitBoard(s)
    PROVE  StoryInv'
<1>1. PICK t : t = storyTx[s]
  OBVIOUS
<1>0. PICK shots \in S!Fitted(t.brief) : boards' = Append(boards, S!NewBoard(shots))
  BY <1>1 DEF S!CommitBoard
<1> DEFINE row == S!NewBoard(shots)
<1>2. /\ t.op = "board" /\ Typed(t) /\ boards' = Append(boards, row)
      /\ S!Close(s) /\ UNCHANGED <<plans, scripts, chosen, accepted>>
      /\ project' = S!MovedFrom(t, "SCRIPTING", "STORYBOARDING")
  BY <1>0, <1>1 DEF S!CommitBoard, StoryInv
<1>3. DOMAIN row = {"status", "total", "shots"} /\ row.status = "DRAFT" /\ row.total = S!Total(row.shots)
  BY DEF S!NewBoard
<1> HIDE DEF row
<1>4. PICK new : /\ DOMAIN boards' = DOMAIN boards \cup {new} /\ new \notin DOMAIN boards
                 /\ \A b \in DOMAIN boards : boards'[b] = boards[b]
                 /\ boards'[new] = row /\ IsSequence(boards')
  BY <1>2, AppendRow DEF StoryInv, TablesTyped
<1>5. ApprovedBoards' = ApprovedBoards
  BY <1>3, <1>4 DEF ApprovedBoards
<1>6. DOMAIN project' = {"status", "duration"} /\ project'.duration \in Durations /\ UNCHANGED raced
  BY <1>2, CloseStory DEF S!MovedFrom, S!Moved, StoryInv, TablesTyped
<1>7. TablesTyped'
  BY <1>2, <1>3, <1>4, <1>6 DEF StoryInv, TablesTyped
<1>8. Kept'
  BY <1>2, <1>3, <1>4, <1>5, <1>6 DEF StoryInv, Kept, S!Selected, S!Approved
<1>9. ASSUME NEW u, Typed(u), Current(u)
      PROVE  Typed(u)' /\ Current(u)'
  <2>1. Typed(u)'
    BY <1>2, <1>4, <1>9 DEF Typed
  <2>2. Current(u)'
    BY <1>2, <1>4, <1>6, <1>9 DEF Typed, Current
  <2>3. QED
    BY <2>1, <2>2
<1>10. QED
  BY <1>2, <1>7, <1>8, <1>9, CommitStory

\* The shot is flushed, and the total is that of the shots as they will be.
LEMMA FlushShotInv ==
    ASSUME StoryInv, NEW s \in Sessions, S!FlushShot(s)
    PROVE  StoryInv'
<1>1. PICK t : t = storyTx[s]
  OBVIOUS
<1> DEFINE total == S!Total([boards[t.id[1]].shots EXCEPT ![t.id[2]] = t.id[3]])
           locked == {<<"shot", <<t.id[1], t.id[2]>> >>}
           v == [t EXCEPT !.at = "locked", !.locks = locked, !.rows = {total}]
<1>2. t.op = "shot" /\ t.at = "read" /\ Typed(t) /\ Current(t) /\ S!Advance(s, v)
  BY <1>1 DEF StoryInv, S!FlushShot
<1>3. DOMAIN t = {"op", "id", "saw", "stage", "brief", "rows", "locks", "at"} /\ t.brief \in Durations
  BY <1>2 DEF Typed
<1>4. /\ DOMAIN v = {"op", "id", "saw", "stage", "brief", "rows", "locks", "at"}
      /\ v.op = "shot" /\ v.id = t.id /\ v.saw = t.saw /\ v.brief = t.brief
      /\ v.rows = {total} /\ v.at = "locked"
  BY <1>2, <1>3
<1> HIDE DEF v
<1>5. Typed(v)
  BY <1>2, <1>3, <1>4 DEF Typed
<1>6. Current(v)
  BY <1>2, <1>4 DEF Current
<1>7. QED
  BY <1>1, <1>2, <1>4, <1>5, <1>6, AdvanceStory

LEMMA CommitShotInv ==
    ASSUME StoryInv, NEW s \in Sessions, S!CommitShot(s)
    PROVE  StoryInv'
<1>1. PICK t : t = storyTx[s]
  OBVIOUS
<1> DEFINE b == t.id[1]
           i == t.id[2]
           d == t.id[3]
           total == CHOOSE n \in t.rows : TRUE
<1>2. /\ t.op = "shot" /\ t.at = "locked" /\ Typed(t) /\ Current(t)
      /\ S!Close(s) /\ UNCHANGED <<project, plans, scripts, chosen, accepted>>
      /\ boards' = [boards EXCEPT ![b].shots[i] = IF t.saw.shots[i] = d THEN @ ELSE d,
                                  ![b].total = IF t.saw.total = total THEN @ ELSE total]
  BY <1>1 DEF S!CommitShot, StoryInv
<1>3. b \in DOMAIN boards /\ DOMAIN boards[b] = {"status", "total", "shots"}
  BY <1>2 DEF Typed, StoryInv, TablesTyped
<1> HIDE DEF total
<1>4. /\ DOMAIN boards' = DOMAIN boards
      /\ \A c \in DOMAIN boards \ {b} : boards'[c] = boards[c]
  BY <1>2, <1>3
<1>5. /\ DOMAIN boards'[b] = {"status", "total", "shots"} /\ boards'[b].status = boards[b].status
      /\ boards'[b].total = IF t.saw.total = total THEN boards[b].total ELSE total
      /\ boards'[b].shots = [boards[b].shots EXCEPT ![i] = IF t.saw.shots[i] = d THEN boards[b].shots[i] ELSE d]
  BY <1>2, <1>3
<1>6. "totals" \notin raced => boards'[b].total = S!Total(boards'[b].shots)
  <2>1. SUFFICES ASSUME "totals" \notin raced
                 PROVE  boards'[b].total = S!Total(boards'[b].shots)
    OBVIOUS
  <2>2. t.saw = boards[b] /\ t.rows = {S!Total([boards[b].shots EXCEPT ![i] = d])}
    BY <1>2, <2>1 DEF Current
  <2>3. total = S!Total([boards[b].shots EXCEPT ![i] = d])
    BY <2>2, ChosenAlone DEF total
  <2>4. boards'[b].shots = [boards[b].shots EXCEPT ![i] = d]
    BY <1>5, <2>2
  <2>5. QED
    BY <1>5, <2>2, <2>3, <2>4
<1>7. \A c \in DOMAIN boards : boards'[c].status = boards[c].status
  BY <1>4, <1>5
<1>8. IsSequence(boards')
  <2>1. boards' = [c \in DOMAIN boards |-> boards'[c]]
    BY <1>2
  <2>2. QED
    BY <2>1, RewrittenRows DEF StoryInv, TablesTyped
<1>9. ApprovedBoards' = ApprovedBoards /\ UNCHANGED raced
  <2>1. UNCHANGED raced
    BY <1>2, CloseStory
  <2>2. ApprovedBoards' = ApprovedBoards
    BY <1>4, <1>7 DEF ApprovedBoards
  <2>3. QED
    BY <2>1, <2>2
<1>10. TablesTyped'
  BY <1>2, <1>4, <1>5, <1>8 DEF StoryInv, TablesTyped
<1>11. Kept'
  BY <1>2, <1>4, <1>6, <1>9 DEF StoryInv, Kept, S!Selected, S!Approved
<1>12. ASSUME NEW o \in Sessions \ {s}, NEW u, u = storyTx[o], Typed(u), Current(u)
       PROVE  Typed(u)' /\ Current(u)'
  <2>1. Typed(u)'
    BY <1>2, <1>4, <1>12 DEF Typed
  <2>2. u.op \in {"shot", "accept"} => "totals" \in raced
    <3>1. S!Spoiled(u, t) \subseteq raced
      BY <1>1, <1>12 DEF StoryInv, SpoiledIsRaced
    <3>2. QED
      BY <1>2, <3>1, SpoiledOf
  <2>3. Current(u)'
    BY <1>2, <1>4, <1>7, <1>9, <1>12, <2>2 DEF Current, Typed
  <2>4. QED
    BY <2>1, <2>3
<1>13. QED
  BY <1>2, <1>10, <1>11, <1>12, CommitStory

LEMMA CommitBoardApprovalInv ==
    ASSUME StoryInv, NEW s \in Sessions, S!CommitBoardApproval(s)
    PROVE  StoryInv'
<1>1. PICK t : t = storyTx[s]
  OBVIOUS
<1> DEFINE after == S!AfterApproval(t, "board", S!BoardStatus)
<1>2. /\ t.op = "accept" /\ t.at = "locked" /\ Typed(t) /\ Current(t)
      /\ S!Cardinality(S!Approved(after)) <= 1
      /\ boards' = [b \in DOMAIN boards |-> [boards[b] EXCEPT !.status = after[b],
              !.total = IF b = t.id[1] /\ t.saw.sum # t.saw.total THEN t.saw.sum ELSE @]]
      /\ accepted' = accepted \cup {"board"}
      /\ S!Close(s) /\ UNCHANGED <<project, plans, scripts, chosen>>
  BY <1>1 DEF S!CommitBoardApproval, StoryInv
<1>3. DOMAIN S!BoardStatus = DOMAIN boards /\ \A b \in DOMAIN boards : S!BoardStatus[b] = boards[b].status
  BY DEF S!BoardStatus
<1>4. DOMAIN after = DOMAIN boards
  BY <1>3 DEF S!AfterApproval
<1>5. "boards" \notin raced => t.id[1] \in S!Approved(after)
  BY <1>2, <1>3, ApprovalOf DEF Typed, Current
<1> HIDE DEF after
<1>6. /\ DOMAIN boards' = DOMAIN boards
      /\ \A b \in DOMAIN boards :
            /\ DOMAIN boards'[b] = {"status", "total", "shots"}
            /\ boards'[b].status = after[b] /\ boards'[b].shots = boards[b].shots
            /\ t.saw.sum = t.saw.total => boards'[b].total = boards[b].total
  <2>1. \A b \in DOMAIN boards : DOMAIN boards[b] = {"status", "total", "shots"}
    BY DEF StoryInv, TablesTyped
  <2>2. QED
    BY <1>2, <2>1
<1>7. IsSequence(boards')
  <2>1. boards' = [b \in DOMAIN boards |-> boards'[b]]
    BY <1>2
  <2>2. QED
    BY <2>1, RewrittenRows DEF StoryInv, TablesTyped
<1>8. ApprovedBoards' = S!Approved(after)
  BY <1>4, <1>6 DEF ApprovedBoards, S!Approved
<1>9. "boards" \notin raced => Single(ApprovedBoards')
  <2>1. S!Approved(after) \in SUBSET DOMAIN boards
    BY <1>4 DEF S!Approved
  <2>2. QED
    BY <1>2, <1>5, <1>8, <2>1, CountSingle DEF StoryInv, TablesTyped
<1>10. UNCHANGED raced
  BY <1>2, CloseStory
<1>11. TablesTyped'
  BY <1>2, <1>6, <1>7 DEF StoryInv, TablesTyped
<1>12. Kept'
  <2>1. ASSUME "totals" \notin raced, NEW b \in DOMAIN boards'
        PROVE  boards'[b].total = S!Total(boards'[b].shots)
    <3>1. b \in DOMAIN boards /\ boards'[b].shots = boards[b].shots
      BY <1>6
    <3>2. t.saw.sum = t.saw.total
      BY <1>2, <2>1 DEF Current
    <3>3. boards'[b].total = boards[b].total
      BY <1>6, <3>1, <3>2
    <3>4. boards[b].total = S!Total(boards[b].shots)
      BY <2>1, <3>1 DEF StoryInv, Kept
    <3> QED
      BY <3>1, <3>3, <3>4
  <2>2. Single(ApprovedBoards') => Single(ApprovedBoards)'
    BY DEF Single
  <2>3. QED
    BY <1>2, <1>9, <1>10, <2>1, <2>2 DEF StoryInv, Kept, S!Selected, S!Approved
<1>13. ASSUME NEW o \in Sessions \ {s}, NEW u, u = storyTx[o], Typed(u), Current(u)
       PROVE  Typed(u)' /\ Current(u)'
  <2>1. Typed(u)'
    BY <1>2, <1>6, <1>13 DEF Typed
  <2>2. S!Spoiled(u, t) \subseteq raced
    BY <1>1, <1>13 DEF StoryInv, SpoiledIsRaced
  <2>3. /\ u.op = "accept" /\ u.saw.status = "APPROVED" => "boards" \in raced
        /\ u.op \in {"shot", "accept"} => "totals" \in raced
    BY <1>2, <2>2, SpoiledOf
  <2>4. Current(u)'
    BY <1>2, <1>10, <1>13, <2>3 DEF Current
  <2>5. QED
    BY <2>1, <2>4
<1>14. QED
  BY <1>2, <1>11, <1>12, <1>13, CommitStory

-----------------------------------------------------------------------------
LEMMA ShortSequences ==
    /\ IsSequence(<<>>) /\ DOMAIN <<>> = {}
    /\ \A x : IsSequence(<<x>>) /\ DOMAIN <<x>> = {1}
    /\ \A x, y : IsSequence(<<x, y>>) /\ DOMAIN <<x, y>> = {1, 2}
<1>1. DOMAIN <<>> = {} /\ (\A x : DOMAIN <<x>> = {1}) /\ (\A x, y : DOMAIN <<x, y>> = {1, 2})
  OBVIOUS
<1>2. IsSequence(<<>>)
  BY DEF IsSequence
<1>3. ASSUME NEW x
      PROVE  IsSequence(<<x>>)
  <2>1. <<x>> \in Seq({x})
    OBVIOUS
  <2>2. {<<x>>[i] : i \in DOMAIN <<x>>} = {x}
    OBVIOUS
  <2>3. QED
    BY <2>1, <2>2 DEF IsSequence
<1>4. ASSUME NEW x, NEW y
      PROVE  IsSequence(<<x, y>>)
  <2>1. <<x, y>> \in Seq({x, y})
    OBVIOUS
  <2>2. {<<x, y>>[i] : i \in DOMAIN <<x, y>>} = {x, y}
    OBVIOUS
  <2>3. QED
    BY <2>1, <2>2 DEF IsSequence
<1>5. QED
  BY <1>1, <1>2, <1>3, <1>4

LEMMA StoryInit == S!Init => StoryInv
<1> SUFFICES ASSUME S!Init
             PROVE  StoryInv
  OBVIOUS
<1> DEFINE first == <<TRUE, FALSE>>
           script == <<"DRAFT">>
           versions == <<"APPROVED", "DRAFT">>
           pair(shots) == <<[S!NewBoard(shots) EXCEPT !.status = "APPROVED"], S!NewBoard(shots)>>
<1>1. /\ storyTx = [s \in Sessions |-> S!Idle] /\ raced = {}
      /\ S!Idle.op = "none"
  BY DEF S!Init, S!Idle
<1>2. DOMAIN storyTx = Sessions /\ \A s \in Sessions : Typed(storyTx[s]) /\ Current(storyTx[s])
  BY <1>1 DEF Typed, Current
<1>3. SpoiledIsRaced
  BY <1>1, SpoiledIdle DEF SpoiledIsRaced
<1>4. \A shots :
         LET new == S!NewBoard(shots)
             approved == [new EXCEPT !.status = "APPROVED"]
         IN  /\ DOMAIN new = {"status", "total", "shots"} /\ new.status = "DRAFT"
             /\ new.total = S!Total(new.shots)
             /\ DOMAIN approved = {"status", "total", "shots"} /\ approved.status = "APPROVED"
             /\ approved.total = S!Total(approved.shots)
  BY DEF S!NewBoard
<1>5. PICK d \in Durations : \E shots :
        \/ /\ project = [status |-> "DRAFT", duration |-> d]
           /\ plans = <<>> /\ scripts = <<>> /\ boards = <<>>
           /\ chosen = FALSE /\ accepted = {}
        \/ /\ project = [status |-> "SCRIPTING", duration |-> d]
           /\ plans = first /\ scripts = script /\ boards = <<>>
           /\ chosen = TRUE /\ accepted = {}
        \/ /\ project = [status |-> "STORYBOARDING", duration |-> d]
           /\ plans = first /\ scripts = versions /\ boards = pair(shots)
           /\ chosen = TRUE /\ accepted = {"script", "board"}
  BY DEF S!Init
<1>6. IsSequence(first) /\ DOMAIN first = {1, 2} /\ first[1] = TRUE /\ first[2] = FALSE
  BY ShortSequences
<1>7. /\ IsSequence(script)
      /\ IsSequence(versions) /\ DOMAIN versions = {1, 2} /\ versions[1] = "APPROVED" /\ versions[2] = "DRAFT"
  BY ShortSequences
<1>8. \A shots : IsSequence(pair(shots)) /\ DOMAIN pair(shots) = {1, 2}
  BY ShortSequences
<1> HIDE DEF first, script, versions, pair
<1>9. IsSequence(plans) /\ IsSequence(scripts) /\ IsSequence(boards)
  BY <1>5, <1>6, <1>7, <1>8, ShortSequences
<1>10. DOMAIN project = {"status", "duration"} /\ project.duration \in Durations
  BY <1>5
<1>11. CASE boards = <<>>
  <2>1. TablesTyped
    BY <1>9, <1>10, <1>11, ShortSequences DEF TablesTyped
  <2>2. chosen => S!Selected = {1}
    BY <1>5, <1>6 DEF S!Selected
  <2>3. ~chosen => DOMAIN plans = {}
    BY <1>5
  <2>4. accepted = {}
    BY <1>5, <1>11, <1>8, ShortSequences
  <2>5. Kept
    BY <1>11, <2>2, <2>3, <2>4, ShortSequences DEF Kept, Single
  <2>6. QED
    BY <1>2, <1>3, <2>1, <2>5 DEF StoryInv
<1>12. CASE boards # <<>>
  <2>0. PICK shots : boards = pair(shots)
    BY <1>5, <1>12
  <2> DEFINE new == S!NewBoard(shots)
             approved == [new EXCEPT !.status = "APPROVED"]
  <2>1. /\ plans = first /\ scripts = versions /\ boards = <<approved, new>> /\ chosen = TRUE
    BY <1>5, <1>12, <2>0 DEF pair
  <2>2. /\ DOMAIN new = {"status", "total", "shots"} /\ new.status = "DRAFT"
        /\ new.total = S!Total(new.shots)
        /\ DOMAIN approved = {"status", "total", "shots"} /\ approved.status = "APPROVED"
        /\ approved.total = S!Total(approved.shots)
    BY <1>4
  <2> HIDE DEF new, approved
  <2>3. DOMAIN boards = {1, 2} /\ boards[1] = approved /\ boards[2] = new
    BY <2>1
  <2>4. TablesTyped
    BY <1>9, <1>10, <2>2, <2>3 DEF TablesTyped
  <2>5. S!Selected = {1} /\ S!Approved(scripts) = {1}
    BY <2>1, <1>6, <1>7 DEF S!Selected, S!Approved
  <2>6. ApprovedBoards = {1}
    BY <2>2, <2>3 DEF ApprovedBoards
  <2>7. Kept
    BY <2>1, <2>2, <2>3, <2>5, <2>6 DEF Kept, Single
  <2>8. QED
    BY <1>2, <1>3, <2>4, <2>7 DEF StoryInv
<1>13. QED
  BY <1>11, <1>12

LEMMA StoryNext ==
    ASSUME StoryInv, [S!Next]_S!vars
    PROVE  StoryInv'
<1>1. ASSUME NEW s \in Sessions, S!GeneratePlans(s) \/ S!GenerateScript(s) \/ S!ReviseScript(s)
                                 \/ S!GenerateBoard(s) \/ S!Archive(s)
      PROVE  StoryInv'
  BY <1>1, OpenStory DEF S!GeneratePlans, S!GenerateScript, S!ReviseScript, S!GenerateBoard, S!Archive
<1>2. ASSUME NEW s \in Sessions, NEW p \in DOMAIN plans, S!SelectPlan(s, p)
      PROVE  StoryInv'
  <2>1. S!Open(s, "select", <<p>>, [selected |-> plans[p]], S!Selected) /\ <<p>>[1] = p
    BY <1>2 DEF S!SelectPlan
  <2>2. QED
    BY <2>1, OpenStory
<1>3. ASSUME NEW s \in Sessions, NEW v \in DOMAIN scripts, S!ApproveScript(s, v)
      PROVE  StoryInv'
  <2> DEFINE saw == [status |-> scripts[v]]
  <2>1. S!Open(s, "approve", <<v>>, saw, S!Others(scripts, v)) /\ <<v>>[1] = v
    BY <1>3 DEF S!ApproveScript
  <2>2. saw.status = scripts[v] /\ v \notin S!Others(scripts, v)
    BY DEF S!Others
  <2> HIDE DEF saw
  <2>3. QED
    BY <2>1, <2>2, OpenStory
<1>4. ASSUME NEW s \in Sessions, NEW b \in DOMAIN boards, NEW i \in 1 .. ShotsPerBoard, NEW d \in ShotDurations,
             S!UpdateShot(s, b, i, d)
      PROVE  StoryInv'
  <2>1. S!Open(s, "shot", <<b, i, d>>, boards[b], {}) /\ <<b, i, d>>[1] = b
    BY <1>4 DEF S!UpdateShot
  <2>2. QED
    BY <2>1, OpenStory
<1>5. ASSUME NEW s \in Sessions, NEW b \in DOMAIN boards, S!ApproveBoard(s, b)
      PROVE  StoryInv'
  <2> DEFINE saw == [status |-> boards[b].status, total |-> boards[b].total, sum |-> S!Total(boards[b].shots)]
  <2>1. S!Open(s, "accept", <<b>>, saw, S!Others(S!BoardStatus, b)) /\ <<b>>[1] = b
    BY <1>5 DEF S!ApproveBoard
  <2>2. /\ saw.status = boards[b].status /\ saw.total = boards[b].total /\ saw.sum = S!Total(boards[b].shots)
        /\ b \notin S!Others(S!BoardStatus, b)
    BY DEF S!Others
  <2> HIDE DEF saw
  <2>3. QED
    BY <2>1, <2>2, OpenStory
<1>6. ASSUME NEW s \in Sessions, NEW d \in Durations, S!UpdateBrief(s, d)
      PROVE  StoryInv'
  <2>1. S!Open(s, "brief", <<d>>, S!Nothing, {}) /\ <<d>>[1] = d
    BY <1>6 DEF S!UpdateBrief
  <2>2. QED
    BY <2>1, OpenStory
<1>7. ASSUME NEW s \in Sessions, S!LockPlans(s) \/ S!LockScripts(s) \/ S!LockBoards(s)
      PROVE  StoryInv'
  BY <1>7, LockStory DEF S!LockPlans, S!LockScripts, S!LockBoards
<1>8. ASSUME NEW s \in Sessions, S!CommitBrief(s) \/ S!CommitArchive(s) \/ S!Rollback(s)
      PROVE  StoryInv'
  <2>1. DOMAIN project' = {"status", "duration"} /\ project'.duration \in Durations
    <3>1. DOMAIN project = {"status", "duration"} /\ project.duration \in Durations
      BY DEF StoryInv, TablesTyped
    <3>2. CASE S!CommitBrief(s)
      <4>1. storyTx[s].id[1] \in Durations
        BY <3>2 DEF S!CommitBrief, StoryInv, Typed
      <4>2. QED
        BY <3>1, <3>2, <4>1 DEF S!CommitBrief
    <3>3. CASE S!CommitArchive(s)
      BY <3>1, <3>3 DEF S!CommitArchive, S!Moved
    <3>4. CASE S!Rollback(s)
      BY <3>1, <3>4 DEF S!Rollback, S!tables
    <3>5. QED
      BY <1>8, <3>2, <3>3, <3>4
  <2>2. /\ storyTx' = [storyTx EXCEPT ![s] = S!Idle]
        /\ UNCHANGED <<plans, scripts, boards, chosen, accepted, raced>>
    BY <1>8 DEF S!CommitBrief, S!CommitArchive, S!Rollback, S!Close, S!tables
  <2>3. S!Idle.op = "none"
    BY DEF S!Idle
  <2>4. Typed(S!Idle) /\ Current(S!Idle)
    BY <2>3 DEF Typed, Current
  <2>5. \A o \in Sessions \ {s} : S!Spoiled(S!Idle, storyTx[o]) = {}
    BY <2>3, SpoiledIdle
  <2>6. QED
    BY <2>1, <2>2, <2>4, <2>5, TurnStory
<1>9. CASE UNCHANGED S!vars
  <2>1. UNCHANGED <<project, plans, scripts, boards, storyTx, chosen, accepted, raced>>
    BY <1>9 DEF S!vars
  <2>2. ASSUME NEW s \in Sessions
        PROVE  Typed(storyTx[s])' /\ Current(storyTx[s])'
    <3>1. PICK u : u = storyTx[s]
      OBVIOUS
    <3>2. Typed(u)' /\ Current(u)'
      BY <2>1, <3>1, StillCurrent DEF StoryInv
    <3>3. QED
      BY <2>1, <3>1, <3>2
  <2>3. TablesTyped' /\ SpoiledIsRaced' /\ Kept'
    <3>1. TablesTyped'
      BY <2>1 DEF StoryInv, TablesTyped, IsSequence
    <3>2. SpoiledIsRaced'
      <4> SUFFICES ASSUME NEW o \in Sessions, NEW p \in Sessions, o # p
                   PROVE  S!Spoiled(storyTx'[o], storyTx'[p]) \subseteq raced'
        BY DEF SpoiledIsRaced, S!Spoiled
      <4>1. QED
        BY <2>1 DEF StoryInv, SpoiledIsRaced
    <3>3. Kept'
      BY <2>1 DEF StoryInv, Kept, S!Selected, S!Approved, ApprovedBoards
    <3>4. QED
      BY <3>1, <3>2, <3>3
  <2>4. QED
    BY <2>1, <2>2, <2>3 DEF StoryInv
<1>10. QED
  BY <1>1, <1>2, <1>3, <1>4, <1>5, <1>6, <1>7, <1>8, <1>9,
     PlansProposedInv, CommitPlansInv, CommitSelectInv, CommitScriptInv, CommitApprovalInv,
     CommitBoardInv, FlushShotInv, CommitShotInv, CommitBoardApprovalInv DEF S!Next

-----------------------------------------------------------------------------
LEMMA StorySteps == [Next]_vars => [S!Next]_S!vars
BY DEF Next, vars, TruthMoves, GoodsMove, StoryMoves, PostMoves, CutMoves, MediaMove, StaffMoves,
       SignMoves, BrandMoves, RouterMoves, story, S!vars

LEMMA StoryInvariant == Spec => []StoryInv
<1>1. Init => StoryInv
  BY StoryInit DEF Init
<1>2. StoryInv /\ [Next]_vars => StoryInv'
  BY StoryNext, StorySteps
<1>3. QED
  BY <1>1, <1>2, PTL DEF Spec

\* select_plan and clear_plan_selection of creative.py over the index
\* uq_creative_plans_selected: selections that overlap leave one plan selected.
THEOREM OnePlanStaysChosen == Spec => []ChoiceKept
<1>1. StoryInv => ChoiceKept
  BY SingleCount DEF StoryInv, Kept, ChoiceKept, S!ChoiceKept
<1>2. QED
  BY <1>1, StoryInvariant, PTL

\* generate_plans clears the selection after the provider answered: a new
\* round starts with no choice, unless somebody selected meanwhile.
THEOREM ARoundStartsUnchosen == Spec => []NewRoundClearsChoice
<1>1. StoryInv => NewRoundClearsChoice
  BY DEF StoryInv, Kept, NewRoundClearsChoice, S!NewRoundClearsChoice, S!Selected
<1>2. QED
  BY <1>1, StoryInvariant, PTL

\* approve of creative.py and of storyboards.py: a project whose script or
\* storyboard was approved has exactly one approved, through new versions and
\* approvals of others.
THEOREM AnApprovalRemains == Spec => []ApprovalKept
<1>1. StoryInv => ApprovalKept
  <2>1. S!Approved(S!BoardStatus) = ApprovedBoards
    BY DEF S!Approved, S!BoardStatus, ApprovedBoards
  <2>2. QED
    BY <2>1, SingleCount DEF StoryInv, Kept, ApprovalKept, S!ApprovalKept
<1>2. QED
  BY <1>1, StoryInvariant, PTL

\* _recompute_total of storyboards.py: after every generation, edit of a shot
\* and approval the total is that of the shots, whatever a total is.
THEOREM TotalsFollowShots == Spec => []TotalIsSum
<1>1. StoryInv => TotalIsSum
  BY DEF StoryInv, Kept, TotalIsSum, S!TotalIsSum
<1>2. QED
  BY <1>1, StoryInvariant, PTL

-----------------------------------------------------------------------------
(* Types.                                                                  *)

\* A storyboard, and what an open request has to write.
BoardTyped(row) ==
    row.status \in S!DocumentStatuses /\ row.total \in Nat /\ row.shots \in [1 .. ShotsPerBoard -> Nat]

RequestTyped(t) ==
    /\ t.op # "none" => t.stage \in S!ProjectStatuses
    /\ t.op = "shot" =>
          /\ t.id[2] \in 1 .. ShotsPerBoard /\ t.id[3] \in Nat
          /\ t.at = "locked" => \E n \in Nat : t.rows = {n}
    /\ t.op = "accept" => t.saw.sum \in Nat

StoryTypes ==
    /\ project \in [status : S!ProjectStatuses, duration : Durations]
    /\ plans \in Seq(BOOLEAN) /\ scripts \in Seq(S!DocumentStatuses)
    /\ \A b \in DOMAIN boards : BoardTyped(boards[b])
    /\ \A s \in Sessions : RequestTyped(storyTx[s])
    /\ storyRequests \in 0 .. MaxRequests.story

\* The statuses that the requests of Story give a project.
LEMMA StagesOf == {"DRAFT", "CREATIVE_PLANNING", "SCRIPTING", "STORYBOARDING", "ARCHIVED"} \subseteq S!ProjectStatuses
<1>1. /\ DOMAIN S!Pipeline = 1 .. 9
      /\ S!Pipeline[1] = "DRAFT" /\ S!Pipeline[3] = "CREATIVE_PLANNING"
      /\ S!Pipeline[4] = "SCRIPTING" /\ S!Pipeline[5] = "STORYBOARDING"
  BY DEF S!Pipeline
<1>2. \A i \in 1 .. 9 : S!Pipeline[i] \in S!Range(S!Pipeline)
  BY <1>1 DEF S!Range
<1>3. 1 \in 1 .. 9 /\ 3 \in 1 .. 9 /\ 4 \in 1 .. 9 /\ 5 \in 1 .. 9
  OBVIOUS
<1>4. {"DRAFT", "CREATIVE_PLANNING", "SCRIPTING", "STORYBOARDING"} \subseteq S!Range(S!Pipeline)
  BY <1>1, <1>2, <1>3
<1> QED
  BY <1>4 DEF S!ProjectStatuses

LEMMA NewBoardTyped ==
    ASSUME NEW d, NEW shots \in S!Fitted(d)
    PROVE  BoardTyped(S!NewBoard(shots)) /\ BoardTyped([S!NewBoard(shots) EXCEPT !.status = "APPROVED"])
BY FittedShots DEF BoardTyped, S!NewBoard, S!DocumentStatuses

\* Rows that are rewritten in place have the type of what is written.
LEMMA RewrittenTyped ==
    ASSUME NEW V, NEW f \in Seq(V), NEW g, DOMAIN g = DOMAIN f, g = [i \in DOMAIN f |-> g[i]],
           \A i \in DOMAIN f : g[i] \in V
    PROVE  g \in Seq(V)
<1>1. DOMAIN f = 1 .. Len(f) /\ Len(f) \in Nat
  BY LenProperties
<1>2. g \in [1 .. Len(f) -> V]
  BY <1>1
<1> QED
  BY <1>1, <1>2, SeqDef

LEMMA StoryTypesInit == S!Init => StoryTypes
<1> SUFFICES ASSUME S!Init PROVE StoryTypes
  OBVIOUS
<1>2. project \in [status : S!ProjectStatuses, duration : Durations]
  <2>1. \E d \in Durations, stage \in {"DRAFT", "SCRIPTING", "STORYBOARDING"} :
           project = [status |-> stage, duration |-> d]
    BY DEF S!Init
  <2> QED
    BY <2>1, StagesOf
<1>3. plans \in Seq(BOOLEAN)
  <2>1. plans = <<>> \/ plans = <<TRUE, FALSE>>
    BY DEF S!Init
  <2>2. <<TRUE, FALSE>> \in Seq(BOOLEAN) /\ <<>> \in Seq(BOOLEAN)
    OBVIOUS
  <2> QED
    BY <2>1, <2>2
<1>4. scripts \in Seq(S!DocumentStatuses)
  <2>1. scripts = <<>> \/ scripts = <<"DRAFT">> \/ scripts = <<"APPROVED", "DRAFT">>
    BY DEF S!Init
  <2>2. <<>> \in Seq(S!DocumentStatuses) /\ <<"DRAFT">> \in Seq(S!DocumentStatuses)
    BY DEF S!DocumentStatuses
  <2>3. <<"APPROVED", "DRAFT">> \in Seq(S!DocumentStatuses)
    BY DEF S!DocumentStatuses
  <2> QED
    BY <2>1, <2>2, <2>3
<1>5. \A b \in DOMAIN boards : BoardTyped(boards[b])
  <2>0. CASE boards = <<>>
    BY <2>0
  <2> SUFFICES ASSUME boards # <<>> PROVE \A b \in DOMAIN boards : BoardTyped(boards[b])
    BY <2>0
  <2>1. PICK d \in Durations : \E shots \in S!Fitted(d) :
           boards = <<[S!NewBoard(shots) EXCEPT !.status = "APPROVED"], S!NewBoard(shots)>>
    BY DEF S!Init
  <2>5. PICK shots \in S!Fitted(d) :
           boards = <<[S!NewBoard(shots) EXCEPT !.status = "APPROVED"], S!NewBoard(shots)>>
    BY <2>1
  <2> DEFINE first == [S!NewBoard(shots) EXCEPT !.status = "APPROVED"]
             second == S!NewBoard(shots)
  <2>2. BoardTyped(first) /\ BoardTyped(second)
    BY NewBoardTyped
  <2> HIDE DEF first, second
  <2>3. boards = <<first, second>>
    BY <2>5 DEF first, second
  <2>4. \A b \in DOMAIN <<first, second>> : BoardTyped(<<first, second>>[b])
    BY <2>2
  <2> QED
    BY <2>3, <2>4
<1>6. \A s \in Sessions : RequestTyped(storyTx[s])
  BY DEF S!Init, S!Idle, RequestTyped
<1>7. storyRequests \in 0 .. MaxRequests.story
  BY BoundsAssumption DEF S!Init, BoundsAssumption
<1> QED
  BY <1>2, <1>3, <1>4, <1>5, <1>6, <1>7 DEF StoryTypes

\* A request takes its next step: what it writes is typed, and so is what it
\* keeps.
LEMMA TurnTypes ==
    ASSUME StoryTypes, StoryInv, NEW s \in Sessions, NEW t, RequestTyped(t),
           storyTx' = [storyTx EXCEPT ![s] = t],
           project' \in [status : S!ProjectStatuses, duration : Durations],
           plans' \in Seq(BOOLEAN), scripts' \in Seq(S!DocumentStatuses),
           \A b \in DOMAIN boards' : BoardTyped(boards'[b]),
           storyRequests' \in 0 .. MaxRequests.story
    PROVE  StoryTypes'
<1>1. \A o \in Sessions : storyTx'[o] = IF o = s THEN t ELSE storyTx[o]
  BY DEF StoryInv
<1>2. ASSUME NEW o \in Sessions
      PROVE  RequestTyped(storyTx'[o])
  BY <1>1 DEF StoryTypes
<1>3. \A o \in Sessions : RequestTyped(storyTx[o])'
  BY <1>2 DEF RequestTyped
<1>4. \A b \in DOMAIN boards' : BoardTyped(boards[b])'
  BY DEF BoardTyped
<1> QED
  BY <1>3, <1>4 DEF StoryTypes

LEMMA IdleTyped == RequestTyped(S!Idle)
BY DEF RequestTyped, S!Idle

LEMMA OpenTypes ==
    ASSUME StoryTypes, StoryInv, NEW s \in Sessions, NEW op, NEW id, NEW saw, NEW chosenRows,
           S!Open(s, op, id, saw, chosenRows),
           op = "shot" => id[2] \in 1 .. ShotsPerBoard /\ id[3] \in Nat,
           op = "accept" => saw.sum \in Nat
    PROVE  StoryTypes'
<1> DEFINE t == [op |-> op, id |-> id, saw |-> saw, stage |-> project.status, brief |-> project.duration,
                 rows |-> chosenRows, locks |-> {}, at |-> "read"]
<1>1. /\ storyTx' = [storyTx EXCEPT ![s] = t] /\ UNCHANGED <<project, plans, scripts, boards>>
      /\ storyRequests < MaxRequests.story /\ storyRequests' = storyRequests + 1
  BY DEF S!Open, S!tables
<1>2. RequestTyped(t)
  BY DEF RequestTyped, StoryTypes
<1> HIDE DEF t
<1>3. storyRequests' \in 0 .. MaxRequests.story
  BY <1>1, BoundsAssumption DEF StoryTypes, BoundsAssumption
<1>4. /\ project' \in [status : S!ProjectStatuses, duration : Durations]
      /\ plans' \in Seq(BOOLEAN) /\ scripts' \in Seq(S!DocumentStatuses)
      /\ \A b \in DOMAIN boards' : BoardTyped(boards'[b])
  BY <1>1 DEF StoryTypes
<1> QED
  BY <1>1, <1>2, <1>3, <1>4, TurnTypes

\* A request goes on.
LEMMA AdvanceTypes ==
    ASSUME StoryTypes, StoryInv, NEW s \in Sessions, NEW t, RequestTyped(t), S!Advance(s, t)
    PROVE  StoryTypes'
<1>1. /\ storyTx' = [storyTx EXCEPT ![s] = t] /\ UNCHANGED <<project, plans, scripts, boards, storyRequests>>
  BY DEF S!Advance, S!tables
<1>2. /\ project' \in [status : S!ProjectStatuses, duration : Durations]
      /\ plans' \in Seq(BOOLEAN) /\ scripts' \in Seq(S!DocumentStatuses)
      /\ \A b \in DOMAIN boards' : BoardTyped(boards'[b])
      /\ storyRequests' \in 0 .. MaxRequests.story
  BY <1>1 DEF StoryTypes
<1> QED
  BY <1>1, <1>2, TurnTypes

\* A request commits, or is given up.
LEMMA CloseTypes ==
    ASSUME StoryTypes, StoryInv, NEW s \in Sessions, S!Close(s),
           project' \in [status : S!ProjectStatuses, duration : Durations],
           plans' \in Seq(BOOLEAN), scripts' \in Seq(S!DocumentStatuses),
           \A b \in DOMAIN boards' : BoardTyped(boards'[b])
    PROVE  StoryTypes'
BY IdleTyped, TurnTypes DEF S!Close, StoryTypes

\* transition leaves a project with a status.
LEMMA MovedTypes ==
    ASSUME StoryTypes, NEW t, NEW target \in S!ProjectStatuses, NEW source
    PROVE  /\ S!Moved(t, target) \in [status : S!ProjectStatuses, duration : Durations]
           /\ S!MovedFrom(t, source, target) \in [status : S!ProjectStatuses, duration : Durations]
BY DEF StoryTypes, S!Moved, S!MovedFrom

-----------------------------------------------------------------------------
\* Commits, one by one.
LEMMA CommitPlansTypes ==
    ASSUME StoryTypes, StoryInv, NEW s \in Sessions, S!CommitPlans(s) \/ S!CommitSelect(s)
    PROVE  StoryTypes'
<1>1. PICK t : t = storyTx[s]
  OBVIOUS
<1> DEFINE left == S!Cleared(t)
           fresh == [i \in 1 .. PlansPerRound |-> FALSE]
<1>2. left \in Seq(BOOLEAN) /\ DOMAIN left = DOMAIN plans
  <2>1. /\ DOMAIN left = DOMAIN plans /\ left = [p \in DOMAIN plans |-> left[p]]
        /\ \A p \in DOMAIN plans : left[p] \in BOOLEAN
    BY DEF S!Cleared
  <2> HIDE DEF left
  <2>2. plans \in Seq(BOOLEAN)
    BY DEF StoryTypes
  <2> QED
    BY <2>1, <2>2, RewrittenTyped
<1>3. fresh \in Seq(BOOLEAN)
  <2>1. PlansPerRound \in Nat /\ fresh \in [1 .. PlansPerRound -> BOOLEAN]
    BY StoryAssumption
  <2> QED
    BY <2>1, SeqDef
<1> HIDE DEF left, fresh
<1>4. CASE S!CommitPlans(s)
  <2>1. /\ S!Close(s) /\ UNCHANGED <<scripts, boards>>
        /\ plans' = left \o fresh /\ project' = S!Moved(t, "CREATIVE_PLANNING")
    BY <1>1, <1>4 DEF S!CommitPlans, left, fresh
  <2>2. plans' \in Seq(BOOLEAN)
    BY <1>2, <1>3, <2>1, ConcatProperties
  <2>3. project' \in [status : S!ProjectStatuses, duration : Durations]
    BY <2>1, StagesOf, MovedTypes
  <2> QED
    BY <2>1, <2>2, <2>3, CloseTypes DEF StoryTypes
<1>5. CASE S!CommitSelect(s)
  <2>1. /\ S!Close(s) /\ UNCHANGED <<project, scripts, boards>>
        /\ plans' = [left EXCEPT ![t.id[1]] = TRUE]
    BY <1>1, <1>5 DEF S!CommitSelect, left
  <2>2. plans' \in Seq(BOOLEAN)
    <3>1. /\ DOMAIN plans' = DOMAIN left /\ plans' = [p \in DOMAIN left |-> plans'[p]]
          /\ \A p \in DOMAIN left : plans'[p] \in {left[p], TRUE}
      BY <2>1
    <3>2. \A p \in DOMAIN left : left[p] \in BOOLEAN
      BY <1>2, ElementOfSeq, LenProperties
    <3>3. \A p \in DOMAIN left : plans'[p] \in BOOLEAN
      BY <3>1, <3>2
    <3> QED
      BY <1>2, <3>1, <3>3, RewrittenTyped
  <2> QED
    BY <2>1, <2>2, CloseTypes DEF StoryTypes
<1> QED
  BY <1>4, <1>5

LEMMA CommitScriptTypes ==
    ASSUME StoryTypes, StoryInv, NEW s \in Sessions, S!CommitScript(s) \/ S!CommitApproval(s)
    PROVE  StoryTypes'
<1>1. CASE S!CommitScript(s)
  <2>1. /\ S!Close(s) /\ UNCHANGED <<plans, boards>> /\ scripts' = Append(scripts, "DRAFT")
        /\ project' = S!MovedFrom(storyTx[s], "CREATIVE_PLANNING", "SCRIPTING")
    BY <1>1 DEF S!CommitScript
  <2>2. scripts \in Seq(S!DocumentStatuses) /\ "DRAFT" \in S!DocumentStatuses
    BY DEF StoryTypes, S!DocumentStatuses
  <2>3. scripts' \in Seq(S!DocumentStatuses)
    BY <2>1, <2>2, AppendProperties
  <2>4. project' \in [status : S!ProjectStatuses, duration : Durations]
    BY <2>1, StagesOf, MovedTypes
  <2> QED
    BY <2>1, <2>3, <2>4, CloseTypes DEF StoryTypes
<1>2. CASE S!CommitApproval(s)
  <2>1. PICK t : t = storyTx[s]
    OBVIOUS
  <2> DEFINE after == S!AfterApproval(t, "script", scripts)
  <2>2. /\ S!Close(s) /\ UNCHANGED <<plans, boards>> /\ scripts' = after
        /\ project' = S!MovedFrom(t, "SCRIPTING", "STORYBOARDING")
    BY <1>2, <2>1 DEF S!CommitApproval
  <2>3. /\ DOMAIN after = DOMAIN scripts /\ after = [v \in DOMAIN scripts |-> after[v]]
        /\ \A v \in DOMAIN scripts : after[v] \in {"SUPERSEDED", "APPROVED", scripts[v]}
    BY DEF S!AfterApproval
  <2> HIDE DEF after
  <2>4. scripts \in Seq(S!DocumentStatuses) /\ {"SUPERSEDED", "APPROVED"} \subseteq S!DocumentStatuses
    BY DEF StoryTypes, S!DocumentStatuses
  <2>5. \A v \in DOMAIN scripts : scripts[v] \in S!DocumentStatuses
    BY <2>4, ElementOfSeq, LenProperties
  <2>6. scripts' \in Seq(S!DocumentStatuses)
    BY <2>2, <2>3, <2>4, <2>5, RewrittenTyped
  <2>7. project' \in [status : S!ProjectStatuses, duration : Durations]
    BY <2>2, StagesOf, MovedTypes
  <2> QED
    BY <2>2, <2>6, <2>7, CloseTypes DEF StoryTypes
<1> QED
  BY <1>1, <1>2

LEMMA CommitBoardTypes ==
    ASSUME StoryTypes, StoryInv, NEW s \in Sessions, S!CommitBoard(s)
    PROVE  StoryTypes'
<1>1. PICK t : t = storyTx[s]
  OBVIOUS
<1>0. PICK shots \in S!Fitted(t.brief) : boards' = Append(boards, S!NewBoard(shots))
  BY <1>1 DEF S!CommitBoard
<1> DEFINE row == S!NewBoard(shots)
<1>2. /\ t.op = "board" /\ Typed(t) /\ S!Close(s) /\ UNCHANGED <<plans, scripts>>
      /\ boards' = Append(boards, row)
      /\ project' = S!MovedFrom(t, "SCRIPTING", "STORYBOARDING")
  BY <1>0, <1>1 DEF S!CommitBoard, StoryInv
<1>3. BoardTyped(row)
  BY <1>0, NewBoardTyped
<1> HIDE DEF row
<1>4. \A b \in DOMAIN boards' : BoardTyped(boards'[b])
  <2>1. IsSequence(boards)
    BY DEF StoryInv, TablesTyped
  <2> QED
    BY <1>2, <1>3, <2>1, AppendRow DEF StoryTypes
<1>5. project' \in [status : S!ProjectStatuses, duration : Durations]
  BY <1>2, StagesOf, MovedTypes
<1> QED
  BY <1>2, <1>4, <1>5, CloseTypes DEF StoryTypes

LEMMA CommitShotTypes ==
    ASSUME StoryTypes, StoryInv, NEW s \in Sessions, S!CommitShot(s)
    PROVE  StoryTypes'
<1>1. PICK t : t = storyTx[s]
  OBVIOUS
<1> DEFINE b == t.id[1]
           i == t.id[2]
           d == t.id[3]
           total == CHOOSE n \in t.rows : TRUE
<1>2. /\ t.op = "shot" /\ t.at = "locked" /\ Typed(t) /\ RequestTyped(t)
      /\ S!Close(s) /\ UNCHANGED <<project, plans, scripts>>
      /\ boards' = [boards EXCEPT ![b].shots[i] = IF t.saw.shots[i] = d THEN @ ELSE d,
                                  ![b].total = IF t.saw.total = total THEN @ ELSE total]
  BY <1>1 DEF S!CommitShot, StoryInv, StoryTypes
<1>3. b \in DOMAIN boards /\ DOMAIN boards[b] = {"status", "total", "shots"} /\ BoardTyped(boards[b])
  <2>1. b \in DOMAIN boards
    BY <1>2 DEF Typed
  <2>2. QED
    BY <2>1 DEF StoryInv, TablesTyped, StoryTypes
<1>4. d \in Nat /\ total \in Nat
  BY <1>2, ChosenAlone DEF RequestTyped
<1> HIDE DEF total
<1>5. DOMAIN boards' = DOMAIN boards /\ \A c \in DOMAIN boards \ {b} : boards'[c] = boards[c]
  BY <1>2, <1>3
<1>6. /\ boards'[b].status = boards[b].status
      /\ boards'[b].total = IF t.saw.total = total THEN boards[b].total ELSE total
      /\ boards'[b].shots = [boards[b].shots EXCEPT ![i] = IF t.saw.shots[i] = d THEN boards[b].shots[i] ELSE d]
  BY <1>2, <1>3
<1>7. boards'[b].shots \in [1 .. ShotsPerBoard -> Nat]
  BY <1>2, <1>3, <1>4, <1>6 DEF BoardTyped, RequestTyped
<1>8. BoardTyped(boards'[b])
  BY <1>3, <1>4, <1>6, <1>7 DEF BoardTyped
<1>9. \A c \in DOMAIN boards' : BoardTyped(boards'[c])
  BY <1>5, <1>8 DEF StoryTypes
<1> QED
  BY <1>2, <1>9, CloseTypes DEF StoryTypes

LEMMA CommitBoardApprovalTypes ==
    ASSUME StoryTypes, StoryInv, NEW s \in Sessions, S!CommitBoardApproval(s)
    PROVE  StoryTypes'
<1>1. PICK t : t = storyTx[s]
  OBVIOUS
<1> DEFINE after == S!AfterApproval(t, "board", S!BoardStatus)
<1>2. /\ t.op = "accept" /\ RequestTyped(t) /\ S!Close(s) /\ UNCHANGED <<project, plans, scripts>>
      /\ boards' = [b \in DOMAIN boards |-> [boards[b] EXCEPT !.status = after[b],
              !.total = IF b = t.id[1] /\ t.saw.sum # t.saw.total THEN t.saw.sum ELSE @]]
  BY <1>1 DEF S!CommitBoardApproval, StoryTypes
<1>3. \A b \in DOMAIN boards : after[b] \in {"SUPERSEDED", "APPROVED", boards[b].status}
  BY DEF S!AfterApproval, S!BoardStatus
<1> HIDE DEF after
<1>4. ASSUME NEW b \in DOMAIN boards'
      PROVE  BoardTyped(boards'[b])
  <2>1. b \in DOMAIN boards /\ DOMAIN boards[b] = {"status", "total", "shots"} /\ BoardTyped(boards[b])
    BY <1>2, <1>4 DEF StoryInv, TablesTyped, StoryTypes
  <2>2. /\ boards'[b].status = after[b] /\ boards'[b].total \in {t.saw.sum, boards[b].total}
        /\ boards'[b].shots = boards[b].shots
    BY <1>2, <2>1
  <2>3. t.saw.sum \in Nat
    BY <1>2 DEF RequestTyped
  <2> QED
    BY <1>3, <2>1, <2>2, <2>3 DEF BoardTyped, S!DocumentStatuses
<1> QED
  BY <1>2, <1>4, CloseTypes DEF StoryTypes

-----------------------------------------------------------------------------
LEMMA StoryTypesNext ==
    ASSUME StoryTypes, StoryInv, [S!Next]_S!vars
    PROVE  StoryTypes'
<1>1. ASSUME NEW s \in Sessions,
             \/ S!GeneratePlans(s) \/ S!GenerateScript(s) \/ S!ReviseScript(s) \/ S!GenerateBoard(s) \/ S!Archive(s)
             \/ \E p \in DOMAIN plans : S!SelectPlan(s, p)
             \/ \E v \in DOMAIN scripts : S!ApproveScript(s, v)
             \/ \E d \in Durations : S!UpdateBrief(s, d)
      PROVE  StoryTypes'
  <2>1. \E op \in {"plans", "script", "board", "archive", "select", "approve", "brief"} :
           \E id, saw, chose : S!Open(s, op, id, saw, chose)
    BY <1>1 DEF S!GeneratePlans, S!GenerateScript, S!ReviseScript, S!GenerateBoard, S!Archive, S!SelectPlan,
                S!ApproveScript, S!UpdateBrief
  <2> QED
    BY <2>1, OpenTypes
<1>2. ASSUME NEW s \in Sessions, NEW b \in DOMAIN boards, NEW i \in 1 .. ShotsPerBoard, NEW d \in ShotDurations,
             S!UpdateShot(s, b, i, d)
      PROVE  StoryTypes'
  <2>1. S!Open(s, "shot", <<b, i, d>>, boards[b], {})
    BY <1>2 DEF S!UpdateShot
  <2>2. <<b, i, d>>[2] \in 1 .. ShotsPerBoard /\ <<b, i, d>>[3] \in Nat
    BY StoryAssumption
  <2> QED
    BY <2>1, <2>2, OpenTypes
<1>3. ASSUME NEW s \in Sessions, NEW b \in DOMAIN boards, S!ApproveBoard(s, b)
      PROVE  StoryTypes'
  <2> DEFINE saw == [status |-> boards[b].status, total |-> boards[b].total, sum |-> S!Total(boards[b].shots)]
  <2>1. S!Open(s, "accept", <<b>>, saw, S!Others(S!BoardStatus, b))
    BY <1>3 DEF S!ApproveBoard
  <2>2. saw.sum \in Nat
    BY TotalIsNatural, StoryAssumption DEF StoryTypes, BoardTyped
  <2> HIDE DEF saw
  <2> QED
    BY <2>1, <2>2, OpenTypes
<1>4. ASSUME NEW s \in Sessions, S!PlansProposed(s)
      PROVE  StoryTypes'
  <2>1. PICK t : t = storyTx[s]
    OBVIOUS
  <2> DEFINE v == [t EXCEPT !.op = "round", !.rows = S!Selected]
  <2>2. t.op = "plans" /\ Typed(t) /\ RequestTyped(t) /\ S!Advance(s, v)
    BY <1>4, <2>1 DEF S!PlansProposed, StoryInv, StoryTypes
  <2>3. v.op = "round" /\ v.stage = t.stage
    BY <2>2 DEF Typed
  <2> HIDE DEF v
  <2>4. RequestTyped(v)
    BY <2>2, <2>3 DEF RequestTyped
  <2> QED
    BY <2>2, <2>4, AdvanceTypes
<1>5. ASSUME NEW s \in Sessions, S!LockPlans(s) \/ S!LockScripts(s) \/ S!LockBoards(s)
      PROVE  StoryTypes'
  <2>1. PICK t : t = storyTx[s]
    OBVIOUS
  <2>2. PICK kind : t.op \in {"round", "select", "approve", "accept"} /\ S!LockRows(s, kind)
    BY <1>5, <2>1 DEF S!LockPlans, S!LockScripts, S!LockBoards
  <2> DEFINE v == [t EXCEPT !.at = "locked", !.locks = {kind} \X t.rows]
  <2>3. Typed(t) /\ RequestTyped(t) /\ S!Advance(s, v)
    BY <2>1, <2>2 DEF S!LockRows, StoryInv, StoryTypes
  <2>4. v.op = t.op /\ v.stage = t.stage /\ v.saw = t.saw
    BY <2>2, <2>3 DEF Typed
  <2> HIDE DEF v
  <2>5. RequestTyped(v)
    BY <2>2, <2>3, <2>4 DEF RequestTyped
  <2> QED
    BY <2>3, <2>5, AdvanceTypes
<1>6. ASSUME NEW s \in Sessions, S!FlushShot(s)
      PROVE  StoryTypes'
  <2>1. PICK t : t = storyTx[s]
    OBVIOUS
  <2> DEFINE b == t.id[1]
             total == S!Total([boards[b].shots EXCEPT ![t.id[2]] = t.id[3]])
             v == [t EXCEPT !.at = "locked", !.locks = {<<"shot", <<b, t.id[2]>> >>}, !.rows = {total}]
  <2>2. t.op = "shot" /\ Typed(t) /\ RequestTyped(t) /\ S!Advance(s, v)
    BY <1>6, <2>1 DEF S!FlushShot, StoryInv, StoryTypes
  <2>3. total \in Nat
    <3>1. b \in DOMAIN boards /\ boards[b].shots \in [1 .. ShotsPerBoard -> Nat]
      BY <2>2 DEF Typed, StoryTypes, BoardTyped
    <3>2. [boards[b].shots EXCEPT ![t.id[2]] = t.id[3]] \in [1 .. ShotsPerBoard -> Nat]
      BY <2>2, <3>1 DEF RequestTyped
    <3> QED
      BY <3>2, TotalIsNatural, StoryAssumption
  <2> HIDE DEF total
  <2>4. v.op = "shot" /\ v.stage = t.stage /\ v.id = t.id /\ v.rows = {total}
    BY <2>2 DEF Typed
  <2> HIDE DEF v
  <2>5. RequestTyped(v)
    BY <2>2, <2>3, <2>4 DEF RequestTyped
  <2> QED
    BY <2>2, <2>5, AdvanceTypes
<1>7. ASSUME NEW s \in Sessions, S!CommitBrief(s)
      PROVE  StoryTypes'
  <2>1. storyTx[s].op = "brief" /\ storyTx[s].id[1] \in Durations
    BY <1>7 DEF S!CommitBrief, StoryInv, Typed
  <2>2. project' \in [status : S!ProjectStatuses, duration : Durations]
    BY <1>7, <2>1 DEF S!CommitBrief, StoryTypes
  <2> QED
    BY <1>7, <2>2, CloseTypes DEF S!CommitBrief, StoryTypes
<1>8. ASSUME NEW s \in Sessions, S!CommitArchive(s)
      PROVE  StoryTypes'
  <2>1. project' \in [status : S!ProjectStatuses, duration : Durations]
    BY <1>8, StagesOf, MovedTypes DEF S!CommitArchive
  <2> QED
    BY <1>8, <2>1, CloseTypes DEF S!CommitArchive, StoryTypes
<1>9. ASSUME NEW s \in Sessions, S!Rollback(s)
      PROVE  StoryTypes'
  BY <1>9, CloseTypes DEF S!Rollback, S!tables, StoryTypes
<1>10. CASE UNCHANGED S!vars
  BY <1>10 DEF S!vars, StoryTypes, BoardTyped, RequestTyped
<1> QED
  BY <1>1, <1>2, <1>3, <1>4, <1>5, <1>6, <1>7, <1>8, <1>9, <1>10, CommitPlansTypes, CommitScriptTypes,
     CommitBoardTypes, CommitShotTypes, CommitBoardApprovalTypes DEF S!Next

LEMMA StoryIsTyped == Spec => []S!TypeOK
<1>1. Init => StoryTypes
  BY StoryTypesInit DEF Init
<1>2. StoryTypes /\ StoryInv /\ [Next]_vars => StoryTypes'
  BY StoryTypesNext, StorySteps
<1>3. StoryTypes => S!TypeOK
  BY DEF StoryTypes, S!TypeOK, BoardTyped
<1> QED
  BY <1>1, <1>2, <1>3, StoryInvariant, PTL DEF Spec
=============================================================================
