---------------------------- MODULE ServicesProofs ----------------------------
(***************************************************************************)
(* Proofs about circuit breakers (Router), and that all of Services keeps  *)
(* its types, for any jobs, providers, thresholds and bounds.              *)
(*                                                                         *)
(* What a worker or the operator sends depends on the row as it was read,  *)
(* so RouterInv follows the rows that are held: each is consistent itself, *)
(* one about to be tripped or closed changes both columns, and one that the*)
(* operator holds is a row that was inserted. With Switches it also says   *)
(* what the operator last closed: unless a judgement crossed the switch, no*)
(* worker is about to trip that breaker.                                   *)
(*                                                                         *)
(* The types of the router need that no job is counted twice among those   *)
(* that finished (Once). The last theorem collects the types of the ten    *)
(* services, each proved beside the properties of its service.             *)
(***************************************************************************)
EXTENDS CatalogueProofs, MediaProofs, AccountProofs

BreakerRows == [enabled : BOOLEAN, until : {"absent", "null", "future", "past"}, trips : Nat]

\* A row as a transaction read it; Trip sends the window whatever it was.
Reads == [enabled : BOOLEAN, until : {"absent", "null", "future", "past", "unset"}, trips : Nat]

\* A row whose trips and window agree.
Sound(row) == row \in BreakerRows /\ (row.trips = 0 <=> row.until \in {"absent", "null"})

\* A row that is not there is NoConfig.
Breakers ==
    /\ configs \in [Providers -> BreakerRows]
    /\ \A p \in Providers : Sound(configs[p]) /\ (configs[p].until = "absent" => ~configs[p].enabled)

Steps ==
    {R!Idle} \cup [at : {"routed", "polling", "noting", "failing"}, provider : Providers]
           \cup [at : {"tripping", "closing"}, provider : Providers, read : BreakerRows]

\* A worker closes a breaker only if it read one that had been opened.
Held ==
    /\ worker \in [Jobs -> Steps]
    /\ \A j \in Jobs : worker[j].at = "closing" =>
          Sound(worker[j].read) /\ worker[j].read.until \in {"future", "past"}

\* The row of an operator's transaction is there, as it was when it was read.
Switching ==
    /\ operator \in {R!Idle} \cup [at : {"switching"}, provider : Providers, read : BreakerRows, enabled : BOOLEAN]
    /\ operator # R!Idle =>
          /\ Sound(operator.read) /\ operator.read.until # "absent"
          /\ configs[operator.provider].until # "absent"

RouterInv == Breakers /\ Held /\ Switching

-----------------------------------------------------------------------------
\* What a flush leaves of a row, column by column.
LEMMA MergedRow ==
    ASSUME NEW row \in BreakerRows,
           NEW old \in Reads,
           NEW new \in BreakerRows
    PROVE  R!Merged(row, old, new) =
             [enabled |-> IF new.enabled # old.enabled THEN new.enabled ELSE row.enabled,
              until   |-> IF new.until # old.until THEN new.until ELSE row.until,
              trips   |-> IF new.trips # old.trips THEN new.trips ELSE row.trips]
<1>1. DOMAIN row = {"enabled", "until", "trips"} /\ DOMAIN new = {"enabled", "until", "trips"}
  BY DEF BreakerRows
<1>2. DOMAIN R!Changed(old, new) = {c \in {"enabled", "until", "trips"} : new[c] # old[c]}
  BY <1>1 DEF R!Changed
<1>3. \A c \in {"enabled", "until", "trips"} :
        R!Merged(row, old, new)[c] = IF new[c] # old[c] THEN new[c] ELSE row[c]
  BY <1>1, <1>2 DEF R!Merged, R!Overwritten, R!Changed
<1>4. R!Merged(row, old, new) = [c \in {"enabled", "until", "trips"} |-> R!Merged(row, old, new)[c]]
  BY <1>1 DEF R!Merged, R!Overwritten
<1>5. QED
  BY <1>3, <1>4

\* Whoever writes a row of p, and whatever the row is by then, both columns
\* of the breaker are sent or neither is.
LEMMA WrittenRow ==
    ASSUME RouterInv, NEW p \in Providers, NEW new \in BreakerRows,
           NEW old \in Reads,
           R!Written(p, old, new), Sound(new), new.until # "absent",
           new.until # old.until <=> new.trips # old.trips,
           new.until = old.until => configs[p].until # "absent"
    PROVE  Breakers' /\ (\A q \in Providers : configs[q].until # "absent" => configs'[q].until # "absent")
<1> DEFINE merged == R!Merged(configs[p], old, new)
<1>1. configs[p] \in BreakerRows /\ configs \in [Providers -> BreakerRows]
  BY DEF RouterInv, Breakers
<1>2. configs' = [configs EXCEPT ![p] = merged]
  BY DEF R!Written
<1>3. merged = [enabled |-> IF new.enabled # old.enabled THEN new.enabled ELSE configs[p].enabled,
                until   |-> IF new.until # old.until THEN new.until ELSE configs[p].until,
                trips   |-> IF new.trips # old.trips THEN new.trips ELSE configs[p].trips]
  BY <1>1, MergedRow
<1> HIDE DEF merged
<1>4. merged \in BreakerRows
  BY <1>1, <1>3 DEF BreakerRows
<1>5. Sound(merged) /\ merged.until # "absent"
  BY <1>1, <1>3, <1>4 DEF RouterInv, Breakers, Sound, BreakerRows
<1>6. QED
  BY <1>1, <1>2, <1>4, <1>5 DEF RouterInv, Breakers

-----------------------------------------------------------------------------
LEMMA RouterInit == R!Init => RouterInv
<1> SUFFICES ASSUME R!Init PROVE RouterInv
  OBVIOUS
<1>1. R!NoConfig \in BreakerRows
  BY DEF R!NoConfig, BreakerRows
<1>2. Breakers
  BY <1>1 DEF R!Init, Breakers, Sound, R!NoConfig
<1>3. Held /\ Switching
  BY DEF R!Init, Held, Switching, Steps, R!Idle
<1>4. QED
  BY <1>2, <1>3 DEF RouterInv

\* A provider that is routed to is one of the providers.
LEMMA RoutedType ==
    ASSUME NEW request
    PROVE  R!Routed(request) \subseteq Providers
<1>1. R!Candidates(request) \subseteq Providers
  BY DEF R!Candidates, R!Configured
<1>2. QED
  BY <1>1, RouterAssumption DEF R!Routed

\* A step of the worker that leaves the rows and the operator alone.
LEMMA WorkInv ==
    ASSUME RouterInv, NEW j \in Jobs, NEW step \in Steps, R!Work(j, step), UNCHANGED <<configs, operator>>,
           step.at = "closing" => Sound(step.read) /\ step.read.until \in {"future", "past"}
    PROVE  RouterInv'
<1>1. Breakers' /\ Switching'
  BY DEF RouterInv, Breakers, Switching
<1>2. Held'
  BY DEF RouterInv, Held, R!Work
<1>3. QED
  BY <1>1, <1>2 DEF RouterInv

\* A step that writes a row and ends the worker's part in it.
LEMMA WrittenInv ==
    ASSUME RouterInv, Breakers', NEW j \in Jobs, NEW step \in Steps, R!Work(j, step), UNCHANGED operator,
           step.at # "closing",
           \A q \in Providers : configs[q].until # "absent" => configs'[q].until # "absent"
    PROVE  RouterInv'
<1>1. Held'
  BY DEF RouterInv, Held, R!Work
<1>2. Switching'
  <2>1. CASE operator = R!Idle
    BY <2>1 DEF RouterInv, Switching
  <2>2. CASE operator # R!Idle
    <3>1. operator.provider \in Providers
      BY <2>2 DEF RouterInv, Switching
    <3>2. QED
      BY <2>2, <3>1 DEF RouterInv, Switching
  <2>3. QED
    BY <2>1, <2>2
<1>3. QED
  BY <1>1, <1>2 DEF RouterInv

-----------------------------------------------------------------------------
LEMMA RouterNext ==
    ASSUME RouterInv, [R!Next]_R!vars
    PROVE  RouterInv'
<1> USE DEF RouterInv
<1>0. /\ R!Idle \in Steps /\ R!Idle.at = "none"
      /\ \A j \in Jobs : worker[j].at \in {"routed", "polling", "noting", "failing"} =>
            worker[j] \in [at : {"routed", "polling", "noting", "failing"}, provider : Providers]
      /\ \A j \in Jobs : worker[j].at \in {"tripping", "closing"} =>
            worker[j] \in [at : {"tripping", "closing"}, provider : Providers, read : BreakerRows]
  BY DEF Held, Steps, R!Idle
<1>1. CASE R!EnsureDefaults
  <2>1. configs' \in [Providers -> BreakerRows]
    BY <1>1 DEF R!EnsureDefaults, Breakers, BreakerRows
  <2>2. ASSUME NEW p \in Providers
        PROVE  Sound(configs'[p]) /\ configs'[p].until # "absent"
    <3>1. CASE p \in R!Configured
      BY <1>1, <2>1, <3>1 DEF R!EnsureDefaults, Breakers, Sound, BreakerRows, R!Configured, R!NoConfig
    <3>2. CASE p \notin R!Configured
      BY <1>1, <2>1, <3>2 DEF R!EnsureDefaults, Sound
    <3>3. QED
      BY <3>1, <3>2
  <2>3. Held'
    BY <1>1 DEF R!EnsureDefaults, Held
  <2>4. Switching'
    BY <1>1, <2>2 DEF R!EnsureDefaults, Switching, R!Idle
  <2>5. QED
    BY <2>1, <2>2, <2>3, <2>4 DEF Breakers
<1>2. ASSUME NEW p \in Providers, R!Elapse(p)
      PROVE  RouterInv'
  <2>1. Breakers'
    BY <1>2 DEF R!Elapse, R!Open, Breakers, Sound, BreakerRows
  <2>2. \A q \in Providers : configs[q].until # "absent" => configs'[q].until # "absent"
    BY <1>2 DEF R!Elapse, Breakers, BreakerRows
  <2>3. Held' /\ Switching'
    BY <1>2, <2>2 DEF R!Elapse, Held, Switching, R!Idle
  <2>4. QED
    BY <2>1, <2>3
<1>3. ASSUME NEW p \in Providers, NEW enabled \in BOOLEAN, R!OpenSwitch(p, enabled)
      PROVE  RouterInv'
  <2>1. Breakers' /\ Held'
    BY <1>3 DEF R!OpenSwitch, Breakers, Held
  <2>2. configs[p] \in BreakerRows /\ Sound(configs[p]) /\ configs[p].until # "absent"
    BY <1>3 DEF R!OpenSwitch, Breakers, Sound, BreakerRows, R!Configured, R!NoConfig
  <2>3. Switching'
    BY <1>3, <2>2 DEF R!OpenSwitch, Switching
  <2>4. QED
    BY <2>1, <2>3
<1>4. CASE R!Forget
  BY <1>4 DEF R!Forget, Breakers, Held, Switching
<1>5. ASSUME NEW j \in Jobs, R!Route(j)
      PROVE  RouterInv'
  <2>1. PICK p \in R!Routed(Wanted[j]) : R!Work(j, [at |-> "routed", provider |-> p])
    BY <1>5 DEF R!Route
  <2>2. p \in Providers
    BY RoutedType
  <2>3. QED
    BY <1>5, <2>1, <2>2, WorkInv DEF R!Route, Steps
<1>6. ASSUME NEW j \in Jobs, R!Submitted(j)
      PROVE  RouterInv'
  <2>1. [worker[j] EXCEPT !.at = "polling"] \in Steps /\ [worker[j] EXCEPT !.at = "polling"].at = "polling"
    BY <1>0, <1>6 DEF R!Submitted, Steps
  <2>2. QED
    BY <1>6, <2>1, WorkInv DEF R!Submitted
<1>7. ASSUME NEW j \in Jobs, R!Judge(j)
      PROVE  RouterInv'
  <2> DEFINE p == worker[j].provider
             step == IF R!KeepsFailing(p) /\ p \in R!Configured /\ ~R!Open(p)
                     THEN [at |-> "tripping", provider |-> p, read |-> configs[p]]
                     ELSE [at |-> "failing", provider |-> p]
  <2>1. p \in Providers /\ configs[p] \in BreakerRows
    BY <1>0, <1>7 DEF R!Judge, Breakers
  <2>2. step \in Steps /\ step.at # "closing"
    BY <2>1 DEF Steps
  <2>3. QED
    BY <1>7, <2>2, WorkInv DEF R!Judge
<1>8. ASSUME NEW j \in Jobs, R!Trip(j)
      PROVE  RouterInv'
  <2> DEFINE w == worker[j]
             old == [w.read EXCEPT !.until = "unset"]
             new == [w.read EXCEPT !.until = "future", !.trips = @ + 1]
  <2>1. w.provider \in Providers /\ w.read \in BreakerRows
    BY <1>0, <1>8 DEF R!Trip
  <2>2. /\ old.until = "unset" /\ old.trips = w.read.trips
        /\ new.until = "future" /\ new.trips = w.read.trips + 1
    BY <2>1 DEF BreakerRows
  <2>3. R!Written(w.provider, old, new) /\ R!Work(j, [at |-> "failing", provider |-> w.provider])
        /\ UNCHANGED operator
    BY <1>8 DEF R!Trip
  <2>4. old \in Reads /\ new \in BreakerRows
    <3>1. w.read.trips + 1 \in Nat
      BY <2>1 DEF BreakerRows
    <3>2. old \in Reads
      BY <2>1 DEF BreakerRows, Reads
    <3>3. new \in BreakerRows
      BY <2>1, <3>1 DEF BreakerRows
    <3>4. QED
      BY <3>2, <3>3
  <2>5. /\ Sound(new) /\ new.until = "future" /\ new.until # old.until
        /\ new.trips # old.trips
    BY <2>1, <2>2, <2>4 DEF Sound, BreakerRows
  <2> HIDE DEF old, new
  <2>6. Breakers' /\ \A q \in Providers : configs[q].until # "absent" => configs'[q].until # "absent"
    BY <2>1, <2>3, <2>4, <2>5, WrittenRow
  <2>7. [at |-> "failing", provider |-> w.provider] \in Steps
    BY <2>1 DEF Steps
  <2>8. QED
    BY <2>3, <2>6, <2>7, WrittenInv
<1>9. ASSUME NEW j \in Jobs, R!NoteLost(j)
      PROVE  RouterInv'
  <2> DEFINE step == IF worker[j].at = "tripping" THEN [at |-> "failing", provider |-> worker[j].provider] ELSE R!Idle
  <2>1. step \in Steps /\ step.at # "closing"
    BY <1>0, <1>9 DEF R!NoteLost, Steps
  <2>2. QED
    BY <1>9, <2>1, WorkInv DEF R!NoteLost
<1>10. ASSUME NEW j \in Jobs, R!Requeue(j) \/ R!Fail(j) \/ R!TimeOut(j)
       PROVE  RouterInv'
  BY <1>0, <1>10, WorkInv DEF R!Requeue, R!Fail, R!TimeOut
<1>11. ASSUME NEW j \in Jobs, R!Complete(j)
       PROVE  RouterInv'
  <2>1. [worker[j] EXCEPT !.at = "noting"] \in Steps /\ [worker[j] EXCEPT !.at = "noting"].at = "noting"
    BY <1>0, <1>11 DEF R!Complete, Steps
  <2>2. QED
    BY <1>11, <2>1, WorkInv DEF R!Complete
<1>12. ASSUME NEW j \in Jobs, R!ReadSuccess(j)
       PROVE  RouterInv'
  <2> DEFINE p == worker[j].provider
             step == IF configs[p].until \in {"absent", "null"} THEN R!Idle
                     ELSE [at |-> "closing", provider |-> p, read |-> configs[p]]
  <2>1. p \in Providers /\ configs[p] \in BreakerRows /\ Sound(configs[p])
    BY <1>0, <1>12 DEF R!ReadSuccess, Breakers
  <2>2. step \in Steps
    BY <1>0, <2>1 DEF Steps
  <2>3. step.at = "closing" => Sound(step.read) /\ step.read.until \in {"future", "past"}
    BY <1>0, <2>1 DEF BreakerRows
  <2>4. QED
    BY <1>12, <2>2, <2>3, WorkInv DEF R!ReadSuccess
<1>13. ASSUME NEW j \in Jobs, R!Close(j)
       PROVE  RouterInv'
  <2> DEFINE w == worker[j]
             new == [w.read EXCEPT !.until = "null", !.trips = 0]
  <2>1. w.provider \in Providers /\ w.read \in BreakerRows /\ Sound(w.read) /\ w.read.until \in {"future", "past"}
    BY <1>0, <1>13 DEF R!Close, Held
  <2>2. new.until = "null" /\ new.trips = 0
    BY <2>1 DEF BreakerRows
  <2>3. R!Written(w.provider, w.read, new) /\ R!Work(j, R!Idle) /\ UNCHANGED operator
    BY <1>13 DEF R!Close
  <2>4. w.read \in Reads /\ new \in BreakerRows
    BY <2>1 DEF BreakerRows, Reads
  <2>5. /\ Sound(new) /\ new.until = "null" /\ new.until # w.read.until
        /\ new.trips # w.read.trips
    BY <2>1, <2>2, <2>4 DEF Sound, BreakerRows
  <2> HIDE DEF new
  <2>6. Breakers' /\ \A q \in Providers : configs[q].until # "absent" => configs'[q].until # "absent"
    BY <2>1, <2>3, <2>4, <2>5, WrittenRow
  <2>7. QED
    BY <1>0, <2>3, <2>6, WrittenInv
<1>14. CASE R!CommitSwitch
  <2> DEFINE o == operator
             new == R!Switched(o.read, o.enabled)
  <2>1. /\ o.provider \in Providers /\ o.read \in BreakerRows /\ o.enabled \in BOOLEAN /\ Sound(o.read)
        /\ o.read.until # "absent" /\ configs[o.provider].until # "absent"
    BY <1>14 DEF R!CommitSwitch, Switching, R!Idle
  <2>2. new \in BreakerRows /\ Sound(new) /\ new.until # "absent"
    BY <2>1 DEF R!Switched, Sound, BreakerRows
  <2>3. new.until # o.read.until <=> new.trips # o.read.trips
    BY <2>1 DEF R!Switched, Sound, BreakerRows
  <2>4. R!Written(o.provider, o.read, new) /\ operator' = R!Idle /\ UNCHANGED worker
    BY <1>14 DEF R!CommitSwitch
  <2>5. o.read \in Reads
    BY <2>1 DEF BreakerRows, Reads
  <2> HIDE DEF new
  <2>6. Breakers'
    BY <2>1, <2>2, <2>3, <2>4, <2>5, WrittenRow
  <2>7. Held' /\ Switching'
    BY <2>4 DEF Held, Switching
  <2>8. QED
    BY <2>6, <2>7
<1>15. CASE UNCHANGED R!vars
  BY <1>15 DEF R!vars, Breakers, Held, Switching
<1>16. QED
  BY <1>1, <1>2, <1>3, <1>4, <1>5, <1>6, <1>7, <1>8, <1>9, <1>10, <1>11, <1>12, <1>13, <1>14, <1>15 DEF R!Next

-----------------------------------------------------------------------------
\* A worker that is about to open a breaker and an operator who is switching
\* the provider are known to cross; without that nobody is about to open the
\* breaker of a provider that was turned on, and the window an operator read
\* is still the window of the row.
Switches ==
    /\ closed \subseteq Providers
    /\ \A j \in Jobs : worker[j].at = "tripping" =>
          /\ operator.at = "switching" /\ operator.provider = worker[j].provider => worker[j].provider \in routerCrossed
          /\ worker[j].provider \notin closed \ routerCrossed
    /\ operator.at = "switching" /\ operator.provider \notin routerCrossed /\ operator.read.until = "null" =>
          configs[operator.provider].until = "null"
    /\ R!EnabledIsClosed

\* Nothing is opened or closed but by a worker that was about to open it.
LEMMA SwitchRest ==
    ASSUME RouterInv, Switches, UNCHANGED <<closed, routerCrossed, operator>>,
           \A j \in Jobs : worker'[j].at = "tripping" => worker'[j] = worker[j],
           \A p \in Providers : configs[p].until = "null" =>
               configs'[p].until = "null" \/ \E j \in Jobs : worker[j].at = "tripping" /\ worker[j].provider = p
    PROVE  Switches'
<1>1. operator.at = "switching" => operator.provider \in Providers
  BY DEF RouterInv, Switching, R!Idle
<1>2. QED
  BY <1>1 DEF Switches, R!EnabledIsClosed

LEMMA SwitchInit == R!Init => Switches
BY DEF R!Init, Switches, R!Idle, R!EnabledIsClosed

LEMMA SwitchNext ==
    ASSUME RouterInv, Switches, [R!Next]_R!vars
    PROVE  Switches'
<1>1. /\ configs \in [Providers -> BreakerRows] /\ worker \in [Jobs -> Steps]
      /\ \A j \in Jobs : worker[j].at \notin {"none"} => worker[j].provider \in Providers
      /\ \A j \in Jobs : worker[j].at \in {"tripping", "closing"} => worker[j].read \in BreakerRows
      /\ \A j \in Jobs : worker[j].at = "closing" => worker[j].read.until \in {"future", "past"}
      /\ operator.at = "switching" =>
            operator.provider \in Providers /\ operator.read \in BreakerRows /\ operator.enabled \in BOOLEAN
  BY DEF RouterInv, Breakers, Held, Steps, Switching, R!Idle
<1>2. CASE R!EnsureDefaults
  BY <1>1, <1>2, SwitchRest DEF R!EnsureDefaults, R!Configured, R!NoConfig
<1>3. CASE R!Forget
  BY <1>3, SwitchRest DEF R!Forget
<1>4. ASSUME NEW p \in Providers, R!Elapse(p)
      PROVE  Switches'
  BY <1>1, <1>4, SwitchRest DEF R!Elapse, R!Open
<1>5. ASSUME NEW j \in Jobs, NEW step, R!Work(j, step), step.at # "tripping", UNCHANGED <<configs, closed, routerCrossed, operator>>
      PROVE  Switches'
  BY <1>1, <1>5, SwitchRest DEF R!Work
<1>6. ASSUME NEW j \in Jobs,
             R!Route(j) \/ R!Submitted(j) \/ R!NoteLost(j) \/ R!Requeue(j) \/ R!Fail(j) \/ R!TimeOut(j)
             \/ R!Complete(j) \/ R!ReadSuccess(j)
      PROVE  Switches'
  <2>1. R!Idle.at # "tripping"
    BY DEF R!Idle
  <2>2. CASE R!Route(j)
    <3>1. PICK p : R!Work(j, [at |-> "routed", provider |-> p])
      BY <2>2 DEF R!Route
    <3>2. QED
      BY <1>5, <2>2, <3>1 DEF R!Route
  <2>3. CASE R!Submitted(j)
    <3>1. worker[j] \in Steps /\ [worker[j] EXCEPT !.at = "polling"].at = "polling"
      BY <1>1 DEF Steps, R!Idle
    <3>2. QED
      BY <1>5, <2>3, <3>1 DEF R!Submitted
  <2>4. CASE R!NoteLost(j)
    BY <1>5, <2>1, <2>4 DEF R!NoteLost
  <2>5. CASE R!Requeue(j) \/ R!Fail(j) \/ R!TimeOut(j)
    BY <1>5, <2>1, <2>5 DEF R!Requeue, R!Fail, R!TimeOut
  <2>6. CASE R!Complete(j)
    <3>1. worker[j] \in Steps /\ [worker[j] EXCEPT !.at = "noting"].at = "noting"
      BY <1>1 DEF Steps, R!Idle
    <3>2. QED
      BY <1>5, <2>6, <3>1 DEF R!Complete
  <2>7. CASE R!ReadSuccess(j)
    BY <1>5, <2>1, <2>7 DEF R!ReadSuccess
  <2>8. QED
    BY <1>6, <2>2, <2>3, <2>4, <2>5, <2>6, <2>7
<1>7. ASSUME NEW j \in Jobs, R!Judge(j)
      PROVE  Switches'
  <2> PICK p : p = worker[j].provider
    OBVIOUS
  <2>1. CASE worker'[j].at # "tripping"
    <3>1. UNCHANGED <<configs, closed, routerCrossed, operator>> /\ \A i \in Jobs \ {j} : worker'[i] = worker[i]
      BY <1>1, <1>7, <2>1 DEF R!Judge, R!Work
    <3>2. QED
      BY <2>1, <3>1, SwitchRest
  <2>2. CASE worker'[j].at = "tripping"
    <3>1. /\ closed' = closed \ {p} /\ UNCHANGED <<configs, operator>>
          /\ worker'[j].provider = p /\ \A i \in Jobs \ {j} : worker'[i] = worker[i]
          /\ routerCrossed' = IF operator.at = "switching" /\ operator.provider = p THEN routerCrossed \cup {p} ELSE routerCrossed
      BY <1>1, <1>7, <2>2 DEF R!Judge, R!Work
    <3>2. QED
      BY <3>1 DEF Switches, R!EnabledIsClosed
  <2>3. QED
    BY <2>1, <2>2
<1>8. ASSUME NEW j \in Jobs, R!Trip(j)
      PROVE  Switches'
  <2>1. /\ worker[j].at = "tripping" /\ worker'[j].at = "failing" /\ \A i \in Jobs \ {j} : worker'[i] = worker[i]
        /\ UNCHANGED <<closed, routerCrossed, operator>>
        /\ \A q \in Providers \ {worker[j].provider} : configs'[q] = configs[q]
    BY <1>1, <1>8 DEF R!Trip, R!Work, R!Written
  <2>2. QED
    BY <2>1, SwitchRest
<1>9. ASSUME NEW j \in Jobs, R!Close(j)
      PROVE  Switches'
  <2> DEFINE p == worker[j].provider
             read == worker[j].read
             new == [read EXCEPT !.until = "null", !.trips = 0]
  <2>1. /\ worker[j].at = "closing" /\ worker'[j].at = "none" /\ \A i \in Jobs \ {j} : worker'[i] = worker[i]
        /\ UNCHANGED <<closed, routerCrossed, operator>>
        /\ configs' = [configs EXCEPT ![p] = R!Merged(configs[p], read, new)]
    BY <1>1, <1>9 DEF R!Close, R!Work, R!Written, R!Idle
  <2>2. p \in Providers /\ read \in BreakerRows /\ read \in Reads /\ read.until # "null" /\ new \in BreakerRows /\ new.until = "null"
    BY <1>1, <2>1 DEF BreakerRows, Reads
  <2> HIDE DEF new
  <2>3. R!Merged(configs[p], read, new).until = "null"
    BY <1>1, <2>2, MergedRow
  <2>4. \A q \in Providers : configs[q].until = "null" => configs'[q].until = "null"
    BY <1>1, <2>1, <2>2, <2>3
  <2>5. QED
    BY <2>1, <2>4, SwitchRest
<1>10. ASSUME NEW p \in Providers, NEW enabled \in BOOLEAN, R!OpenSwitch(p, enabled)
       PROVE  Switches'
  <2>1. /\ UNCHANGED <<configs, worker, closed>>
        /\ operator'.at = "switching" /\ operator'.provider = p /\ operator'.read = configs[p]
        /\ routerCrossed' = IF \E j \in Jobs : worker[j].at = "tripping" /\ worker[j].provider = p
                      THEN routerCrossed \cup {p} ELSE routerCrossed
    BY <1>10 DEF R!OpenSwitch
  <2>2. QED
    BY <2>1 DEF Switches, R!EnabledIsClosed
<1>11. CASE R!CommitSwitch
  <2> PICK p, read, enabled : p = operator.provider /\ read = operator.read /\ enabled = operator.enabled
    OBVIOUS
  <2> DEFINE new == R!Switched(read, enabled)
  <2>1. /\ operator.at = "switching" /\ operator'.at = "none" /\ UNCHANGED <<worker, routerCrossed>>
        /\ closed' = (IF enabled THEN closed \cup {p} ELSE closed)
        /\ configs' = [configs EXCEPT ![p] = R!Merged(configs[p], read, new)]
    BY <1>11 DEF R!CommitSwitch, R!Written, R!Idle
  <2>2. p \in Providers /\ read \in BreakerRows /\ read \in Reads /\ enabled \in BOOLEAN /\ configs[p] \in BreakerRows
    BY <1>1, <2>1 DEF BreakerRows, Reads
  <2>3. /\ new \in BreakerRows /\ (enabled => new.until = "null") /\ (~enabled => new.until = read.until)
    BY <2>2 DEF R!Switched, BreakerRows
  <2> HIDE DEF new
  <2>4. R!Merged(configs[p], read, new).until = IF new.until # read.until THEN new.until ELSE configs[p].until
    BY <2>2, <2>3, MergedRow
  <2>5. /\ configs'[p].until = IF new.until # read.until THEN new.until ELSE configs[p].until
        /\ \A q \in Providers \ {p} : configs'[q] = configs[q]
    BY <1>1, <2>1, <2>2, <2>4
  <2>6. p \notin routerCrossed /\ enabled => configs'[p].until = "null"
    BY <2>1, <2>3, <2>5 DEF Switches
  <2>7. R!EnabledIsClosed'
    BY <2>1, <2>3, <2>5, <2>6 DEF Switches, R!EnabledIsClosed
  <2>8. \A j \in Jobs : worker'[j].at = "tripping" => worker'[j].provider \notin closed' \ routerCrossed'
    BY <2>1 DEF Switches
  <2>9. QED
    BY <2>1, <2>2, <2>7, <2>8 DEF Switches
<1>12. CASE UNCHANGED R!vars
  BY <1>12, SwitchRest DEF R!vars
<1>13. QED
  BY <1>2, <1>3, <1>4, <1>6, <1>7, <1>8, <1>9, <1>10, <1>11, <1>12 DEF R!Next

-----------------------------------------------------------------------------
\* A step of the services is one of Router or leaves its rows alone.
LEMMA RouterSteps == [Next]_vars => [R!Next]_R!vars
BY DEF Next, vars, TruthMoves, GoodsMove, StoryMoves, PostMoves, CutMoves, MediaMove, StaffMoves,
       SignMoves, BrandMoves, RouterMoves, router, R!vars

\* Router always has its invariants.
LEMMA RouterAlways == Spec => [](RouterInv /\ Switches)
<1>1. Init => RouterInv /\ Switches
  BY RouterInit, SwitchInit DEF Init
<1>2. RouterInv /\ Switches /\ [Next]_vars => (RouterInv /\ Switches)'
  BY RouterNext, SwitchNext, RouterSteps
<1>3. QED
  BY <1>1, <1>2, PTL DEF Spec

\* router.py, record_failure, record_success and set_enabled: whatever workers
\* and operators read and commit in whatever order, a breaker has trips
\* exactly when it was opened and not closed since. The provider of the
\* settings must be one the router knows.
THEOREM BreakersAreWhole == Spec => []TripsMatchBreaker
<1>1. RouterInv => TripsMatchBreaker
  BY DEF RouterInv, Breakers, Sound, TripsMatchBreaker, R!TripsMatchBreaker
<1>2. QED
  BY <1>1, RouterAlways, PTL

\* router.py, set_enabled: the breaker of a provider that an operator turned
\* on stays closed until a worker judges it anew, unless the two crossed.
THEOREM EnabledBreakersStayClosed == Spec => []EnabledIsClosed
<1>1. Switches => EnabledIsClosed
  BY DEF Switches, EnabledIsClosed
<1>2. QED
  BY <1>1, RouterAlways, PTL
-----------------------------------------------------------------------------
(* Types.                                                                  *)

Once(jobs) == jobs \in Seq(Jobs) /\ \A i, k \in 1 .. Len(jobs) : jobs[i] = jobs[k] => i = k

\* The jobs that are left are in the order they had, and j is not among them.
LEMMA RemoveFirstOnce ==
    ASSUME NEW jobs, Once(jobs), NEW j \in Jobs
    PROVE  LET left == R!RemoveFirst(jobs, j)
           IN  Once(left) /\ \A i \in 1 .. Len(left) : left[i] # j
<1> DEFINE n == Len(jobs)
           left == R!RemoveFirst(jobs, j)
<1>1. n \in Nat /\ jobs \in Seq(Jobs) /\ \A i \in 1 .. n : jobs[i] \in Jobs
  BY DEF Once
<1>2. CASE ~ \E i \in 1 .. n : jobs[i] = j
  BY <1>2 DEF R!RemoveFirst
<1>3. CASE \E i \in 1 .. n : jobs[i] = j
  <2>1. PICK p \in 1 .. n : jobs[p] = j
    BY <1>3
  <2> DEFINE I == {i \in 1 .. n : jobs[i] = j}
  <2>2. I = {p}
    BY <2>1 DEF Once
  <2>3. R!Min(I) = p
    BY <1>1, <2>1, <2>2 DEF R!Min
  <2>4. left = SubSeq(jobs, 1, p - 1) \o SubSeq(jobs, p + 1, n)
    <3>1. R!SelectInSeq(jobs, LAMBDA v : v = j) = p
      BY <2>2, <2>3 DEF R!SelectInSeq
    <3>2. left = R!RemoveAt(jobs, R!SelectInSeq(jobs, LAMBDA v : v = j))
      BY <1>3 DEF R!RemoveFirst
    <3> QED
      BY <3>1, <3>2 DEF R!RemoveAt
  <2> HIDE DEF I, left, n
  <2> DEFINE head == SubSeq(jobs, 1, p - 1)
             rest == SubSeq(jobs, p + 1, n)
  <2>5. head \in Seq(Jobs) /\ Len(head) = p - 1 /\ \A i \in 1 .. p - 1 : head[i] = jobs[i]
    BY <1>1, <2>1 DEF n
  <2>6. rest \in Seq(Jobs) /\ Len(rest) = n - p /\ \A i \in 1 .. n - p : rest[i] = jobs[p + i]
    BY <1>1, <2>1 DEF n
  <2> HIDE DEF head, rest
  <2>7. left = head \o rest
    BY <2>4 DEF head, rest
  <2>8. left \in Seq(Jobs) /\ Len(left) = n - 1
    <3>1. head \in Seq(Jobs) /\ rest \in Seq(Jobs)
      BY <2>5, <2>6
    <3>2. head \o rest \in Seq(Jobs)
      BY <3>1
    <3>3. Len(head \o rest) = Len(head) + Len(rest)
      BY <3>1
    <3>4. Len(head) + Len(rest) = n - 1
      BY <1>1, <2>1, <2>5, <2>6
    <3> QED
      BY <2>7, <3>2, <3>3, <3>4
  <2>9. \A i \in 1 .. n - 1 : left[i] = IF i < p THEN jobs[i] ELSE jobs[i + 1]
    BY <1>1, <2>1, <2>5, <2>6, <2>7
  <2>10. \A i, k \in 1 .. n - 1 : left[i] = left[k] => i = k
    BY <1>1, <2>1, <2>9 DEF Once, n
  <2>11. \A i \in 1 .. n - 1 : left[i] # j
    BY <1>1, <2>1, <2>9 DEF Once, n
  <2> QED
    BY <2>8, <2>10, <2>11 DEF Once, left
<1> QED
  BY <1>2, <1>3

RouterTyped ==
    /\ routedJobs \in [Jobs -> [status : {"QUEUED", "SUBMITTED", "COMPLETED", "FAILED", "TIMEOUT"},
                                provider : Providers, retries : 0 .. MaxRetries]]
    /\ Once(finished)
    /\ switches \in 0 .. MaxSwitches

\* A job that finishes, for the first time or again, is the last to have done so.
LEMMA FinishOnce ==
    ASSUME Once(finished), NEW j \in Jobs, R!Finish(j)
    PROVE  Once(finished')
<1> DEFINE left == R!RemoveFirst(finished, j)
<1>1. Once(left) /\ \A i \in 1 .. Len(left) : left[i] # j
  BY RemoveFirstOnce
<1>2. finished' = Append(left, j)
  BY DEF R!Finish
<1> HIDE DEF left
<1>3. /\ Len(left) \in Nat /\ finished' \in Seq(Jobs) /\ Len(finished') = Len(left) + 1
      /\ finished'[Len(left) + 1] = j /\ \A i \in 1 .. Len(left) : finished'[i] = left[i]
  BY <1>1, <1>2 DEF Once
<1> QED
  BY <1>1, <1>3 DEF Once

LEMMA RouterTypedNext ==
    ASSUME RouterInv, RouterTyped, [R!Next]_R!vars
    PROVE  RouterTyped'
<1> DEFINE Statuses == {"QUEUED", "SUBMITTED", "COMPLETED", "FAILED", "TIMEOUT"}
           Row == [status : Statuses, provider : Providers, retries : 0 .. MaxRetries]
<1>1. MaxRetries \in Nat /\ MaxSwitches \in Nat /\ routedJobs \in [Jobs -> Row] /\ Once(finished)
  BY BoundsAssumption DEF RouterTyped
<1>2. ASSUME NEW j \in Jobs, NEW row \in Row, routedJobs' = [routedJobs EXCEPT ![j] = row],
             UNCHANGED finished \/ R!Finish(j), UNCHANGED switches
      PROVE  RouterTyped'
  <2>1. routedJobs' \in [Jobs -> Row]
    BY <1>1, <1>2
  <2>2. Once(finished')
    BY <1>1, <1>2, FinishOnce
  <2> QED
    BY <1>2, <2>1, <2>2 DEF RouterTyped
<1>3. ASSUME UNCHANGED <<routedJobs, finished, switches>>
      PROVE  RouterTyped'
  BY <1>3 DEF RouterTyped
<1>4. ASSUME NEW j \in Jobs, R!Route(j)
      PROVE  RouterTyped'
  <2>1. CASE UNCHANGED routedJobs
    BY <1>3, <1>4, <2>1 DEF R!Route
  <2>2. CASE ~UNCHANGED routedJobs
    <3>1. PICK p \in R!Routed(Wanted[j]) : routedJobs' = [routedJobs EXCEPT ![j].provider = p]
      BY <1>4, <2>2 DEF R!Route
    <3> DEFINE row == [routedJobs[j] EXCEPT !.provider = p]
    <3>2. row \in Row /\ routedJobs' = [routedJobs EXCEPT ![j] = row]
      BY <1>1, <3>1, RoutedType
    <3> HIDE DEF row
    <3>3. UNCHANGED <<finished, switches>>
      BY <1>4 DEF R!Route
    <3> QED
      BY <1>2, <3>2, <3>3
  <2> QED
    BY <2>1, <2>2
<1>5. ASSUME NEW j \in Jobs, NEW next \in Statuses, routedJobs' = [routedJobs EXCEPT ![j].status = next],
             UNCHANGED finished \/ R!Finish(j), UNCHANGED switches
      PROVE  RouterTyped'
  <2> DEFINE row == [routedJobs[j] EXCEPT !.status = next]
  <2>1. row \in Row /\ routedJobs' = [routedJobs EXCEPT ![j] = row]
    BY <1>1, <1>5
  <2> HIDE DEF row
  <2> QED
    BY <1>2, <1>5, <2>1
<1>6. ASSUME NEW j \in Jobs, R!Submitted(j) \/ R!Fail(j) \/ R!TimeOut(j) \/ R!Complete(j)
      PROVE  RouterTyped'
  <2>1. \E next \in Statuses : routedJobs' = [routedJobs EXCEPT ![j].status = next]
    BY <1>6 DEF R!Submitted, R!Fail, R!TimeOut, R!Complete
  <2>2. (UNCHANGED finished \/ R!Finish(j)) /\ UNCHANGED switches
    BY <1>6 DEF R!Submitted, R!Fail, R!TimeOut, R!Complete
  <2> QED
    BY <1>5, <2>1, <2>2
<1>7. ASSUME NEW j \in Jobs, R!Requeue(j)
      PROVE  RouterTyped'
  <2> DEFINE row == [routedJobs[j] EXCEPT !.status = "QUEUED", !.retries = routedJobs[j].retries + 1]
  <2>1. /\ routedJobs[j].retries < MaxRetries /\ routedJobs' = [routedJobs EXCEPT ![j] = row]
        /\ (UNCHANGED finished \/ R!Finish(j)) /\ UNCHANGED switches
    BY <1>1, <1>7 DEF R!Requeue
  <2>2. routedJobs[j].retries + 1 \in 0 .. MaxRetries
    BY <1>1, <2>1
  <2>3. row \in Row
    BY <1>1, <2>2
  <2> HIDE DEF row
  <2> QED
    BY <1>2, <2>1, <2>3
<1>8. ASSUME NEW j \in Jobs, R!Judge(j) \/ R!Trip(j) \/ R!NoteLost(j) \/ R!ReadSuccess(j) \/ R!Close(j)
      PROVE  RouterTyped'
  BY <1>3, <1>8 DEF R!Judge, R!Trip, R!NoteLost, R!ReadSuccess, R!Close
<1>9. CASE R!Forget
  <2>1. finished # <<>> /\ finished' = Tail(finished) /\ UNCHANGED <<routedJobs, switches>>
    BY <1>9 DEF R!Forget
  <2>2. /\ Len(finished) \in Nat \ {0} /\ finished' \in Seq(Jobs) /\ Len(finished') = Len(finished) - 1
        /\ \A i \in 1 .. Len(finished) - 1 : finished'[i] = finished[i + 1]
    BY <1>1, <2>1 DEF Once
  <2>3. ASSUME NEW i \in 1 .. Len(finished'), NEW k \in 1 .. Len(finished'), finished'[i] = finished'[k]
        PROVE  i = k
    <3>1. i + 1 \in 1 .. Len(finished) /\ k + 1 \in 1 .. Len(finished)
      BY <2>2
    <3>2. finished[i + 1] = finished[k + 1]
      BY <2>2, <2>3
    <3>3. i + 1 = k + 1
      BY <1>1, <3>1, <3>2 DEF Once
    <3> QED
      BY <2>2, <3>3
  <2>4. Once(finished')
    BY <2>2, <2>3 DEF Once
  <2> QED
    BY <2>1, <2>4 DEF RouterTyped
<1>10. ASSUME NEW p \in Providers, NEW enabled \in BOOLEAN, R!OpenSwitch(p, enabled)
      PROVE  RouterTyped'
  <2>1. switches < MaxSwitches /\ switches' = switches + 1 /\ UNCHANGED <<routedJobs, finished>>
    BY <1>10 DEF R!OpenSwitch
  <2>2. switches' \in 0 .. MaxSwitches
    BY <1>1, <2>1 DEF RouterTyped
  <2> QED
    BY <2>1, <2>2 DEF RouterTyped
<1>11. CASE R!EnsureDefaults \/ (\E p \in Providers : R!Elapse(p)) \/ R!CommitSwitch \/ UNCHANGED R!vars
  BY <1>3, <1>11 DEF R!EnsureDefaults, R!Elapse, R!CommitSwitch, R!vars
<1> QED
  BY <1>4, <1>6, <1>7, <1>8, <1>9, <1>10, <1>11 DEF R!Next

LEMMA RouterIsTyped == Spec => []R!TypeOK
<1>1. Init => RouterTyped
  <2> SUFFICES ASSUME R!Init PROVE RouterTyped
    BY DEF Init
  <2>1. finished = <<>> /\ switches = 0
    BY DEF R!Init
  <2>2. Once(finished)
    BY <2>1 DEF Once
  <2> QED
    BY <2>1, <2>2, BoundsAssumption, RouterAssumption DEF R!Init, RouterTyped
<1>2. RouterInv /\ RouterTyped /\ [Next]_vars => RouterTyped'
  BY RouterTypedNext, RouterSteps
<1>3. RouterInv /\ RouterTyped => R!TypeOK
  <2> SUFFICES ASSUME RouterInv, RouterTyped PROVE R!TypeOK
    OBVIOUS
  <2>1. \A p \in Providers : configs[p].until \in {"absent", "null", "future", "past"} /\ configs[p].trips \in Nat
    BY DEF RouterInv, Breakers, BreakerRows
  <2>2. \A j \in Jobs :
            /\ routedJobs[j].status \in {"QUEUED", "SUBMITTED", "COMPLETED", "FAILED", "TIMEOUT"}
            /\ routedJobs[j].provider \in Providers /\ routedJobs[j].retries \in 0 .. MaxRetries
    BY DEF RouterTyped
  <2>3. R!IsInjective(finished)
    BY DEF RouterTyped, Once, R!IsInjective
  <2> QED
    BY <2>1, <2>2, <2>3 DEF R!TypeOK, RouterTyped
<1> QED
  BY <1>1, <1>2, <1>3, RouterAlways, PTL DEF Spec

-----------------------------------------------------------------------------
\* Whatever the services do, in whatever order they take turns, the rows,
\* transactions, queues and counters of every one of them keep their shapes,
\* a storyboard adds up to a number and no job is counted twice.
THEOREM ServicesAreTyped == Spec => []TypeOK
<1>1. /\ T!TypeOK /\ G!TypeOK /\ S!TypeOK /\ P!TypeOK /\ C!TypeOK
      /\ M!TypeOK /\ W!TypeOK /\ A!TypeOK /\ B!TypeOK /\ R!TypeOK
      => TypeOK
  BY DEF TypeOK
<1> QED
  BY <1>1, TruthIsTyped, GoodsAreTyped, StoryIsTyped, PostIsTyped, CutIsTyped, MediaIsTyped, StaffIsTyped,
     SignIsTyped, BrandIsTyped, RouterIsTyped, PTL
=============================================================================
