---------------------------- MODULE AccountProofs ----------------------------
(***************************************************************************)
(* Proofs about the people of a workspace: their tokens (SignIn), their    *)
(* roles (Membership) and the kits and templates they share (Branding).    *)
(*                                                                         *)
(* SignIn: SignInv adds to the property that the denial of a spent token   *)
(* reaches to its last half second (Denials), that a session only holds a  *)
(* token that was issued, and that two which hold one overlap (Holders).   *)
(*                                                                         *)
(* Membership: a request counts the owners and commits later. StaffSafe is *)
(* what is left of that count by then: while nothing crossed, whoever is   *)
(* about to unseat an owner leaves another one, whoever is about to change *)
(* or remove somebody else meets no owner, and a row that a request read   *)
(* is there until the request knows that it is gone.                       *)
(*                                                                         *)
(* Branding: a commit sends columns of a row it read onto a row that may   *)
(* say something else. Of a kit or template that two requests were never   *)
(* about at once (Tangles), the row still becomes what the request meant   *)
(* (KitsMeant, CountsMeant).                                               *)
(*                                                                         *)
(* The types of the three need how requests are counted, that a denial     *)
(* ends with its token or a second from now (SignTyped), and that no count *)
(* of uses, stored or about to be, exceeds the requests (BrandCounted).    *)
(***************************************************************************)
EXTENDS Services, FiniteSetTheorems, TLAPS

Times ==
    /\ now \in Int
    /\ ends \in [Tokens -> Int] /\ denied \in [Tokens -> Int]

\* A spent token is denied for as long as it would be valid, less the half
\* second that whole seconds cut off.
Denials == \A t \in spent : t \in A!Issued /\ denied[t] >= ends[t] - 1

Refreshing(s) == signTx[s].at = "refresh"

Holders ==
    /\ DOMAIN signTx = Sessions
    /\ \A s \in Sessions : Refreshing(s) => signTx[s].token \in A!Issued
    /\ \A s, o \in Sessions :
          s # o /\ Refreshing(s) /\ Refreshing(o) /\ signTx[s].token = signTx[o].token => signTx[s].token \in overlapped

SignInv == Times /\ Denials /\ Holders /\ A!RotatedOnce

-----------------------------------------------------------------------------
LEMMA SignInit == A!Init => SignInv
BY DEF A!Init, SignInv, Times, Denials, Holders, Refreshing, A!RotatedOnce, A!Idle, A!Issued

\* A denial reaches to the last half second of the token.
LEMMA DenialLasts ==
    ASSUME Times, NEW t \in A!Issued, A!Deny(t)
    PROVE  denied' \in [Tokens -> Int] /\ denied'[t] >= ends[t] - 1
           /\ \A u \in Tokens \ {t} : denied'[u] = denied[u]
<1> DEFINE left == (ends[t] - now) \div 2
           span == IF left < 1 THEN 1 ELSE left
<1>1. t \in Tokens /\ ends[t] \in Int /\ now \in Int /\ denied \in [Tokens -> Int]
  BY DEF Times, A!Issued
<1>2. left \in Int /\ ends[t] - now <= 2 * left + 1
  BY <1>1
<1>3. denied' = [denied EXCEPT ![t] = now + 2 * span]
  BY DEF A!Deny
<1> HIDE DEF left
<1>4. span \in Int /\ span >= left
  BY <1>2
<1> HIDE DEF span
<1>5. QED
  BY <1>1, <1>2, <1>3, <1>4

\* A new token was not issued before, so nobody holds it and it is not spent.
LEMMA IssueKeeps ==
    ASSUME Times, NEW t \in Tokens, A!Issue(t)
    PROVE  /\ ends' \in [Tokens -> Int]
           /\ \A u \in A!Issued : ends'[u] = ends[u] /\ u \in A!Issued'
<1>1. 2 * ((now + Lifetime) \div 2) \in Int
  BY SignAssumption DEF Times
<1>2. QED
  BY <1>1 DEF Times, A!Issue, A!Issued

\* Only the clock and the counters change, or a session lets go.
LEMMA LetGo ==
    ASSUME SignInv, NEW s \in Sessions, NEW t, t.at # "refresh", A!Go(s, t),
           Times', Denials',
           \A u \in A!Issued : u \in A!Issued' /\ ends'[u] = ends[u],
           UNCHANGED <<now, spent, overlapped>>
    PROVE  SignInv'
<1>1. DOMAIN signTx' = Sessions /\ ~Refreshing(s)' /\ \A o \in Sessions \ {s} : signTx'[o] = signTx[o]
  BY DEF SignInv, Holders, A!Go, Refreshing
<1>2. Holders'
  BY <1>1 DEF SignInv, Holders, Refreshing
<1>3. A!RotatedOnce'
  BY <1>1 DEF SignInv, Holders, Refreshing, A!RotatedOnce
<1>4. QED
  BY <1>2, <1>3 DEF SignInv

-----------------------------------------------------------------------------
LEMMA SignNext ==
    ASSUME SignInv, [A!Next]_A!vars
    PROVE  SignInv'
<1>1. ASSUME NEW s \in Sessions, A!Register(s) \/ A!LoginIncr(s) \/ A!LoginExpire(s) \/ A!LoginUnlimited(s) \/ A!Fail(s)
      PROVE  SignInv'
  <2>1. UNCHANGED <<ends, denied, now, spent, overlapped>>
    BY <1>1 DEF A!Register, A!LoginIncr, A!LoginExpire, A!LoginUnlimited, A!Fail, A!redis, A!history
  <2>2. Times' /\ Denials' /\ \A u \in A!Issued : u \in A!Issued' /\ ends'[u] = ends[u]
    BY <2>1 DEF SignInv, Times, Denials, A!Issued
  <2>3. PICK t : t.at # "refresh" /\ A!Go(s, t)
    <3>1. CASE A!Register(s)
      BY <3>1 DEF A!Register
    <3>2. CASE A!LoginIncr(s)
      BY <3>2 DEF A!LoginIncr
    <3>3. CASE A!LoginExpire(s)
      BY <3>3 DEF A!LoginExpire
    <3>4. CASE A!LoginUnlimited(s)
      BY <3>4 DEF A!LoginUnlimited
    <3>5. CASE A!Fail(s)
      BY <3>5 DEF A!Fail, A!Idle
    <3>6. QED
      BY <1>1, <3>1, <3>2, <3>3, <3>4, <3>5
  <2>4. QED
    BY <2>1, <2>2, <2>3, LetGo
<1>2. ASSUME NEW s \in Sessions, NEW t \in Tokens, A!CommitRegister(s, t) \/ A!LoginSucceeds(s, t)
      PROVE  SignInv'
  <2>1. A!Issue(t) /\ A!Go(s, A!Idle) /\ UNCHANGED <<denied, now, spent, overlapped>>
    BY <1>2 DEF A!CommitRegister, A!LoginSucceeds, A!redis, A!history
  <2>2. ends' \in [Tokens -> Int] /\ \A u \in A!Issued : ends'[u] = ends[u] /\ u \in A!Issued'
    BY <2>1, IssueKeeps DEF SignInv
  <2>3. Times' /\ Denials'
    BY <2>1, <2>2 DEF SignInv, Times, Denials
  <2>4. A!Idle.at # "refresh"
    BY DEF A!Idle
  <2>5. QED
    BY <2>1, <2>2, <2>3, <2>4, LetGo
<1>3. ASSUME NEW s \in Sessions, NEW t \in Tokens, A!Refresh(s, t)
      PROVE  SignInv'
  <2>1. Times' /\ Denials' /\ A!Issued' = A!Issued
    BY <1>3 DEF A!Refresh, A!redis, SignInv, Times, Denials, A!Issued
  <2>2. /\ t \in A!Issued /\ now >= denied[t]
        /\ DOMAIN signTx' = Sessions /\ signTx'[s] = [at |-> "refresh", token |-> t]
        /\ \A o \in Sessions \ {s} : signTx'[o] = signTx[o]
    BY <1>3 DEF A!Refresh, A!Valid, A!Revoked, A!Issued, A!Go, SignInv, Holders, Times
  <2>3. /\ \A o \in Sessions \ {s} : Refreshing(o) /\ signTx[o].token = t => t \in overlapped'
        /\ overlapped \subseteq overlapped'
    BY <1>3 DEF A!Refresh, A!Using, Refreshing
  <2>4. t \in A!Issued
    BY <2>2
  <2>5. Holders'
    <3>1. \A o \in Sessions : Refreshing(o)' => signTx'[o].token \in A!Issued'
      BY <2>1, <2>2, <2>4 DEF SignInv, Holders, Refreshing
    <3>2. ASSUME NEW o \in Sessions, NEW q \in Sessions, o # q, Refreshing(o)', Refreshing(q)',
                 signTx'[o].token = signTx'[q].token
          PROVE  signTx'[o].token \in overlapped'
      <4>1. CASE o # s /\ q # s
        BY <2>2, <2>3, <3>2, <4>1 DEF SignInv, Holders, Refreshing
      <4>2. CASE o = s \/ q = s
        BY <2>2, <2>3, <3>2, <4>2 DEF Refreshing
      <4>3. QED
        BY <4>1, <4>2
    <3>3. QED
      BY <2>2, <3>1, <3>2 DEF Holders
  <2>6. A!RotatedOnce'
    <3>1. UNCHANGED <<spent, ends, now>>
      BY <1>3 DEF A!Refresh
    <3>2. t \in spent => now >= ends[t] - 2
      BY <2>2, <2>4 DEF SignInv, Times, Denials, A!Issued
    <3>3. QED
      BY <2>2, <2>3, <3>1, <3>2 DEF SignInv, A!RotatedOnce
  <2>7. QED
    BY <2>1, <2>5, <2>6 DEF SignInv
<1>4. ASSUME NEW s \in Sessions, NEW t \in Tokens, A!Exchange(s, t)
      PROVE  SignInv'
  <2> DEFINE u == signTx[s].token
  <2>1. Refreshing(s) /\ u \in A!Issued /\ A!Deny(u) /\ A!Issue(t) /\ A!Go(s, A!Idle) /\ UNCHANGED <<now, overlapped>>
    BY <1>4 DEF A!Exchange, Refreshing, SignInv, Holders
  <2>2. ends' \in [Tokens -> Int] /\ \A v \in A!Issued : ends'[v] = ends[v] /\ v \in A!Issued'
    BY <2>1, IssueKeeps DEF SignInv
  <2>3. /\ denied' \in [Tokens -> Int] /\ denied'[u] >= ends[u] - 1
        /\ \A v \in Tokens \ {u} : denied'[v] = denied[v]
    BY <2>1, DenialLasts DEF SignInv
  <2>4. spent' = spent \cup {u}
    BY <2>1 DEF A!Deny
  <2>5. Times' /\ Denials'
    BY <2>1, <2>2, <2>3, <2>4 DEF SignInv, Times, Denials, A!Issued
  <2>6. DOMAIN signTx' = Sessions /\ ~Refreshing(s)' /\ \A o \in Sessions \ {s} : signTx'[o] = signTx[o]
    BY <2>1 DEF SignInv, Holders, A!Go, Refreshing, A!Idle
  <2>7. Holders'
    BY <2>1, <2>2, <2>6 DEF SignInv, Holders, Refreshing
  <2>8. \A o \in Sessions \ {s} : Refreshing(o) /\ signTx[o].token = u => u \in overlapped
    BY <2>1 DEF SignInv, Holders
  <2>9. A!RotatedOnce'
    BY <2>1, <2>2, <2>4, <2>6, <2>8 DEF SignInv, Holders, Refreshing, A!RotatedOnce
  <2>10. QED
    BY <2>5, <2>7, <2>9 DEF SignInv
<1>5. ASSUME NEW t \in Tokens, A!Logout(t)
      PROVE  SignInv'
  <2>1. t \in A!Issued /\ A!Deny(t) /\ UNCHANGED <<now, ends, signTx>>
    BY <1>5 DEF A!Logout, A!Valid
  <2>2. /\ denied' \in [Tokens -> Int] /\ denied'[t] >= ends[t] - 1
        /\ \A v \in Tokens \ {t} : denied'[v] = denied[v]
    BY <2>1, DenialLasts DEF SignInv
  <2>3. spent' = spent \cup {t} /\ overlapped \subseteq overlapped'
        /\ \A o \in Sessions : Refreshing(o) /\ signTx[o].token = t => t \in overlapped'
    BY <1>5, <2>1 DEF A!Logout, A!Deny, A!Using, Refreshing
  <2>4. Times' /\ Denials'
    BY <2>1, <2>2, <2>3 DEF SignInv, Times, Denials, A!Issued
  <2>5. Holders' /\ A!RotatedOnce'
    BY <2>1, <2>3 DEF SignInv, Holders, Refreshing, A!RotatedOnce, A!Issued
  <2>6. QED
    BY <2>4, <2>5 DEF SignInv
<1>6. CASE A!WindowPasses
  BY <1>6 DEF A!WindowPasses, A!history, SignInv, Times, Denials, Holders, Refreshing, A!RotatedOnce, A!Issued
<1>7. CASE A!Tick
  <2>1. now' = now + 1 /\ UNCHANGED <<ends, denied, signTx, spent, overlapped>>
    BY <1>7 DEF A!Tick, A!redis, A!history
  <2>2. Times' /\ Denials' /\ Holders'
    BY <2>1 DEF SignInv, Times, Denials, Holders, Refreshing, A!Issued
  <2>3. A!RotatedOnce'
    BY <2>1 DEF SignInv, Times, Holders, Refreshing, A!RotatedOnce, A!Issued
  <2>4. QED
    BY <2>2, <2>3 DEF SignInv
<1>8. CASE UNCHANGED A!vars
  BY <1>8 DEF A!vars, SignInv, Times, Denials, Holders, Refreshing, A!RotatedOnce, A!Issued
<1>9. QED
  BY <1>1, <1>2, <1>3, <1>4, <1>5, <1>6, <1>7, <1>8 DEF A!Next

-----------------------------------------------------------------------------
\* A step of the services is one of SignIn or leaves its rows alone.
LEMMA SignSteps == [Next]_vars => [A!Next]_A!vars
BY DEF Next, vars, TruthMoves, GoodsMove, StoryMoves, PostMoves, CutMoves, MediaMove, StaffMoves,
       SignMoves, BrandMoves, RouterMoves, sign, A!vars

\* SignIn always has its invariant.
LEMMA SignAlways == Spec => []SignInv
<1>1. Init => SignInv
  BY SignInit DEF Init
<1>2. SignInv /\ [Next]_vars => SignInv'
  BY SignNext, SignSteps
<1>3. QED
  BY <1>1, <1>2, PTL DEF Spec

\* auth.py, refresh and logout over tokens.py, revoke_refresh_token: a token
\* that was exchanged or signed out passes the check again only for a request
\* that overlapped the first, or in its last second.
THEOREM TokensRotateOnce == Spec => []RotatedOnce
<1>1. SignInv => RotatedOnce
  BY DEF SignInv, RotatedOnce
<1>2. QED
  BY <1>1, SignAlways, PTL

\* The counter is a number, and its end is somebody's business.
Counting ==
    /\ attempts \in Nat
    /\ DOMAIN signTx = Sessions
    /\ A!WindowEnds

LEMMA CountingNext ==
    ASSUME Counting, [A!Next]_A!vars
    PROVE  Counting'
<1>1. ASSUME NEW s \in Sessions, NEW t, A!Go(s, t), signTx[s].at # "counted" \/ orphaned', UNCHANGED attempts,
             orphaned => orphaned', UNCHANGED window
      PROVE  Counting'
  <2>1. DOMAIN signTx' = Sessions /\ \A o \in Sessions \ {s} : signTx'[o] = signTx[o]
    BY <1>1 DEF A!Go, Counting
  <2>2. A!WindowEnds'
    BY <1>1, <2>1 DEF Counting, A!WindowEnds
  <2>3. QED
    BY <1>1, <2>1, <2>2 DEF Counting
<1>2. ASSUME NEW s \in Sessions, A!Register(s)
      PROVE  Counting'
  BY <1>1, <1>2 DEF A!Register, A!redis, A!history, A!Idle, Counting
<1>3. ASSUME NEW s \in Sessions, A!LoginIncr(s)
      PROVE  Counting'
  <2>1. /\ signTx[s].at = "none" /\ attempts' = attempts + 1 /\ UNCHANGED <<window, orphaned>>
        /\ DOMAIN signTx' = Sessions /\ \A o \in Sessions \ {s} : signTx'[o] = signTx[o]
        /\ attempts' = 1 => signTx'[s].at = "counted"
    BY <1>3 DEF A!LoginIncr, A!Go, A!Idle, A!history, Counting
  <2>2. A!WindowEnds'
    BY <2>1 DEF Counting, A!WindowEnds
  <2>3. QED
    BY <2>1, <2>2 DEF Counting
<1>4. ASSUME NEW s \in Sessions, A!LoginExpire(s)
      PROVE  Counting'
  <2>1. /\ window' = (attempts > 0) /\ UNCHANGED attempts
        /\ DOMAIN signTx' = Sessions
    BY <1>4 DEF A!LoginExpire, A!Go, Counting
  <2>2. ~(attempts' > 0 /\ ~window')
    BY <2>1
  <2>3. QED
    BY <2>1, <2>2 DEF Counting, A!WindowEnds
<1>5. ASSUME NEW s \in Sessions, A!LoginUnlimited(s) \/ A!Fail(s)
      PROVE  Counting'
  <2>1. /\ \E t : A!Go(s, t)
        /\ orphaned' = (orphaned \/ signTx[s].at = "counted") /\ UNCHANGED <<attempts, window>>
    BY <1>5 DEF A!LoginUnlimited, A!Fail, A!redis
  <2>2. (orphaned => orphaned') /\ (signTx[s].at # "counted" \/ orphaned')
    BY <2>1
  <2>3. QED
    BY <1>1, <2>1, <2>2
<1>6. ASSUME NEW s \in Sessions, NEW t \in Tokens, A!CommitRegister(s, t) \/ A!Refresh(s, t) \/ A!Exchange(s, t)
      PROVE  Counting'
  <2>1. /\ \E u : A!Go(s, u)
        /\ signTx[s].at # "counted" /\ UNCHANGED <<attempts, window, orphaned>>
    BY <1>6 DEF A!CommitRegister, A!Refresh, A!Exchange, A!redis, A!history, A!Idle
  <2>2. QED
    BY <1>1, <2>1
<1>7. ASSUME NEW s \in Sessions, NEW t \in Tokens, A!LoginSucceeds(s, t)
      PROVE  Counting'
  <2>1. attempts' = 0 /\ DOMAIN signTx' = Sessions
    BY <1>7 DEF A!LoginSucceeds, A!Go, Counting
  <2>2. QED
    BY <2>1 DEF Counting, A!WindowEnds
<1>8. ASSUME A!WindowPasses
      PROVE  Counting'
  <2>1. attempts' = 0 /\ DOMAIN signTx' = Sessions
    BY <1>8 DEF A!WindowPasses, Counting
  <2>2. QED
    BY <2>1 DEF Counting, A!WindowEnds
<1>9. ASSUME \/ \E t \in Tokens : A!Logout(t)
             \/ A!Tick
             \/ UNCHANGED A!vars
      PROVE  Counting'
  <2>1. UNCHANGED <<attempts, window, orphaned, signTx>>
    BY <1>9 DEF A!Logout, A!Tick, A!redis, A!history, A!vars
  <2>2. QED
    BY <2>1 DEF Counting, A!WindowEnds
<1>10. QED
  BY <1>2, <1>3, <1>4, <1>5, <1>6, <1>7, <1>8, <1>9 DEF A!Next

\* ratelimit.py, check_rate_limit: INCR and EXPIRE are two calls. A counter
\* without an end is one whose first request is between them, or failed there.
THEOREM TheWindowEnds == Spec => []WindowEnds
<1>1. Init => Counting
  <2>1. A!Init => attempts = 0 /\ DOMAIN signTx = Sessions
    BY DEF A!Init
  <2>2. QED
    BY <2>1 DEF Init, Counting, A!WindowEnds
<1>2. Counting /\ [Next]_vars => Counting'
  BY CountingNext, SignSteps
<1>3. Counting => WindowEnds
  BY DEF Counting, WindowEnds
<1>4. QED
  BY <1>1, <1>2, <1>3, PTL DEF Spec

-----------------------------------------------------------------------------
AnyRole == W!Roles \cup {"none"}

Changes ==
    [op : {"invite", "change", "remove"}, member : Users, read : AnyRole, new : AnyRole, gone : BOOLEAN]

StaffTypes ==
    /\ role \in [Users -> AnyRole]
    /\ DOMAIN staffTx = Sessions
    /\ \A s \in W!Open :
          /\ staffTx[s] \in Changes
          /\ staffTx[s].op # "remove" => staffTx[s].new # "none"
          /\ staffTx[s].op = "remove" => staffTx[s].new = "none"
          /\ staffTx[s].op # "invite" => staffTx[s].read # "none"

\* The row that session s is about to write is there.
Holds(s) == s \in W!Open /\ staffTx[s].op # "invite" /\ ~staffTx[s].gone

StaffSafe ==
    /\ W!Owners # {}
    /\ \A s \in Sessions : Holds(s) => role[staffTx[s].member] # "none"
    /\ \A s \in Sessions : Holds(s) /\ W!Unseats(staffTx[s]) => \E u \in W!Owners : u # staffTx[s].member
    /\ \A s \in Sessions : Holds(s) /\ W!Lowers(staffTx[s], staffTx[s].member) => role[staffTx[s].member] # "OWNER"
    /\ \A s, o \in W!Open : s # o => ~W!Crosses(staffTx[s], staffTx[o])

StaffInv == StaffTypes /\ (staffCrossed \/ StaffSafe)

-----------------------------------------------------------------------------
LEMMA StaffCount == \A X : W!Cardinality(X) = Cardinality(X)
BY DEF W!Cardinality, Cardinality

\* An owner who is not the last one leaves another.
LEMMA AnotherOwner ==
    ASSUME W!NotLastOwner, NEW m \in Users
    PROVE  \E u \in W!Owners : u # m
<1>1. SUFFICES ASSUME W!Owners \subseteq {m} PROVE FALSE
  OBVIOUS
<1>2. IsFiniteSet({m}) /\ Cardinality({m}) = 1
  BY FS_Singleton
<1>3. IsFiniteSet(W!Owners) /\ Cardinality(W!Owners) \in Nat /\ Cardinality(W!Owners) <= 1
  BY <1>1, <1>2, FS_Subset, FS_CardinalityType
<1>4. QED
  BY <1>3, StaffCount DEF W!NotLastOwner

LEMMA StaffInit == W!Init => StaffInv
<1> SUFFICES ASSUME W!Init PROVE StaffInv
  OBVIOUS
<1>1. W!Open = {}
  BY DEF W!Init, W!Open
<1>2. StaffTypes
  BY <1>1 DEF W!Init, StaffTypes, AnyRole, W!Roles
<1>3. Founder \in W!Owners
  BY StaffAssumption DEF W!Init, W!Owners
<1>4. StaffSafe
  BY <1>1, <1>3 DEF StaffSafe, Holds
<1>5. QED
  BY <1>2, <1>4 DEF StaffInv

\* A request passes its checks and begins.
LEMMA StaffBegin ==
    ASSUME StaffInv, NEW s \in Sessions, NEW m \in Users, NEW new \in AnyRole,
           NEW op \in {"invite", "change", "remove"}, W!Begin(s, op, m, new),
           op = "remove" <=> new = "none",
           op # "invite" => role[m] # "none",
           op # "invite" /\ role[m] = "OWNER" /\ new # "OWNER" => W!NotLastOwner
    PROVE  StaffInv'
<1> DEFINE t == [op |-> op, member |-> m, read |-> role[m], new |-> new, gone |-> FALSE]
<1>1. t \in Changes /\ t # W!Idle
  BY DEF StaffInv, StaffTypes, Changes, W!Idle
<1>2. /\ t.op = op /\ t.member = m /\ t.read = role[m] /\ t.new = new /\ t.gone = FALSE
      /\ staffTx' = [staffTx EXCEPT ![s] = t] /\ UNCHANGED role
      /\ staffCrossed' = (staffCrossed \/ \E o \in W!Open : W!Crosses(t, staffTx[o]))
      /\ s \notin W!Open
  BY DEF W!Begin, W!Open
<1> HIDE DEF t
<1>3. /\ DOMAIN staffTx' = Sessions /\ staffTx'[s] = t /\ \A o \in Sessions \ {s} : staffTx'[o] = staffTx[o]
      /\ W!Open' = W!Open \cup {s}
  BY <1>1, <1>2 DEF StaffInv, StaffTypes, W!Open
<1>4. StaffTypes'
  BY <1>1, <1>2, <1>3 DEF StaffInv, StaffTypes
<1>5. ASSUME ~staffCrossed'
      PROVE  StaffSafe'
  <2>1. StaffSafe /\ \A o \in W!Open : ~W!Crosses(t, staffTx[o]) /\ ~W!Crosses(staffTx[o], t)
    BY <1>2, <1>5 DEF StaffInv, W!Crosses
  <2>2. W!Owners' = W!Owners /\ W!Owners # {}
    BY <1>2, <2>1 DEF StaffSafe, W!Owners
  <2>3. \A o \in Sessions \ {s} : Holds(o)' <=> Holds(o)
    BY <1>3 DEF Holds
  <2>4. \A o \in Sessions : Holds(o)' => role'[staffTx'[o].member] # "none"
    BY <1>2, <1>3, <2>1, <2>3 DEF StaffSafe, Holds
  <2>5. ASSUME NEW o \in Sessions, Holds(o)', W!Unseats(staffTx'[o])
        PROVE  \E u \in W!Owners' : u # staffTx'[o].member
    <3>1. CASE o = s
      <4>1. W!NotLastOwner
        BY <1>2, <1>3, <2>5, <3>1 DEF Holds, W!Unseats
      <4>2. QED
        BY <1>2, <1>3, <2>2, <3>1, <4>1, AnotherOwner
    <3>2. CASE o # s
      BY <1>3, <2>1, <2>2, <2>3, <2>5, <3>2 DEF StaffSafe
    <3>3. QED
      BY <3>1, <3>2
  <2>6. \A o \in Sessions : Holds(o)' /\ W!Lowers(staffTx'[o], staffTx'[o].member) => role'[staffTx'[o].member] # "OWNER"
    BY <1>2, <1>3, <2>1, <2>3 DEF StaffSafe, W!Lowers
  <2>7. \A o, q \in W!Open' : o # q => ~W!Crosses(staffTx'[o], staffTx'[q])
    BY <1>3, <2>1 DEF StaffSafe, W!Open
  <2>8. QED
    BY <2>2, <2>4, <2>5, <2>6, <2>7 DEF StaffSafe, W!Unseats, W!Lowers, W!Crosses, W!Raises
<1>6. QED
  BY <1>4, <1>5 DEF StaffInv

\* A request ends and leaves value in the row of its member. It takes an
\* owner's role only if it read one, and makes an owner only of somebody it
\* was to promote or whose row was not there.
LEMMA StaffEnd ==
    ASSUME StaffInv, NEW s \in W!Open, NEW value \in AnyRole,
           role' = [role EXCEPT ![staffTx[s].member] = value], UNCHANGED staffCrossed,
           DOMAIN staffTx' = Sessions, staffTx'[s] = W!Idle,
           \A o \in Sessions \ {s} :
              \/ staffTx'[o] = staffTx[o] /\ (Holds(o) /\ staffTx[o].member = staffTx[s].member => value # "none")
              \/ o \in W!Open /\ staffTx'[o] = [staffTx[o] EXCEPT !.gone = TRUE],
           ~staffCrossed /\ role[staffTx[s].member] = "OWNER" /\ value # "OWNER" => Holds(s) /\ W!Unseats(staffTx[s]),
           value = "OWNER" => W!Raises(staffTx[s], staffTx[s].member) \/ role[staffTx[s].member] \in {"none", "OWNER"}
    PROVE  StaffInv'
<1> DEFINE m == staffTx[s].member
<1>1. s \in Sessions /\ staffTx[s] \in Changes /\ m \in Users /\ role \in [Users -> AnyRole]
  BY DEF StaffInv, StaffTypes, W!Open, Changes
<1>2. role' \in [Users -> AnyRole] /\ role'[m] = value /\ \A u \in Users \ {m} : role'[u] = role[u]
  BY <1>1
<1>3. s \notin W!Open'
  BY DEF W!Open
<1>4. ASSUME NEW o \in W!Open'
      PROVE  /\ o \in Sessions \ {s} /\ o \in W!Open /\ staffTx[o] \in Changes /\ staffTx'[o] \in Changes
             /\ staffTx'[o].op = staffTx[o].op /\ staffTx'[o].member = staffTx[o].member
             /\ staffTx'[o].read = staffTx[o].read /\ staffTx'[o].new = staffTx[o].new
             /\ Holds(o)' => Holds(o) /\ (staffTx[o].member = m => value # "none")
  <2>1. o \in Sessions \ {s}
    BY <1>3 DEF W!Open
  <2>2. CASE staffTx'[o] = staffTx[o] /\ (Holds(o) /\ staffTx[o].member = staffTx[s].member => value # "none")
    BY <2>1, <2>2 DEF StaffInv, StaffTypes, W!Open, Holds
  <2>3. CASE o \in W!Open /\ staffTx'[o] = [staffTx[o] EXCEPT !.gone = TRUE]
    <3>1. staffTx[o] \in Changes
      BY <2>3 DEF StaffInv, StaffTypes
    <3>2. /\ staffTx'[o] \in Changes /\ staffTx'[o].gone = TRUE
          /\ staffTx'[o].op = staffTx[o].op /\ staffTx'[o].member = staffTx[o].member
          /\ staffTx'[o].read = staffTx[o].read /\ staffTx'[o].new = staffTx[o].new
      BY <2>3, <3>1 DEF Changes
    <3>3. QED
      BY <2>1, <2>3, <3>1, <3>2 DEF Holds
  <2>4. QED
    BY <2>1, <2>2, <2>3
<1>5. StaffTypes'
  BY <1>2, <1>4 DEF StaffInv, StaffTypes
<1>6. ASSUME ~staffCrossed'
      PROVE  StaffSafe'
  <2>1. StaffSafe /\ ~staffCrossed
    BY <1>6 DEF StaffInv
  <2>2. m \in W!Owners /\ value # "OWNER" => Holds(s) /\ W!Unseats(staffTx[s])
    BY <2>1 DEF W!Owners
  <2>3. \A u \in W!Owners : u # m \/ value = "OWNER" => u \in W!Owners'
    BY <1>2 DEF W!Owners
  <2>4. W!Owners' # {}
    <3>1. CASE m \in W!Owners /\ value # "OWNER"
      BY <1>1, <2>1, <2>2, <2>3, <3>1 DEF StaffSafe
    <3>2. CASE ~(m \in W!Owners /\ value # "OWNER")
      BY <2>1, <2>3, <3>2 DEF StaffSafe
    <3>3. QED
      BY <3>1, <3>2
  <2>5. ASSUME NEW o \in Sessions, Holds(o)'
        PROVE  role'[staffTx'[o].member] # "none"
    <3>1. o \in W!Open'
      BY <2>5 DEF Holds
    <3>2. QED
      BY <1>2, <1>4, <2>1, <2>5, <3>1 DEF StaffSafe, Changes
  <2>6. ASSUME NEW o \in Sessions, Holds(o)', W!Unseats(staffTx[o])
        PROVE  \E u \in W!Owners' : u # staffTx'[o].member
    <3>1. o \in W!Open' /\ o \in W!Open /\ o # s /\ Holds(o) /\ staffTx'[o].member = staffTx[o].member
      BY <1>4, <2>6 DEF Holds
    <3>2. PICK u \in W!Owners : u # staffTx[o].member
      BY <2>1, <2>6, <3>1 DEF StaffSafe
    <3>3. CASE u = m /\ value # "OWNER"
      <4>1. W!Crosses(staffTx[s], staffTx[o])
        BY <2>2, <2>6, <3>2, <3>3 DEF W!Crosses
      <4>2. QED
        BY <2>1, <3>1, <4>1 DEF StaffSafe
    <3>4. CASE ~(u = m /\ value # "OWNER")
      BY <2>3, <3>1, <3>2, <3>4
    <3>5. QED
      BY <3>3, <3>4
  <2>7. ASSUME NEW o \in Sessions, Holds(o)', W!Lowers(staffTx[o], staffTx[o].member)
        PROVE  role'[staffTx'[o].member] # "OWNER"
    <3>1. /\ o \in W!Open' /\ o \in W!Open /\ o # s /\ Holds(o)
          /\ staffTx'[o].member = staffTx[o].member /\ staffTx[o].member \in Users
      BY <1>4, <2>7 DEF Holds, Changes
    <3>2. role[staffTx[o].member] # "OWNER" /\ role[staffTx[o].member] # "none"
      BY <2>1, <2>7, <3>1 DEF StaffSafe
    <3>3. CASE staffTx[o].member = m /\ value = "OWNER"
      <4>1. W!Raises(staffTx[s], staffTx[o].member)
        BY <3>2, <3>3
      <4>2. W!Crosses(staffTx[s], staffTx[o])
        BY <2>7, <4>1 DEF W!Crosses
      <4>3. QED
        BY <2>1, <3>1, <4>2 DEF StaffSafe
    <3>4. CASE ~(staffTx[o].member = m /\ value = "OWNER")
      BY <1>2, <3>1, <3>2, <3>4
    <3>5. QED
      BY <3>3, <3>4
  <2>8. \A o \in W!Open' : W!Unseats(staffTx'[o]) <=> W!Unseats(staffTx[o])
    BY <1>4 DEF W!Unseats
  <2>9. \A o \in W!Open' : W!Lowers(staffTx'[o], staffTx'[o].member) <=> W!Lowers(staffTx[o], staffTx[o].member)
    BY <1>4 DEF W!Lowers
  <2>10. \A o, q \in W!Open' : W!Crosses(staffTx'[o], staffTx'[q]) <=> W!Crosses(staffTx[o], staffTx[q])
    BY <1>4 DEF W!Crosses, W!Unseats, W!Raises, W!Lowers
  <2>11. \A o, q \in W!Open' : o # q => ~W!Crosses(staffTx'[o], staffTx'[q])
    BY <1>4, <2>1, <2>10 DEF StaffSafe
  <2>12. \A o \in Sessions : Holds(o)' => o \in W!Open'
    BY DEF Holds
  <2>13. /\ \A o \in Sessions : Holds(o)' /\ W!Unseats(staffTx'[o]) => \E u \in W!Owners' : u # staffTx'[o].member
         /\ \A o \in Sessions : Holds(o)' /\ W!Lowers(staffTx'[o], staffTx'[o].member) => role'[staffTx'[o].member] # "OWNER"
    BY <2>6, <2>7, <2>8, <2>9, <2>12
  <2>14. QED
    BY <2>4, <2>5, <2>11, <2>13 DEF StaffSafe, W!Unseats, W!Lowers, W!Crosses, W!Raises
<1>7. QED
  BY <1>5, <1>6 DEF StaffInv

-----------------------------------------------------------------------------
LEMMA StaffNext ==
    ASSUME StaffInv, [W!Next]_W!vars
    PROVE  StaffInv'
<1>1. ASSUME NEW s \in Sessions, NEW caller \in Users, NEW m \in Users, NEW new \in W!Roles,
             W!Invite(s, caller, m, new) \/ W!UpdateMemberRole(s, caller, m, new)
      PROVE  StaffInv'
  <2>1. new \in AnyRole /\ new # "none"
    BY DEF W!Roles, AnyRole
  <2>2. CASE W!Invite(s, caller, m, new)
    BY <2>1, <2>2, StaffBegin DEF W!Invite
  <2>3. CASE W!UpdateMemberRole(s, caller, m, new)
    BY <2>1, <2>3, StaffBegin DEF W!UpdateMemberRole
  <2>4. QED
    BY <1>1, <2>2, <2>3
<1>2. ASSUME NEW s \in Sessions, NEW caller \in Users, NEW m \in Users, W!RemoveMember(s, caller, m)
      PROVE  StaffInv'
  <2>1. "none" \in AnyRole
    BY DEF AnyRole
  <2>2. QED
    BY <1>2, <2>1, StaffBegin DEF W!RemoveMember
<1>3. ASSUME NEW s \in Sessions, W!CommitInvite(s)
      PROVE  StaffInv'
  <2> DEFINE value == staffTx[s].new
  <2>1. s \in W!Open /\ staffTx[s] \in Changes /\ value \in AnyRole /\ value # "none"
    BY <1>3 DEF W!CommitInvite, StaffInv, StaffTypes, W!Open, W!Idle, Changes
  <2>2. /\ role' = [role EXCEPT ![staffTx[s].member] = value] /\ UNCHANGED staffCrossed
        /\ role[staffTx[s].member] = "none"
        /\ DOMAIN staffTx' = Sessions /\ staffTx'[s] = W!Idle /\ \A o \in Sessions \ {s} : staffTx'[o] = staffTx[o]
    BY <1>3 DEF W!CommitInvite, W!Finish, StaffInv, StaffTypes
  <2> HIDE DEF value
  <2>3. QED
    BY <2>1, <2>2, StaffEnd
<1>4. ASSUME NEW s \in Sessions, W!CommitChange(s)
      PROVE  StaffInv'
  <2> DEFINE m == staffTx[s].member
             value == IF staffTx[s].new = staffTx[s].read THEN role[m] ELSE staffTx[s].new
  <2>1. /\ s \in W!Open /\ staffTx[s] \in Changes /\ m \in Users /\ staffTx[s].op = "change"
        /\ role \in [Users -> AnyRole] /\ staffTx[s].new \in AnyRole /\ staffTx[s].new # "none"
    BY <1>4 DEF W!CommitChange, StaffInv, StaffTypes, W!Open, W!Idle, Changes
  <2>2. /\ role' = [role EXCEPT ![m] = value] /\ UNCHANGED staffCrossed /\ value \in AnyRole
        /\ DOMAIN staffTx' = Sessions /\ staffTx'[s] = W!Idle /\ \A o \in Sessions \ {s} : staffTx'[o] = staffTx[o]
    BY <1>4, <2>1 DEF W!CommitChange, W!Finish, StaffInv, StaffTypes
  <2>3. staffTx[s].new # staffTx[s].read => Holds(s)
    BY <1>4, <2>1 DEF W!CommitChange, Holds
  <2>4. ~staffCrossed /\ role[m] = "OWNER" /\ value # "OWNER" => Holds(s) /\ W!Unseats(staffTx[s])
    BY <2>1, <2>3 DEF StaffInv, StaffSafe, W!Unseats, W!Lowers
  <2>5. value = "OWNER" => W!Raises(staffTx[s], m) \/ role[m] \in {"none", "OWNER"}
    BY <2>1 DEF W!Raises
  <2>6. CASE ~staffCrossed
    <3>1. \A o \in Sessions : Holds(o) /\ staffTx[o].member = m => value # "none"
      BY <2>1, <2>6 DEF StaffInv, StaffSafe
    <3> HIDE DEF value
    <3>2. QED
      BY <2>1, <2>2, <2>4, <2>5, <3>1, StaffEnd
  <2>7. CASE staffCrossed
    <3>1. StaffTypes'
      BY <2>1, <2>2 DEF StaffInv, StaffTypes, W!Open
    <3>2. QED
      BY <2>2, <2>7, <3>1 DEF StaffInv
  <2>8. QED
    BY <2>6, <2>7
<1>5. ASSUME NEW s \in Sessions, W!CommitRemove(s)
      PROVE  StaffInv'
  <2> DEFINE m == staffTx[s].member
             value == IF staffTx[s].gone THEN role[m] ELSE "none"
  <2>1. /\ s \in W!Open /\ staffTx[s] \in Changes /\ m \in Users /\ staffTx[s].op = "remove"
        /\ staffTx[s].new = "none" /\ staffTx[s].read # "none" /\ staffTx[s].gone \in BOOLEAN
        /\ role \in [Users -> AnyRole]
    BY <1>5 DEF W!CommitRemove, StaffInv, StaffTypes, W!Open, W!Idle, Changes
  <2>2. /\ role' = [role EXCEPT ![m] = value] /\ UNCHANGED staffCrossed /\ value \in AnyRole
        /\ DOMAIN staffTx' = Sessions /\ staffTx'[s] = W!Idle
    BY <1>5, <2>1 DEF W!CommitRemove, StaffInv, StaffTypes, AnyRole
  <2>3. ASSUME NEW o \in Sessions \ {s}
        PROVE  IF staffTx[o].op \in {"change", "remove"} /\ staffTx[o].member = m /\ ~staffTx[s].gone
               THEN o \in W!Open /\ staffTx'[o] = [staffTx[o] EXCEPT !.gone = TRUE]
               ELSE staffTx'[o] = staffTx[o]
    BY <1>5 DEF W!CommitRemove, W!Open, W!Idle
  <2>4. ~staffCrossed /\ role[m] = "OWNER" /\ value # "OWNER" => Holds(s) /\ W!Unseats(staffTx[s])
    BY <2>1 DEF StaffInv, StaffSafe, W!Unseats, W!Lowers, Holds
  <2>5. value = "OWNER" => role[m] = "OWNER"
    OBVIOUS
  <2>6. CASE ~staffCrossed
    <3>1. \A o \in Sessions : Holds(o) /\ staffTx[o].member = m => role[m] # "none"
      BY <2>1, <2>6 DEF StaffInv, StaffSafe
    <3>2. \A o \in Sessions : Holds(o) => staffTx[o].op \in {"change", "remove"}
      BY DEF Holds, StaffInv, StaffTypes, Changes
    <3>3. ASSUME NEW o \in Sessions \ {s}
          PROVE  \/ staffTx'[o] = staffTx[o] /\ (Holds(o) /\ staffTx[o].member = m => value # "none")
                 \/ o \in W!Open /\ staffTx'[o] = [staffTx[o] EXCEPT !.gone = TRUE]
      BY <2>3, <3>1, <3>2
    <3> HIDE DEF value
    <3>4. QED
      BY <2>1, <2>2, <2>4, <2>5, <3>3, StaffEnd
  <2>7. CASE staffCrossed
    <3>1. role' \in [Users -> AnyRole]
      BY <2>1, <2>2
    <3>2. ASSUME NEW o \in W!Open'
          PROVE  /\ o \in W!Open /\ staffTx'[o] \in Changes
                 /\ staffTx'[o].op = staffTx[o].op /\ staffTx'[o].read = staffTx[o].read /\ staffTx'[o].new = staffTx[o].new
      <4>1. o \in Sessions \ {s}
        BY <2>2 DEF W!Open
      <4>2. CASE staffTx'[o] = staffTx[o]
        BY <4>1, <4>2 DEF W!Open, StaffInv, StaffTypes
      <4>3. CASE o \in W!Open /\ staffTx'[o] = [staffTx[o] EXCEPT !.gone = TRUE]
        <5>1. staffTx[o] \in Changes
          BY <4>3 DEF StaffInv, StaffTypes
        <5>2. QED
          BY <4>3, <5>1 DEF Changes
      <4>4. QED
        BY <2>3, <4>1, <4>2, <4>3
    <3>3. StaffTypes'
      BY <2>2, <3>1, <3>2 DEF StaffInv, StaffTypes
    <3>4. QED
      BY <2>2, <2>7, <3>3 DEF StaffInv
  <2>8. QED
    BY <2>6, <2>7
<1>6. ASSUME NEW s \in Sessions, W!Rollback(s)
      PROVE  StaffInv'
  <2>1. /\ s \in W!Open /\ UNCHANGED <<role, staffCrossed>>
        /\ DOMAIN staffTx' = Sessions /\ staffTx'[s] = W!Idle /\ \A o \in Sessions \ {s} : staffTx'[o] = staffTx[o]
    BY <1>6 DEF W!Rollback, W!Finish, W!Open, StaffInv, StaffTypes
  <2>2. StaffTypes'
    BY <2>1 DEF StaffInv, StaffTypes, W!Open
  <2>3. ASSUME ~staffCrossed'
        PROVE  StaffSafe'
    <3>1. StaffSafe
      BY <2>1, <2>3 DEF StaffInv
    <3>2. W!Owners' = W!Owners /\ W!Open' = W!Open \ {s}
      BY <2>1 DEF W!Owners, W!Open
    <3>3. \A o \in Sessions : Holds(o)' => Holds(o) /\ staffTx'[o] = staffTx[o]
      BY <2>1, <3>2 DEF Holds, W!Open
    <3>4. \A o \in W!Open' : o \in W!Open /\ staffTx'[o] = staffTx[o]
      BY <2>1, <3>2 DEF W!Open
    <3>5. QED
      BY <2>1, <3>1, <3>2, <3>3, <3>4 DEF StaffSafe, W!Unseats, W!Lowers, W!Crosses, W!Raises
  <2>4. QED
    BY <2>2, <2>3 DEF StaffInv
<1>7. CASE UNCHANGED W!vars
  BY <1>7 DEF W!vars, StaffInv, StaffTypes, StaffSafe, Holds, W!Open, W!Owners, W!Unseats, W!Lowers, W!Crosses, W!Raises
<1>8. QED
  BY <1>1, <1>2, <1>3, <1>4, <1>5, <1>6, <1>7 DEF W!Next

-----------------------------------------------------------------------------
\* A step of the services is one of Membership or leaves its rows alone.
LEMMA StaffSteps == [Next]_vars => [W!Next]_W!vars
BY DEF Next, vars, TruthMoves, GoodsMove, StoryMoves, PostMoves, CutMoves, MediaMove, StaffMoves,
       SignMoves, BrandMoves, RouterMoves, staff, W!vars

\* Membership always has its invariant.
LEMMA StaffAlways == Spec => []StaffInv
<1>1. Init => StaffInv
  BY StaffInit DEF Init
<1>2. StaffInv /\ [Next]_vars => StaffInv'
  BY StaffNext, StaffSteps
<1>3. QED
  BY <1>1, <1>2, PTL DEF Spec

\* workspaces.py, _ensure_not_last_owner: a workspace that was created with an
\* owner has one after any sequence of invitations, promotions, demotions and
\* removals, however they interleave, until two of them cross.
THEOREM AnOwnerRemains == Spec => []OwnerRemains
<1>1. StaffInv => OwnerRemains
  BY DEF StaffInv, StaffSafe, OwnerRemains, W!OwnerRemains
<1>2. QED
  BY <1>1, StaffAlways, PTL

-----------------------------------------------------------------------------
RowStates == {"none", "live", "deleted"}
KitRow == [state : RowStates, default : BOOLEAN]
TemplateRow == [state : RowStates, fits : BOOLEAN, count : Nat]

\* The columns that are sent, from rows of that shape.
KitColumns == {B!Changed(old, new) : old \in KitRow, new \in KitRow}
TemplateColumns == {B!Changed(old, new) : old \in TemplateRow, new \in TemplateRow}

BrandTypes ==
    /\ kits \in [Kits -> KitRow]
    /\ templates \in [Templates -> TemplateRow]
    /\ applied \in [Templates -> Nat]
    /\ DOMAIN brandTx = Sessions
    /\ \A s \in Sessions : brandTx[s].op = "kit" =>
          /\ brandTx[s].kit \in Kits /\ brandTx[s].clears \subseteq Kits
          /\ brandTx[s].new \in KitRow /\ brandTx[s].sent \in KitColumns
    /\ \A s \in Sessions : brandTx[s].op = "template" =>
          /\ brandTx[s].template \in Templates /\ brandTx[s].applies \in {0, 1}
          /\ brandTx[s].sent \in TemplateColumns

\* What two requests are about is known to be tangled,
Tangles ==
    \A s, o \in Sessions : s # o => B!About(brandTx[s]) \cap B!About(brandTx[o]) \subseteq brandTangled

\* so a commit on anything else makes of the row what the request meant,
KitsMeant ==
    \A s \in Sessions : brandTx[s].op = "kit" =>
        LET t == brandTx[s]
        IN  /\ B!Overwritten(kits[t.kit], t.sent) = t.new
            /\ t.new.default => t.new.state = "live"
            /\ ~t.new.default => t.clears = {}
            /\ t.kit \notin t.clears

CountsMeant ==
    \A s \in Sessions : brandTx[s].op = "template" /\ brandTx[s].template \notin brandTangled =>
        LET t == brandTx[s]
        IN  B!Overwritten(templates[t.template], t.sent).count = applied[t.template] + t.applies

\* and there is one default at most, the kit named last.
OneDefault == B!Defaults = named /\ (named = {} \/ \E k \in Kits : named = {k})

BrandInv ==
    /\ BrandTypes /\ Tangles
    /\ brandTangled \cap Kits # {} \/ (KitsMeant /\ OneDefault)
    /\ CountsMeant /\ B!UsesCounted

-----------------------------------------------------------------------------
\* What a flush leaves of a row has its shape, and is the new row if the old
\* one is still there.
LEMMA KitFlush ==
    /\ \A row \in KitRow, sent \in KitColumns : B!Overwritten(row, sent) \in KitRow
    /\ \A row \in KitRow, new \in KitRow : B!Overwritten(row, B!Changed(row, new)) = new
<1>1. ASSUME NEW row \in KitRow, NEW old \in KitRow, NEW new \in KitRow
      PROVE  B!Overwritten(row, B!Changed(old, new)) =
               [state   |-> IF new.state # old.state THEN new.state ELSE row.state,
                default |-> IF new.default # old.default THEN new.default ELSE row.default]
  <2>1. DOMAIN row = {"state", "default"} /\ DOMAIN new = {"state", "default"}
    BY DEF KitRow
  <2>2. /\ DOMAIN B!Changed(old, new) = {c \in {"state", "default"} : new[c] # old[c]}
        /\ \A c \in {"state", "default"} : new[c] # old[c] => B!Changed(old, new)[c] = new[c]
    BY <2>1 DEF B!Changed
  <2>3. QED
    BY <2>1, <2>2 DEF B!Overwritten
<1>2. ASSUME NEW row \in KitRow, NEW old \in KitRow, NEW new \in KitRow
      PROVE  B!Overwritten(row, B!Changed(old, new)) \in KitRow
  <2>1. new.state \in RowStates /\ row.state \in RowStates /\ new.default \in BOOLEAN /\ row.default \in BOOLEAN
    BY DEF KitRow
  <2>2. \A a \in RowStates, b \in BOOLEAN : [state |-> a, default |-> b] \in KitRow
    BY DEF KitRow
  <2>3. /\ (IF new.state # old.state THEN new.state ELSE row.state) \in RowStates
        /\ (IF new.default # old.default THEN new.default ELSE row.default) \in BOOLEAN
    BY <2>1
  <2>4. QED
    BY <1>1, <2>2, <2>3
<1>3. ASSUME NEW row \in KitRow, NEW new \in KitRow
      PROVE  B!Overwritten(row, B!Changed(row, new)) = new
  <2>1. new = [state |-> new.state, default |-> new.default]
    BY DEF KitRow
  <2>2. QED
    BY <1>1, <2>1
<1>4. QED
  BY <1>2, <1>3 DEF KitColumns

LEMMA TemplateFlush ==
    /\ \A row \in TemplateRow, sent \in TemplateColumns : B!Overwritten(row, sent) \in TemplateRow
    /\ \A row \in TemplateRow, new \in TemplateRow : B!Overwritten(row, B!Changed(row, new)) = new
<1>1. ASSUME NEW row \in TemplateRow, NEW old \in TemplateRow, NEW new \in TemplateRow
      PROVE  B!Overwritten(row, B!Changed(old, new)) =
               [state |-> IF new.state # old.state THEN new.state ELSE row.state,
                fits  |-> IF new.fits # old.fits THEN new.fits ELSE row.fits,
                count |-> IF new.count # old.count THEN new.count ELSE row.count]
  <2>1. DOMAIN row = {"state", "fits", "count"} /\ DOMAIN new = {"state", "fits", "count"}
    BY DEF TemplateRow
  <2>2. /\ DOMAIN B!Changed(old, new) = {c \in {"state", "fits", "count"} : new[c] # old[c]}
        /\ \A c \in {"state", "fits", "count"} : new[c] # old[c] => B!Changed(old, new)[c] = new[c]
    BY <2>1 DEF B!Changed
  <2>3. QED
    BY <2>1, <2>2 DEF B!Overwritten
<1>2. ASSUME NEW row \in TemplateRow, NEW old \in TemplateRow, NEW new \in TemplateRow
      PROVE  B!Overwritten(row, B!Changed(old, new)) \in TemplateRow
  <2>1. new.state \in RowStates /\ row.state \in RowStates /\ new.fits \in BOOLEAN /\ row.fits \in BOOLEAN /\ new.count \in Nat /\ row.count \in Nat
    BY DEF TemplateRow
  <2>2. \A a \in RowStates, b \in BOOLEAN, c \in Nat : [state |-> a, fits |-> b, count |-> c] \in TemplateRow
    BY DEF TemplateRow
  <2>3. /\ (IF new.state # old.state THEN new.state ELSE row.state) \in RowStates
        /\ (IF new.fits # old.fits THEN new.fits ELSE row.fits) \in BOOLEAN
        /\ (IF new.count # old.count THEN new.count ELSE row.count) \in Nat
    BY <2>1
  <2>4. QED
    BY <1>1, <2>2, <2>3
<1>3. ASSUME NEW row \in TemplateRow, NEW new \in TemplateRow
      PROVE  B!Overwritten(row, B!Changed(row, new)) = new
  <2>1. new = [state |-> new.state, fits |-> new.fits, count |-> new.count]
    BY DEF TemplateRow
  <2>2. QED
    BY <1>1, <2>1
<1>4. QED
  BY <1>2, <1>3 DEF TemplateColumns

LEMMA BrandCount == \A X : B!Cardinality(X) = Cardinality(X)
BY DEF B!Cardinality, Cardinality

LEMMA BrandInit == B!Init => BrandInv
<1> SUFFICES ASSUME B!Init PROVE BrandInv
  OBVIOUS
<1>1. \A s \in Sessions : brandTx[s].op = "none" /\ B!About(brandTx[s]) = {}
  BY DEF B!Init, B!Idle, B!About
<1>2. BrandTypes /\ Tangles /\ KitsMeant /\ CountsMeant
  BY <1>1 DEF B!Init, BrandTypes, Tangles, KitsMeant, CountsMeant, B!NoKit, B!NoTemplate, KitRow, TemplateRow, RowStates
<1>3. OneDefault /\ B!UsesCounted
  BY DEF B!Init, OneDefault, B!Defaults, B!DefaultsOf, B!NoKit, B!NoTemplate, B!UsesCounted
<1>4. QED
  BY <1>2, <1>3 DEF BrandInv

-----------------------------------------------------------------------------
\* A request about a kit begins.
LEMMA OnKitKeeps ==
    ASSUME BrandInv, NEW s \in Sessions, NEW k \in Kits, NEW new \in KitRow, NEW clears \in SUBSET Kits,
           B!OnKit(s, k, kits[k], new, clears),
           new.default => new.state = "live", ~new.default => clears = {}, k \notin clears
    PROVE  BrandInv'
<1> DEFINE t == [op |-> "kit", kit |-> k, clears |-> clears, new |-> new, sent |-> B!Changed(kits[k], new)]
<1>1. /\ DOMAIN brandTx' = Sessions /\ brandTx'[s] = t /\ \A o \in Sessions \ {s} : brandTx'[o] = brandTx[o]
      /\ UNCHANGED <<kits, templates, named, applied>>
      /\ brandTangled' = brandTangled \cup (B!About(t) \cap UNION {B!About(brandTx[o]) : o \in Sessions \ {s}})
  BY DEF B!OnKit, B!Begin, BrandInv, BrandTypes
<1>2. /\ t.op = "kit" /\ t.kit = k /\ t.clears = clears /\ t.new = new /\ t.sent = B!Changed(kits[k], new)
      /\ kits[k] \in KitRow /\ t.sent \in KitColumns
  BY DEF BrandInv, BrandTypes, KitColumns
<1> HIDE DEF t
<1>3. BrandTypes'
  BY <1>1, <1>2 DEF BrandInv, BrandTypes
<1>4. Tangles'
  <2>1. \A o \in Sessions \ {s} : B!About(t) \cap B!About(brandTx[o]) \subseteq brandTangled'
    BY <1>1
  <2>2. QED
    BY <1>1, <2>1 DEF BrandInv, Tangles, B!About
<1>5. B!Overwritten(kits[k], t.sent) = new
  BY <1>2, KitFlush
<1>6. KitsMeant => KitsMeant'
  BY <1>1, <1>2, <1>5 DEF KitsMeant, B!Overwritten
<1>7. OneDefault => OneDefault'
  BY <1>1 DEF OneDefault, B!Defaults, B!DefaultsOf
<1>8. CountsMeant' /\ B!UsesCounted'
  BY <1>1, <1>2 DEF BrandInv, CountsMeant, B!UsesCounted, B!Overwritten
<1>9. brandTangled' \cap Kits # {} \/ (KitsMeant' /\ OneDefault')
  BY <1>1, <1>6, <1>7 DEF BrandInv
<1>10. QED
  BY <1>3, <1>4, <1>8, <1>9 DEF BrandInv

\* A request about a template begins.
LEMMA OnTemplateKeeps ==
    ASSUME BrandInv, NEW s \in Sessions, NEW m \in Templates, NEW new \in TemplateRow, NEW applies \in {0, 1},
           B!OnTemplate(s, m, templates[m], new, applies), new.count = templates[m].count + applies
    PROVE  BrandInv'
<1> DEFINE t == [op |-> "template", template |-> m, sent |-> B!Changed(templates[m], new), applies |-> applies]
<1>1. /\ DOMAIN brandTx' = Sessions /\ brandTx'[s] = t /\ \A o \in Sessions \ {s} : brandTx'[o] = brandTx[o]
      /\ UNCHANGED <<kits, templates, named, applied>>
      /\ brandTangled' = brandTangled \cup (B!About(t) \cap UNION {B!About(brandTx[o]) : o \in Sessions \ {s}})
  BY DEF B!OnTemplate, B!Begin, BrandInv, BrandTypes
<1>2. /\ t.op = "template" /\ t.template = m /\ t.applies = applies /\ t.sent = B!Changed(templates[m], new)
      /\ templates[m] \in TemplateRow /\ t.sent \in TemplateColumns
  BY DEF BrandInv, BrandTypes, TemplateColumns
<1> HIDE DEF t
<1>3. BrandTypes'
  BY <1>1, <1>2 DEF BrandInv, BrandTypes
<1>4. Tangles'
  <2>1. \A o \in Sessions \ {s} : B!About(t) \cap B!About(brandTx[o]) \subseteq brandTangled'
    BY <1>1
  <2>2. QED
    BY <1>1, <2>1 DEF BrandInv, Tangles, B!About
<1>5. m \notin brandTangled' => B!Overwritten(templates[m], t.sent).count = applied[m] + applies
  <2>1. B!Overwritten(templates[m], t.sent) = new
    BY <1>2, TemplateFlush
  <2>2. QED
    BY <1>1, <2>1 DEF BrandInv, B!UsesCounted
<1>6. KitsMeant => KitsMeant'
  BY <1>1, <1>2 DEF KitsMeant, B!Overwritten
<1>7. OneDefault => OneDefault'
  BY <1>1 DEF OneDefault, B!Defaults, B!DefaultsOf
<1>8. CountsMeant'
  <2>1. ASSUME NEW o \in Sessions, brandTx'[o].op = "template", brandTx'[o].template \notin brandTangled'
        PROVE  B!Overwritten(templates[brandTx'[o].template], brandTx'[o].sent).count
                 = applied[brandTx'[o].template] + brandTx'[o].applies
    <3>1. CASE o = s
      BY <1>1, <1>2, <1>5, <2>1, <3>1
    <3>2. CASE o # s
      BY <1>1, <2>1, <3>2 DEF BrandInv, CountsMeant
    <3>3. QED
      BY <3>1, <3>2
  <2>2. QED
    BY <1>1, <2>1 DEF CountsMeant, B!Overwritten
<1>9. B!UsesCounted'
  BY <1>1 DEF BrandInv, B!UsesCounted
<1>10. brandTangled' \cap Kits # {} \/ (KitsMeant' /\ OneDefault')
  BY <1>1, <1>6, <1>7 DEF BrandInv
<1>11. QED
  BY <1>3, <1>4, <1>8, <1>9, <1>10 DEF BrandInv

-----------------------------------------------------------------------------
LEMMA CommitKitKeeps ==
    ASSUME BrandInv, NEW s \in Sessions, B!CommitKit(s)
    PROVE  BrandInv'
<1> PICK k, clears, new, sent :
        k = brandTx[s].kit /\ clears = brandTx[s].clears /\ new = brandTx[s].new /\ sent = brandTx[s].sent
  OBVIOUS
<1> DEFINE cleared == [i \in Kits |-> IF i \in clears THEN [kits[i] EXCEPT !.default = FALSE] ELSE kits[i]]
           written == [cleared EXCEPT ![k] = B!Overwritten(cleared[k], sent)]
<1>1. /\ brandTx[s].op = "kit" /\ Cardinality(B!DefaultsOf(written)) <= 1 /\ kits' = written
      /\ named' = (IF new.default THEN {k} ELSE named \ {k})
      /\ DOMAIN brandTx' = Sessions /\ brandTx'[s] = B!Idle /\ \A o \in Sessions \ {s} : brandTx'[o] = brandTx[o]
      /\ UNCHANGED <<templates, applied, brandTangled>>
  BY BrandCount DEF B!CommitKit, BrandInv, BrandTypes
<1>2. k \in Kits /\ clears \subseteq Kits /\ new \in KitRow /\ sent \in KitColumns /\ kits \in [Kits -> KitRow]
  BY <1>1 DEF BrandInv, BrandTypes
<1>3. cleared \in [Kits -> KitRow]
  BY <1>2 DEF KitRow
<1>4. written \in [Kits -> KitRow]
  <2> HIDE DEF cleared
  <2>1. B!Overwritten(cleared[k], sent) \in KitRow
    BY <1>2, <1>3, KitFlush
  <2>2. QED
    BY <1>3, <2>1
<1>5. \A i \in Kits \ {k} : written[i] = IF i \in clears THEN [kits[i] EXCEPT !.default = FALSE] ELSE kits[i]
  BY <1>2
<1>6. k \notin clears => written[k] = B!Overwritten(kits[k], sent)
  BY <1>2
<1> HIDE DEF cleared, written
<1>7. \A o \in Sessions : B!About(brandTx'[o]) \subseteq B!About(brandTx[o])
  BY <1>1 DEF B!About, B!Idle
<1>8. \A o \in Sessions : brandTx'[o].op # "none" => o # s /\ brandTx'[o] = brandTx[o]
  BY <1>1 DEF B!Idle
<1>9. BrandTypes'
  BY <1>1, <1>4, <1>8 DEF BrandInv, BrandTypes
<1>10. Tangles'
  BY <1>1, <1>7 DEF BrandInv, Tangles
<1>11. CountsMeant' /\ B!UsesCounted'
  BY <1>1, <1>8 DEF BrandInv, CountsMeant, B!UsesCounted, B!Overwritten
<1>12. ASSUME brandTangled \cap Kits = {}
       PROVE  KitsMeant' /\ OneDefault'
  <2>1. /\ KitsMeant /\ B!Defaults = named /\ (named = {} \/ \E i \in Kits : named = {i})
        /\ k \notin clears /\ written[k] = new /\ (new.default => new.state = "live") /\ (~new.default => clears = {})
    BY <1>1, <1>6, <1>12 DEF BrandInv, KitsMeant, OneDefault
  <2>2. ASSUME NEW o \in Sessions, brandTx'[o].op = "kit"
        PROVE  kits'[brandTx'[o].kit] = kits[brandTx'[o].kit]
    <3>1. o # s /\ brandTx'[o] = brandTx[o] /\ brandTx[o].kit \in Kits
      BY <1>8, <2>2 DEF BrandInv, BrandTypes
    <3>2. brandTx[o].kit \in B!About(brandTx[o]) /\ {k} \cup clears = B!About(brandTx[s])
      BY <1>1, <2>2, <3>1 DEF B!About
    <3>3. brandTx[o].kit \notin {k} \cup clears
      BY <1>12, <3>1, <3>2 DEF BrandInv, Tangles
    <3>4. QED
      BY <1>1, <1>5, <3>1, <3>3
  <2>3. KitsMeant'
    BY <1>8, <2>1, <2>2 DEF KitsMeant, B!Overwritten
  <2>4. B!Defaults' = B!DefaultsOf(written)
    BY <1>1 DEF B!Defaults, B!DefaultsOf
  <2>5. B!DefaultsOf(written) \subseteq named \cup {k} /\ (k \in B!DefaultsOf(written) <=> new.default)
    BY <1>2, <1>5, <2>1 DEF B!Defaults, B!DefaultsOf, KitRow
  <2>6. CASE new.default
    <3>1. \A i \in B!DefaultsOf(written) : i = k
      <4>1. SUFFICES ASSUME NEW i \in B!DefaultsOf(written), i # k PROVE FALSE
        OBVIOUS
      <4>2. named = {i} /\ B!DefaultsOf(written) = {i, k}
        BY <2>1, <2>5, <2>6, <4>1
      <4>3. IsFiniteSet({i}) /\ Cardinality({i}) = 1
        BY FS_Singleton
      <4>4. Cardinality({i} \cup {k}) = Cardinality({i}) + 1
        BY <4>1, <4>3, FS_AddElement
      <4>5. {i, k} = {i} \cup {k}
        OBVIOUS
      <4>6. QED
        BY <1>1, <4>2, <4>3, <4>4, <4>5
    <3>2. B!DefaultsOf(written) = {k}
      BY <2>5, <2>6, <3>1
    <3>3. QED
      BY <1>1, <1>2, <2>4, <2>6, <3>2, <2>3 DEF OneDefault
  <2>7. CASE ~new.default
    <3>1. B!DefaultsOf(written) = named \ {k}
      BY <1>2, <1>5, <2>1, <2>5, <2>7 DEF B!Defaults, B!DefaultsOf
    <3>2. named \ {k} = {} \/ \E i \in Kits : named \ {k} = {i}
      BY <2>1
    <3>3. QED
      BY <1>1, <2>3, <2>4, <2>7, <3>1, <3>2 DEF OneDefault
  <2>8. QED
    BY <2>6, <2>7
<1>13. QED
  BY <1>1, <1>9, <1>10, <1>11, <1>12 DEF BrandInv

LEMMA CommitTemplateKeeps ==
    ASSUME BrandInv, NEW s \in Sessions, B!CommitTemplate(s)
    PROVE  BrandInv'
<1> PICK m, sent, applies : m = brandTx[s].template /\ sent = brandTx[s].sent /\ applies = brandTx[s].applies
  OBVIOUS
<1>1. /\ brandTx[s].op = "template"
      /\ templates' = [templates EXCEPT ![m] = B!Overwritten(templates[m], sent)]
      /\ applied' = [applied EXCEPT ![m] = applied[m] + applies]
      /\ DOMAIN brandTx' = Sessions /\ brandTx'[s] = B!Idle /\ \A o \in Sessions \ {s} : brandTx'[o] = brandTx[o]
      /\ UNCHANGED <<kits, named, brandTangled>>
  BY DEF B!CommitTemplate, BrandInv, BrandTypes
<1>2. /\ m \in Templates /\ sent \in TemplateColumns /\ applies \in {0, 1}
      /\ templates \in [Templates -> TemplateRow] /\ applied \in [Templates -> Nat]
  BY <1>1 DEF BrandInv, BrandTypes
<1>3. B!Overwritten(templates[m], sent) \in TemplateRow
  BY <1>2, TemplateFlush
<1>4. /\ templates' \in [Templates -> TemplateRow] /\ applied' \in [Templates -> Nat]
      /\ templates'[m] = B!Overwritten(templates[m], sent) /\ applied'[m] = applied[m] + applies
      /\ \A i \in Templates \ {m} : templates'[i] = templates[i] /\ applied'[i] = applied[i]
  BY <1>1, <1>2, <1>3
<1>5. \A o \in Sessions : B!About(brandTx'[o]) \subseteq B!About(brandTx[o])
  BY <1>1 DEF B!About, B!Idle
<1>6. \A o \in Sessions : brandTx'[o].op # "none" => o # s /\ brandTx'[o] = brandTx[o]
  BY <1>1 DEF B!Idle
<1>7. BrandTypes'
  BY <1>1, <1>4, <1>6 DEF BrandInv, BrandTypes
<1>8. Tangles'
  BY <1>1, <1>5 DEF BrandInv, Tangles
<1>9. KitsMeant => KitsMeant'
  BY <1>1, <1>6 DEF KitsMeant, B!Overwritten
<1>10. OneDefault => OneDefault'
  BY <1>1 DEF OneDefault, B!Defaults, B!DefaultsOf
<1>11. B!UsesCounted'
  <2>1. m \notin brandTangled => templates'[m].count = applied'[m]
    BY <1>1, <1>4 DEF BrandInv, CountsMeant
  <2>2. QED
    BY <1>1, <1>4, <2>1 DEF BrandInv, B!UsesCounted
<1>12. CountsMeant'
  <2>1. ASSUME NEW o \in Sessions, brandTx'[o].op = "template", brandTx'[o].template \notin brandTangled
        PROVE  /\ brandTx'[o] = brandTx[o] /\ brandTx[o].template \in Templates
               /\ templates'[brandTx[o].template] = templates[brandTx[o].template]
               /\ applied'[brandTx[o].template] = applied[brandTx[o].template]
    <3>1. o # s /\ brandTx'[o] = brandTx[o] /\ brandTx[o].template \in Templates
      BY <1>6, <2>1 DEF BrandInv, BrandTypes
    <3>2. B!About(brandTx[o]) = {brandTx[o].template} /\ B!About(brandTx[s]) = {m}
      BY <1>1, <2>1, <3>1 DEF B!About
    <3>3. brandTx[o].template # m
      BY <2>1, <3>1, <3>2 DEF BrandInv, Tangles
    <3>4. QED
      BY <1>4, <3>1, <3>3
  <2>2. QED
    BY <1>1, <2>1 DEF BrandInv, CountsMeant, B!Overwritten
<1>13. QED
  BY <1>1, <1>7, <1>8, <1>9, <1>10, <1>11, <1>12 DEF BrandInv

-----------------------------------------------------------------------------
LEMMA BrandNext ==
    ASSUME BrandInv, [B!Next]_B!vars
    PROVE  BrandInv'
<1>1. kits \in [Kits -> KitRow] /\ templates \in [Templates -> TemplateRow]
  BY DEF BrandInv, BrandTypes
<1>2. B!Defaults \subseteq Kits
  BY DEF B!Defaults, B!DefaultsOf
<1>3. ASSUME NEW s \in Sessions, NEW k \in Kits, NEW default \in BOOLEAN, B!CreateKit(s, k, default)
      PROVE  BrandInv'
  <2> DEFINE clears == IF default THEN B!Defaults ELSE {}
             new == [state |-> "live", default |-> default]
  <2>1. kits[k] = B!NoKit /\ B!OnKit(s, k, kits[k], new, clears)
    BY <1>3 DEF B!CreateKit
  <2>2. k \notin B!Defaults
    BY <2>1 DEF B!Defaults, B!DefaultsOf, B!NoKit
  <2>3. new \in KitRow /\ new.default = default /\ new.state = "live"
    BY DEF KitRow, RowStates
  <2>4. clears \in SUBSET Kits /\ (~new.default => clears = {}) /\ k \notin clears
    BY <1>2, <2>2, <2>3
  <2> HIDE DEF clears, new
  <2>5. QED
    BY <2>1, <2>3, <2>4, OnKitKeeps
<1>4. ASSUME NEW s \in Sessions, NEW k \in Kits, NEW default \in BOOLEAN, B!UpdateKit(s, k, default)
      PROVE  BrandInv'
  <2> DEFINE clears == IF default THEN B!Defaults \ {k} ELSE {}
             new == [kits[k] EXCEPT !.default = default]
  <2>1. kits[k].state = "live" /\ B!OnKit(s, k, kits[k], new, clears)
    BY <1>4 DEF B!UpdateKit, B!LiveKits
  <2>2. new \in KitRow /\ new.default = default /\ new.state = "live"
    BY <1>1, <2>1 DEF KitRow
  <2>3. clears \in SUBSET Kits /\ (~new.default => clears = {}) /\ k \notin clears
    BY <1>2, <2>2
  <2> HIDE DEF clears, new
  <2>4. QED
    BY <2>1, <2>2, <2>3, OnKitKeeps
<1>5. ASSUME NEW s \in Sessions, NEW k \in Kits, B!DeleteKit(s, k)
      PROVE  BrandInv'
  <2> DEFINE new == [state |-> "deleted", default |-> FALSE]
  <2>1. B!OnKit(s, k, kits[k], new, {})
    BY <1>5 DEF B!DeleteKit
  <2>2. new \in KitRow /\ new.default = FALSE
    BY DEF KitRow, RowStates
  <2> HIDE DEF new
  <2>3. QED
    BY <2>1, <2>2, OnKitKeeps
<1>6. ASSUME NEW s \in Sessions, NEW m \in Templates,
             B!CreateTemplate(s, m) \/ B!DeleteTemplate(s, m) \/ B!Instantiate(s, m)
             \/ \E fits \in BOOLEAN : B!UpdateTemplate(s, m, fits)
      PROVE  BrandInv'
  <2>1. templates[m] \in TemplateRow
    BY <1>1
  <2>2. PICK new \in TemplateRow, applies \in {0, 1} :
            B!OnTemplate(s, m, templates[m], new, applies) /\ new.count = templates[m].count + applies
    <3>1. CASE B!CreateTemplate(s, m)
      <4>1. [state |-> "live", fits |-> TRUE, count |-> 0] \in TemplateRow
        BY DEF TemplateRow, RowStates
      <4>2. QED
        BY <3>1, <4>1 DEF B!CreateTemplate, B!NoTemplate
    <3>2. CASE B!DeleteTemplate(s, m)
      <4>1. /\ [templates[m] EXCEPT !.state = "deleted"] \in TemplateRow
            /\ [templates[m] EXCEPT !.state = "deleted"].count = templates[m].count + 0
        BY <2>1 DEF TemplateRow, RowStates
      <4>2. QED
        BY <3>2, <4>1 DEF B!DeleteTemplate
    <3>3. CASE B!Instantiate(s, m)
      <4>1. /\ [templates[m] EXCEPT !.count = templates[m].count + 1] \in TemplateRow
            /\ [templates[m] EXCEPT !.count = templates[m].count + 1].count = templates[m].count + 1
        BY <2>1 DEF TemplateRow
      <4>2. QED
        BY <3>3, <4>1 DEF B!Instantiate
    <3>4. ASSUME NEW fits \in BOOLEAN, B!UpdateTemplate(s, m, fits)
          PROVE  \E new \in TemplateRow, applies \in {0, 1} :
                    B!OnTemplate(s, m, templates[m], new, applies) /\ new.count = templates[m].count + applies
      <4>1. /\ [templates[m] EXCEPT !.fits = fits] \in TemplateRow
            /\ [templates[m] EXCEPT !.fits = fits].count = templates[m].count + 0
        BY <2>1 DEF TemplateRow
      <4>2. QED
        BY <3>4, <4>1 DEF B!UpdateTemplate
    <3>5. QED
      BY <1>6, <3>1, <3>2, <3>3, <3>4
  <2>3. QED
    BY <2>2, OnTemplateKeeps
<1>7. ASSUME NEW s \in Sessions, NEW m \in Templates, NEW copy \in Templates, B!DuplicateTemplate(s, m, copy)
      PROVE  BrandInv'
  <2> DEFINE new == [templates[m] EXCEPT !.count = 0]
  <2>1. B!OnTemplate(s, copy, templates[copy], new, 0) /\ templates[copy].count = 0
    BY <1>7 DEF B!DuplicateTemplate, B!NoTemplate
  <2>2. new \in TemplateRow /\ new.count = 0
    BY <1>1 DEF TemplateRow
  <2> HIDE DEF new
  <2>3. QED
    BY <2>1, <2>2, OnTemplateKeeps
<1>8. ASSUME NEW s \in Sessions, B!Rollback(s)
      PROVE  BrandInv'
  <2>1. /\ DOMAIN brandTx' = Sessions /\ brandTx'[s] = B!Idle /\ \A o \in Sessions \ {s} : brandTx'[o] = brandTx[o]
        /\ UNCHANGED <<kits, templates, named, applied, brandTangled>>
    BY <1>8 DEF B!Rollback, BrandInv, BrandTypes
  <2>2. /\ \A o \in Sessions : B!About(brandTx'[o]) \subseteq B!About(brandTx[o])
        /\ \A o \in Sessions : brandTx'[o].op # "none" => brandTx'[o] = brandTx[o]
    BY <2>1 DEF B!About, B!Idle
  <2>3. BrandTypes' /\ Tangles'
    BY <2>1, <2>2 DEF BrandInv, BrandTypes, Tangles
  <2>4. (KitsMeant => KitsMeant') /\ (OneDefault => OneDefault')
    BY <2>1, <2>2 DEF KitsMeant, OneDefault, B!Overwritten, B!Defaults, B!DefaultsOf
  <2>5. CountsMeant' /\ B!UsesCounted'
    BY <2>1, <2>2 DEF BrandInv, CountsMeant, B!UsesCounted, B!Overwritten
  <2>6. QED
    BY <2>1, <2>3, <2>4, <2>5 DEF BrandInv
<1>9. CASE UNCHANGED B!vars
  BY <1>9 DEF B!vars, BrandInv, BrandTypes, Tangles, KitsMeant, OneDefault, CountsMeant, B!UsesCounted,
              B!Overwritten, B!Defaults, B!DefaultsOf, B!About
<1>10. QED
  BY <1>3, <1>4, <1>5, <1>6, <1>7, <1>8, <1>9, CommitKitKeeps, CommitTemplateKeeps DEF B!Next

-----------------------------------------------------------------------------
\* A step of the services is one of Branding or leaves its rows alone.
LEMMA BrandSteps == [Next]_vars => [B!Next]_B!vars
BY DEF Next, vars, TruthMoves, GoodsMove, StoryMoves, PostMoves, CutMoves, MediaMove, StaffMoves,
       SignMoves, BrandMoves, RouterMoves, brand, B!vars

\* Branding always has its invariant.
LEMMA BrandAlways == Spec => []BrandInv
<1>1. Init => BrandInv
  BY BrandInit DEF Init
<1>2. BrandInv /\ [Next]_vars => BrandInv'
  BY BrandNext, BrandSteps
<1>3. QED
  BY <1>1, <1>2, PTL DEF Spec

\* branding.py, _clear_default: naming a default swaps it. However requests
\* interleave, the kit named last is the default that a project gets, unless
\* two of them were about a kit at once.
THEOREM TheNamedKitIsDefault == Spec => []NamedIsDefault
<1>1. BrandInv => NamedIsDefault
  BY DEF BrandInv, OneDefault, NamedIsDefault, B!NamedIsDefault, B!DirectivesFor
<1>2. QED
  BY <1>1, BrandAlways, PTL

\* branding.py, instantiate: usage_count is how often the template was
\* applied, whatever edits, copies and deletions come between, unless two
\* requests about it overlapped.
THEOREM UsesAreCounted == Spec => []UsesCounted
<1>1. BrandInv => UsesCounted
  BY DEF BrandInv, UsesCounted
<1>2. QED
  BY <1>1, BrandAlways, PTL
-----------------------------------------------------------------------------
(* Types.                                                                  *)

\* Only a request that begins counts one.
StaffCounted == staffRequests \in 0 .. MaxRequests.staff

LEMMA StaffIsTyped == Spec => []W!TypeOK
<1>1. Init => StaffCounted
  BY BoundsAssumption DEF Init, W!Init, StaffCounted
<1>2. StaffCounted /\ [Next]_vars => StaffCounted'
  <2> SUFFICES ASSUME StaffCounted, [Next]_vars PROVE StaffCounted'
    OBVIOUS
  <2>1. [W!Next]_W!vars
    BY StaffSteps
  <2>2. \/ staffRequests' = staffRequests
        \/ staffRequests' = staffRequests + 1 /\ staffRequests < MaxRequests.staff
    <3>1. ASSUME NEW s \in Sessions, NEW caller \in Users, NEW m \in Users, NEW new \in W!Roles,
                 W!Invite(s, caller, m, new) \/ W!UpdateMemberRole(s, caller, m, new)
          PROVE  staffRequests' = staffRequests + 1 /\ staffRequests < MaxRequests.staff
      BY <3>1 DEF W!Invite, W!UpdateMemberRole, W!Begin
    <3>2. ASSUME NEW s \in Sessions, NEW caller \in Users, NEW m \in Users, W!RemoveMember(s, caller, m)
          PROVE  staffRequests' = staffRequests + 1 /\ staffRequests < MaxRequests.staff
      BY <3>2 DEF W!RemoveMember, W!Begin
    <3>3. ASSUME NEW s \in Sessions, W!CommitInvite(s) \/ W!CommitChange(s) \/ W!CommitRemove(s) \/ W!Rollback(s)
          PROVE  UNCHANGED staffRequests
      BY <3>3 DEF W!CommitInvite, W!CommitChange, W!CommitRemove, W!Rollback, W!Finish
    <3>4. CASE UNCHANGED W!vars
      BY <3>4 DEF W!vars
    <3> QED
      BY <2>1, <3>1, <3>2, <3>3, <3>4 DEF W!Next
  <2>3. MaxRequests.staff \in Nat
    BY BoundsAssumption
  <2> QED
    BY <2>2, <2>3 DEF StaffCounted
<1>3. StaffInv /\ StaffCounted => W!TypeOK
  <2> SUFFICES ASSUME StaffInv, StaffCounted PROVE W!TypeOK
    OBVIOUS
  <2>1. role \in [Users -> W!Roles \cup {"none"}]
    BY DEF StaffInv, StaffTypes, AnyRole
  <2>2. \A s \in Sessions : staffTx[s].op \in {"none", "invite", "change", "remove"}
    BY DEF StaffInv, StaffTypes, W!Open, W!Idle, Changes
  <2> QED
    BY <2>1, <2>2 DEF W!TypeOK, StaffCounted
<1> QED
  BY <1>1, <1>2, <1>3, StaffAlways, PTL DEF Spec

-----------------------------------------------------------------------------
\* A token ends, and its denial too, before the clock could stop at its end.
SignTyped ==
    /\ now \in 1 .. MaxTime
    /\ ends \in [Tokens -> 0 .. MaxTime + Lifetime] /\ denied \in [Tokens -> 0 .. MaxTime + Lifetime]
    /\ signRequests \in 0 .. MaxRequests.sign /\ attempts \in 0 .. signRequests
    /\ \A s \in Sessions : signTx[s].at \in {"none", "register", "counted", "login", "refresh"}

LEMMA IssueTyped ==
    ASSUME SignTyped, NEW t \in Tokens, A!Issue(t)
    PROVE  ends' \in [Tokens -> 0 .. MaxTime + Lifetime]
<1> DEFINE half == (now + Lifetime) \div 2
<1>1. now \in Nat /\ Lifetime \in Nat /\ MaxTime \in Nat /\ now <= MaxTime
  BY SignAssumption, BoundsAssumption DEF SignTyped
<1>2. half \in Nat /\ 2 * half <= now + Lifetime
  BY <1>1
<1>3. ends' = [ends EXCEPT ![t] = 2 * half]
  BY DEF A!Issue
<1> HIDE DEF half
<1>4. 2 * half \in 0 .. MaxTime + Lifetime
  BY <1>1, <1>2
<1> QED
  BY <1>3, <1>4 DEF SignTyped

LEMMA DenyTyped ==
    ASSUME SignTyped, NEW t \in Tokens, A!Deny(t)
    PROVE  denied' \in [Tokens -> 0 .. MaxTime + Lifetime]
<1> DEFINE left == (ends[t] - now) \div 2
           span == IF left < 1 THEN 1 ELSE left
<1>1. /\ now \in Nat /\ Lifetime \in Nat /\ MaxTime \in Nat /\ now <= MaxTime /\ Lifetime >= 2
      /\ ends[t] \in Nat /\ ends[t] <= MaxTime + Lifetime
  BY SignAssumption, BoundsAssumption DEF SignTyped
<1>2. left \in Int /\ 2 * left <= ends[t] - now
  BY <1>1
<1>3. denied' = [denied EXCEPT ![t] = now + 2 * span]
  BY DEF A!Deny
<1> HIDE DEF left
<1>4. span \in Nat /\ now + 2 * span <= MaxTime + Lifetime
  BY <1>1, <1>2
<1> HIDE DEF span
<1>5. now + 2 * span \in 0 .. MaxTime + Lifetime
  BY <1>1, <1>4
<1> QED
  BY <1>3, <1>5 DEF SignTyped

LEMMA SignTypedNext ==
    ASSUME SignInv, SignTyped, [A!Next]_A!vars
    PROVE  SignTyped'
<1> DEFINE Ats == {"none", "register", "counted", "login", "refresh"}
<1>1. /\ DOMAIN signTx = Sessions /\ MaxRequests.sign \in Nat /\ signRequests \in Nat /\ attempts \in Nat
      /\ attempts <= signRequests /\ signRequests <= MaxRequests.sign /\ MaxTime \in Nat /\ now \in Nat
  BY BoundsAssumption DEF SignInv, Holders, SignTyped
<1>2. ASSUME NEW s \in Sessions, NEW t, t.at \in Ats, A!Go(s, t)
      PROVE  \A o \in Sessions : signTx'[o].at \in Ats
  BY <1>1, <1>2 DEF A!Go, SignTyped
<1>3. ASSUME NEW s \in Sessions, A!Register(s) \/ A!LoginIncr(s) \/ A!LoginExpire(s) \/ A!LoginUnlimited(s) \/ A!Fail(s)
      PROVE  SignTyped'
  <2>1. UNCHANGED <<ends, denied, now>>
    BY <1>3 DEF A!Register, A!LoginIncr, A!LoginExpire, A!LoginUnlimited, A!Fail, A!redis
  <2>2. PICK t : t.at \in Ats /\ A!Go(s, t)
    <3>1. CASE A!Register(s)
      BY <3>1 DEF A!Register
    <3>2. CASE A!LoginIncr(s)
      BY <3>2 DEF A!LoginIncr
    <3>3. CASE A!LoginExpire(s)
      BY <3>3 DEF A!LoginExpire
    <3>4. CASE A!LoginUnlimited(s)
      BY <3>4 DEF A!LoginUnlimited
    <3>5. CASE A!Fail(s)
      BY <3>5 DEF A!Fail, A!Idle
    <3> QED
      BY <1>3, <3>1, <3>2, <3>3, <3>4, <3>5
  <2>3. \/ UNCHANGED <<signRequests, attempts>>
        \/ signRequests' = signRequests + 1 /\ signRequests < MaxRequests.sign /\ attempts' \in {attempts, attempts + 1}
    BY <1>3 DEF A!Register, A!LoginIncr, A!LoginExpire, A!LoginUnlimited, A!Fail, A!redis
  <2>4. signRequests' \in 0 .. MaxRequests.sign /\ attempts' \in 0 .. signRequests'
    BY <1>1, <2>3
  <2> QED
    BY <1>2, <2>1, <2>2, <2>4 DEF SignTyped
<1>4. ASSUME NEW s \in Sessions, NEW t \in Tokens, A!CommitRegister(s, t) \/ A!LoginSucceeds(s, t)
      PROVE  SignTyped'
  <2>1. /\ A!Issue(t) /\ A!Go(s, A!Idle) /\ UNCHANGED <<denied, now, signRequests>>
        /\ attempts' = attempts \/ attempts' = 0
    BY <1>4 DEF A!CommitRegister, A!LoginSucceeds, A!redis
  <2>2. A!Idle.at \in Ats
    BY DEF A!Idle
  <2>3. attempts' \in 0 .. signRequests'
    BY <1>1, <2>1
  <2> QED
    BY <1>2, <2>1, <2>2, <2>3, IssueTyped DEF SignTyped
<1>5. ASSUME NEW s \in Sessions, NEW t \in Tokens, A!Refresh(s, t)
      PROVE  SignTyped'
  <2>1. A!Go(s, [at |-> "refresh", token |-> t]) /\ UNCHANGED <<ends, denied, attempts, now, signRequests>>
    BY <1>5 DEF A!Refresh, A!redis
  <2> QED
    BY <1>2, <2>1 DEF SignTyped
<1>6. ASSUME NEW s \in Sessions, NEW t \in Tokens, A!Exchange(s, t)
      PROVE  SignTyped'
  <2>1. /\ A!Deny(signTx[s].token) /\ signTx[s].token \in Tokens /\ A!Issue(t) /\ A!Go(s, A!Idle)
        /\ UNCHANGED <<attempts, now, signRequests>>
    BY <1>6 DEF A!Exchange, SignInv, Holders, Refreshing, A!Issued
  <2>2. A!Idle.at \in Ats
    BY DEF A!Idle
  <2> QED
    BY <1>2, <2>1, <2>2, IssueTyped, DenyTyped DEF SignTyped
<1>7. ASSUME NEW t \in Tokens, A!Logout(t)
      PROVE  SignTyped'
  <2>1. A!Deny(t) /\ UNCHANGED <<ends, attempts, now, signRequests, signTx>>
    BY <1>7 DEF A!Logout
  <2> QED
    BY <2>1, DenyTyped DEF SignTyped
<1>8. CASE A!WindowPasses \/ A!Tick \/ UNCHANGED A!vars
  <2>1. UNCHANGED <<ends, denied, signRequests, signTx>>
    BY <1>8 DEF A!WindowPasses, A!Tick, A!redis, A!vars
  <2>2. attempts' = attempts \/ attempts' = 0
    BY <1>8 DEF A!WindowPasses, A!Tick, A!redis, A!vars
  <2>3. now' = now \/ (now < MaxTime /\ now' = now + 1)
    BY <1>8 DEF A!WindowPasses, A!Tick, A!vars
  <2>4. now' \in 1 .. MaxTime /\ attempts' \in 0 .. signRequests'
    BY <1>1, <2>1, <2>2, <2>3 DEF SignTyped
  <2> QED
    BY <2>1, <2>4 DEF SignTyped
<1> QED
  BY <1>3, <1>4, <1>5, <1>6, <1>7, <1>8 DEF A!Next

LEMMA SignIsTyped == Spec => []A!TypeOK
<1>1. Init => SignTyped
  BY BoundsAssumption, SignAssumption DEF Init, A!Init, A!Idle, SignTyped
<1>2. SignInv /\ SignTyped /\ [Next]_vars => SignTyped'
  BY SignTypedNext, SignSteps
<1>3. SignTyped => A!TypeOK
  <2> SUFFICES ASSUME SignTyped PROVE A!TypeOK
    OBVIOUS
  <2>1. attempts \in 0 .. MaxRequests.sign
    BY BoundsAssumption DEF SignTyped
  <2> QED
    BY <2>1 DEF SignTyped, A!TypeOK
<1> QED
  BY <1>1, <1>2, <1>3, SignAlways, PTL DEF Spec

-----------------------------------------------------------------------------
\* A count that is stored, or is about to be, is not more than the requests.
BrandCounted ==
    /\ brandRequests \in 0 .. MaxRequests.brand
    /\ \A m \in Templates : templates[m].count \in 0 .. brandRequests
    /\ \A s \in Sessions : brandTx[s].op \in {"none", "kit", "template"}
    /\ \A s \in Sessions : brandTx[s].op = "template" /\ "count" \in DOMAIN brandTx[s].sent =>
          brandTx[s].sent.count \in 0 .. brandRequests

\* A request begins; if it sends a count, it is one that is allowed by now.
LEMMA BeginCounted ==
    ASSUME BrandInv, BrandCounted, NEW s \in Sessions, NEW t, B!Begin(s, t), t.op \in {"kit", "template"},
           t.op = "template" /\ "count" \in DOMAIN t.sent => t.sent.count \in 0 .. brandRequests + 1
    PROVE  BrandCounted'
<1>1. /\ brandRequests < MaxRequests.brand /\ brandRequests' = brandRequests + 1 /\ UNCHANGED templates
      /\ brandTx'[s] = t /\ \A o \in Sessions \ {s} : brandTx'[o] = brandTx[o]
  BY DEF B!Begin, BrandInv, BrandTypes
<1>2. /\ brandRequests \in Nat /\ brandRequests' \in 0 .. MaxRequests.brand
      /\ \A n \in 0 .. brandRequests : n \in 0 .. brandRequests'
  BY <1>1, BoundsAssumption DEF BrandCounted
<1> QED
  BY <1>1, <1>2 DEF BrandCounted

LEMMA OnTemplateCounted ==
    ASSUME BrandInv, BrandCounted, NEW s \in Sessions, NEW m \in Templates, NEW new \in TemplateRow, NEW old, NEW applies,
           B!OnTemplate(s, m, old, new, applies), new.count \in 0 .. brandRequests + 1
    PROVE  BrandCounted'
<1> DEFINE sent == B!Changed(old, new)
           t == [op |-> "template", template |-> m, sent |-> sent, applies |-> applies]
<1>1. "count" \in DOMAIN sent => sent.count = new.count
  BY DEF B!Changed
<1> HIDE DEF sent
<1>2. t.op = "template" /\ t.sent = sent
  OBVIOUS
<1>3. B!Begin(s, t)
  BY DEF B!OnTemplate, sent
<1> HIDE DEF t
<1> QED
  BY <1>1, <1>2, <1>3, BeginCounted

LEMMA BrandCountedNext ==
    ASSUME BrandInv, BrandCounted, [B!Next]_B!vars
    PROVE  BrandCounted'
<1>1. /\ templates \in [Templates -> TemplateRow] /\ brandRequests \in Nat /\ DOMAIN brandTx = Sessions
      /\ \A m \in Templates : templates[m].count \in 0 .. brandRequests /\ templates[m].count + 1 \in 0 .. brandRequests + 1
      /\ 0 \in 0 .. brandRequests + 1 /\ \A n \in 0 .. brandRequests : n \in 0 .. brandRequests + 1
  BY BoundsAssumption DEF BrandInv, BrandTypes, BrandCounted
<1>2. ASSUME NEW s \in Sessions, NEW k \in Kits,
             (\E default \in BOOLEAN : B!CreateKit(s, k, default) \/ B!UpdateKit(s, k, default)) \/ B!DeleteKit(s, k)
      PROVE  BrandCounted'
  <2>1. PICK old, new, clears : B!OnKit(s, k, old, new, clears)
    BY <1>2 DEF B!CreateKit, B!UpdateKit, B!DeleteKit
  <2>2. PICK t : B!Begin(s, t) /\ t.op = "kit"
    BY <2>1 DEF B!OnKit
  <2> QED
    BY <2>2, BeginCounted
<1>3. ASSUME NEW s \in Sessions, NEW m \in Templates, B!CreateTemplate(s, m)
      PROVE  BrandCounted'
  <2> DEFINE new == [state |-> "live", fits |-> TRUE, count |-> 0]
  <2>1. B!OnTemplate(s, m, B!NoTemplate, new, 0)
    BY <1>3 DEF B!CreateTemplate
  <2>2. new \in TemplateRow /\ new.count = 0
    BY DEF TemplateRow, RowStates
  <2> HIDE DEF new
  <2> QED
    BY <1>1, <2>1, <2>2, OnTemplateCounted
<1>4. ASSUME NEW s \in Sessions, NEW m \in Templates, NEW fits \in BOOLEAN, B!UpdateTemplate(s, m, fits)
      PROVE  BrandCounted'
  <2> DEFINE new == [templates[m] EXCEPT !.fits = fits]
  <2>1. B!OnTemplate(s, m, templates[m], new, 0)
    BY <1>4 DEF B!UpdateTemplate
  <2>2. new \in TemplateRow /\ new.count = templates[m].count
    BY <1>1 DEF TemplateRow
  <2> HIDE DEF new
  <2> QED
    BY <1>1, <2>1, <2>2, OnTemplateCounted
<1>5. ASSUME NEW s \in Sessions, NEW m \in Templates, NEW copy \in Templates, B!DuplicateTemplate(s, m, copy)
      PROVE  BrandCounted'
  <2> DEFINE new == [templates[m] EXCEPT !.count = 0]
  <2>1. B!OnTemplate(s, copy, B!NoTemplate, new, 0)
    BY <1>5 DEF B!DuplicateTemplate
  <2>2. new \in TemplateRow /\ new.count = 0
    BY <1>1 DEF TemplateRow
  <2> HIDE DEF new
  <2> QED
    BY <1>1, <2>1, <2>2, OnTemplateCounted
<1>6. ASSUME NEW s \in Sessions, NEW m \in Templates, B!DeleteTemplate(s, m)
      PROVE  BrandCounted'
  <2> DEFINE new == [templates[m] EXCEPT !.state = "deleted"]
  <2>1. B!OnTemplate(s, m, templates[m], new, 0)
    BY <1>6 DEF B!DeleteTemplate
  <2>2. new \in TemplateRow /\ new.count = templates[m].count
    BY <1>1 DEF TemplateRow, RowStates
  <2> HIDE DEF new
  <2> QED
    BY <1>1, <2>1, <2>2, OnTemplateCounted
<1>7. ASSUME NEW s \in Sessions, NEW m \in Templates, B!Instantiate(s, m)
      PROVE  BrandCounted'
  <2> DEFINE new == [templates[m] EXCEPT !.count = templates[m].count + 1]
  <2>1. B!OnTemplate(s, m, templates[m], new, 1)
    BY <1>7 DEF B!Instantiate
  <2>2. new \in TemplateRow /\ new.count = templates[m].count + 1
    BY <1>1 DEF TemplateRow
  <2> HIDE DEF new
  <2> QED
    BY <1>1, <2>1, <2>2, OnTemplateCounted
<1>8. ASSUME NEW s \in Sessions, B!CommitTemplate(s)
      PROVE  BrandCounted'
  <2> PICK m, sent : m = brandTx[s].template /\ sent = brandTx[s].sent
    OBVIOUS
  <2>1. /\ brandTx[s].op = "template" /\ UNCHANGED brandRequests
        /\ templates' = [templates EXCEPT ![m] = B!Overwritten(templates[m], sent)]
        /\ brandTx'[s].op = "none" /\ \A o \in Sessions \ {s} : brandTx'[o] = brandTx[o]
    BY <1>1, <1>8 DEF B!CommitTemplate, B!Idle
  <2>2. m \in Templates /\ DOMAIN templates[m] = {"state", "fits", "count"}
    BY <1>1, <2>1 DEF BrandInv, BrandTypes, TemplateRow
  <2>3. B!Overwritten(templates[m], sent).count = IF "count" \in DOMAIN sent THEN sent.count ELSE templates[m].count
    BY <2>2 DEF B!Overwritten
  <2>4. B!Overwritten(templates[m], sent).count \in 0 .. brandRequests
    BY <1>1, <2>1, <2>2, <2>3 DEF BrandCounted
  <2>5. \A i \in Templates : templates'[i].count \in 0 .. brandRequests
    BY <1>1, <2>1, <2>4
  <2> QED
    BY <2>1, <2>5 DEF BrandCounted
<1>9. ASSUME NEW s \in Sessions, B!CommitKit(s) \/ B!Rollback(s)
      PROVE  BrandCounted'
  <2>1. /\ UNCHANGED <<templates, brandRequests>>
        /\ brandTx'[s].op = "none" /\ \A o \in Sessions \ {s} : brandTx'[o] = brandTx[o]
    BY <1>1, <1>9 DEF B!CommitKit, B!Rollback, B!Idle
  <2> QED
    BY <2>1 DEF BrandCounted
<1>10. CASE UNCHANGED B!vars
  BY <1>10 DEF B!vars, BrandCounted
<1> QED
  BY <1>2, <1>3, <1>4, <1>5, <1>6, <1>7, <1>8, <1>9, <1>10 DEF B!Next

LEMMA BrandIsTyped == Spec => []B!TypeOK
<1>1. Init => BrandCounted
  BY BoundsAssumption DEF Init, B!Init, B!NoTemplate, B!Idle, BrandCounted
<1>2. BrandInv /\ BrandCounted /\ [Next]_vars => BrandCounted'
  BY BrandCountedNext, BrandSteps
<1>3. BrandInv /\ BrandCounted => B!TypeOK
  <2> SUFFICES ASSUME BrandInv, BrandCounted PROVE B!TypeOK
    OBVIOUS
  <2>1. \A k \in Kits : kits[k].state \in {"none", "live", "deleted"} /\ kits[k].default \in BOOLEAN
    BY DEF BrandInv, BrandTypes, KitRow, RowStates
  <2>2. \A m \in Templates : templates[m].fits \in BOOLEAN
    BY DEF BrandInv, BrandTypes, TemplateRow
  <2>3. \A m \in Templates : templates[m].count \in 0 .. MaxRequests.brand
    BY BoundsAssumption DEF BrandCounted
  <2> QED
    BY <2>1, <2>2, <2>3 DEF B!TypeOK, BrandCounted
<1> QED
  BY <1>1, <1>2, <1>3, BrandAlways, PTL DEF Spec
=============================================================================
