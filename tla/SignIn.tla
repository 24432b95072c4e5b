-------------------------------- MODULE SignIn --------------------------------
(***************************************************************************)
(* services/auth.py over security/tokens.py, security/ratelimit.py and     *)
(* repositories/users.py: one account, the refresh tokens it was issued,   *)
(* their denylist in Redis, and the counter that limits its sign-ins       *)
(* (v1/auth.py). A call to Redis is a step.                                *)
(*                                                                         *)
(* Time is in half seconds: a token ends on a whole second, a denial lasts *)
(* a whole number of seconds from the moment it is written.                *)
(***************************************************************************)
EXTENDS Integers, FiniteSets

CONSTANTS Tokens,      \* ids (jti) of refresh tokens
          Lifetime,    \* jwt_refresh_token_ttl, in half seconds
          MaxAttempts, \* LOGIN_ACCOUNT_LIMIT
          Sessions,    \* API requests under way
          MaxRequests, \* bound: sign-ins
          MaxTime      \* bound: how far the clock goes

VARIABLES
    account,    \* whether the row of users is committed
    ends,       \* refresh tokens out there: when each one ends, 0 for none
    denied,     \* Redis: until when a token is on the denylist
    attempts,   \* Redis: the counter of the account, 0 for no key
    window,     \* Redis: whether the counter's key expires
    now,
    tx,         \* what each session is doing
    requests,   \* how many requests to sign in there were
    spent,      \* history: tokens that were exchanged or signed out
    overlapped, \* history: tokens two requests were about at once
    orphaned    \* history: a request ended between INCR and EXPIRE

vars == <<account, ends, denied, attempts, window, now, tx, requests, spent, overlapped, orphaned>>
redis == <<denied, attempts, window>>
history == <<spent, overlapped, orphaned>>
-----------------------------------------------------------------------------
Issued == {t \in Tokens : ends[t] # 0}

\* decode_token
Valid(t) == t \in Issued /\ now < ends[t]

\* is_refresh_token_revoked
Revoked(t) == now < denied[t]

Idle == [at |-> "none"]

Init ==
    /\ account = FALSE
    /\ ends = [t \in Tokens |-> 0] /\ denied = [t \in Tokens |-> 0]
    /\ attempts = 0 /\ window = FALSE
    /\ now = 1
    /\ tx = [s \in Sessions |-> Idle]
    /\ requests = 0
    /\ spent = {} /\ overlapped = {} /\ orphaned = FALSE

\* _issue_tokens: exp is cut to the second.
Issue(t) ==
    /\ t \notin Issued
    /\ ends' = [ends EXCEPT ![t] = 2 * ((now + Lifetime) \div 2)]

Go(s, t) == tx' = [tx EXCEPT ![s] = t]

\* The sessions that hold token t past its check.
Using(t) == {s \in Sessions : tx[s].at = "refresh" /\ tx[s].token = t}

-----------------------------------------------------------------------------
\* register: the unique index decides between two that both saw no account.
Register(s) ==
    /\ tx[s] = Idle /\ ~account
    /\ Go(s, [at |-> "register"])
    /\ UNCHANGED <<account, ends, redis, now, requests, history>>

CommitRegister(s, t) ==
    /\ tx[s].at = "register" /\ ~account
    /\ account' = TRUE
    /\ Issue(t)
    /\ Go(s, Idle)
    /\ UNCHANGED <<redis, now, requests, history>>

\* Mutant: the end is set by the first request over the limit.
LoginIncrLate(s) ==
    /\ tx[s] = Idle /\ requests < MaxRequests
    /\ requests' = requests + 1
    /\ attempts' = attempts + 1
    /\ Go(s, [at |-> IF attempts' > MaxAttempts THEN "counted" ELSE "login"])
    /\ UNCHANGED <<account, ends, denied, window, now, history>>

\* check_rate_limit, the INCR: only the request that made the key sets its end.
LoginIncr(s) ==
    /\ tx[s] = Idle /\ requests < MaxRequests
    /\ requests' = requests + 1
    /\ attempts' = attempts + 1
    /\ Go(s, [at |-> IF attempts' = 1 THEN "counted"
                     ELSE IF attempts' > MaxAttempts THEN "none" ELSE "login"])
    /\ UNCHANGED <<account, ends, denied, window, now, history>>

\* The EXPIRE; on a key that is gone it does nothing.
LoginExpire(s) ==
    /\ tx[s].at = "counted"
    /\ window' = (attempts > 0)
    /\ Go(s, [at |-> "login"])
    /\ UNCHANGED <<account, ends, denied, attempts, now, requests, history>>

\* check_rate_limit fails open: when a call to Redis fails the sign-in goes on.
LoginUnlimited(s) ==
    /\ \/ tx[s] = Idle /\ requests < MaxRequests /\ requests' = requests + 1
       \/ tx[s].at = "counted" /\ UNCHANGED requests
    /\ Go(s, [at |-> "login"])
    /\ orphaned' = (orphaned \/ tx[s].at = "counted")
    /\ UNCHANGED <<account, ends, redis, now, spent, overlapped>>

\* The password holds: reset_rate_limit, and a new pair of tokens.
LoginSucceeds(s, t) ==
    /\ tx[s].at = "login" /\ account
    /\ attempts' = 0 /\ window' = FALSE
    /\ Issue(t)
    /\ Go(s, Idle)
    /\ UNCHANGED <<account, denied, now, requests, history>>

\* The key expires.
WindowPasses ==
    /\ window
    /\ attempts' = 0 /\ window' = FALSE
    /\ UNCHANGED <<account, ends, denied, now, tx, requests, history>>

-----------------------------------------------------------------------------
\* refresh: the token is decoded and looked up in the denylist,
Refresh(s, t) ==
    /\ tx[s] = Idle /\ Valid(t) /\ ~Revoked(t)
    /\ Go(s, [at |-> "refresh", token |-> t])
    /\ overlapped' = IF Using(t) # {} THEN overlapped \cup {t} ELSE overlapped
    /\ UNCHANGED <<account, ends, redis, now, requests, spent, orphaned>>

\* Mutant: the denial lasts one second whatever is left of the token.
DenyBriefly(t) == denied' = [denied EXCEPT ![t] = now + 2] /\ spent' = spent \cup {t}

\* revoke_refresh_token
Deny(t) ==
    LET left == (ends[t] - now) \div 2
    IN  /\ denied' = [denied EXCEPT ![t] = now + 2 * (IF left < 1 THEN 1 ELSE left)]
        /\ spent' = spent \cup {t}

\* then revoked and exchanged.
Exchange(s, t) ==
    /\ tx[s].at = "refresh"
    /\ Deny(tx[s].token)
    /\ Issue(t)
    /\ Go(s, Idle)
    /\ UNCHANGED <<account, attempts, window, now, requests, overlapped, orphaned>>

\* logout: one call to Redis, whatever the denylist says.
Logout(t) ==
    /\ Valid(t)
    /\ Deny(t)
    /\ overlapped' = IF Using(t) # {} THEN overlapped \cup {t} ELSE overlapped
    /\ UNCHANGED <<account, ends, attempts, window, now, tx, requests, orphaned>>

\* A wrong password, a constraint, or a failure of the request.
Fail(s) ==
    /\ tx[s] # Idle
    /\ Go(s, Idle)
    /\ orphaned' = (orphaned \/ tx[s].at = "counted")
    /\ UNCHANGED <<account, ends, redis, now, requests, spent, overlapped>>

Tick ==
    /\ now < MaxTime
    /\ now' = now + 1
    /\ UNCHANGED <<account, ends, redis, tx, requests, history>>

Next ==
    \/ \E s \in Sessions :
        \/ Register(s) \/ LoginIncr(s) \/ LoginExpire(s) \/ LoginUnlimited(s) \/ Fail(s)
        \/ \E t \in Tokens :
              CommitRegister(s, t) \/ LoginSucceeds(s, t) \/ Refresh(s, t) \/ Exchange(s, t)
    \/ \E t \in Tokens : Logout(t)
    \/ WindowPasses
    \/ Tick

Spec == Init /\ [][Next]_vars

-----------------------------------------------------------------------------
\* Times, counters and sessions are in range.
TypeOK ==
    /\ \A t \in Tokens : ends[t] \in 0 .. MaxTime + Lifetime /\ denied[t] \in 0 .. MaxTime + Lifetime
    /\ attempts \in 0 .. MaxRequests /\ requests \in 0 .. MaxRequests
    /\ \A s \in Sessions : tx[s].at \in {"none", "register", "counted", "login", "refresh"}

\* services/auth.py, refresh: a token is usable at most once, and not after a
\* sign-out. The look-up and the denial are two calls, and the denial is cut
\* to whole seconds, so it holds unless two requests were about the token at
\* once, or it is in its last second.
RotatedOnce ==
    \A s \in Sessions :
        tx[s].at = "refresh" =>
            \/ tx[s].token \notin spent \/ tx[s].token \in overlapped
            \/ now >= ends[tx[s].token] - 2

\* A counter that runs has an end, or the request that made it is about to
\* set one, or that request failed in between: then it runs until the next
\* sign-in that succeeds, and past the limit there is none.
WindowEnds ==
    attempts > 0 /\ ~window => orphaned \/ \E s \in Sessions : tx[s].at = "counted"
=============================================================================
