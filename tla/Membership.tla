------------------------------ MODULE Membership ------------------------------
(***************************************************************************)
(* services/workspaces.py over repositories/workspaces.py: who belongs to  *)
(* one workspace and as what, under the authorisation matrix of            *)
(* domain/enums.py, and concurrent requests that invite, promote, demote   *)
(* and remove (v1/workspaces.py).                                          *)
(*                                                                         *)
(* A request is one transaction: it reads the role of its caller, the row  *)
(* it is about and the number of owners, then writes the row and commits.  *)
(***************************************************************************)
EXTENDS Integers, FiniteSets

CONSTANTS Users, Founder, \* everybody with an account, and who creates the workspace
          Sessions,       \* API requests under way
          MaxRequests     \* bound: requests that pass their checks

VARIABLES
    role,      \* workspace_members
    tx,        \* the open transaction of each session
    requests,  \* how many requests there were
    crossed    \* history: two requests overlapped that may take the last owner

vars == <<role, tx, requests, crossed>>
-----------------------------------------------------------------------------
Roles == {"OWNER", "ADMIN", "EDITOR", "VIEWER"}

\* The part of ROLE_PERMISSIONS that guards membership; the sets are nested.
Permissions(r) ==
    IF r \in Roles
      THEN {"MEMBER_READ"}
           \cup (IF r \in {"OWNER", "ADMIN"} THEN {"MEMBER_INVITE", "MEMBER_REMOVE"} ELSE {})
           \cup (IF r = "OWNER" THEN {"MEMBER_UPDATE_ROLE"} ELSE {})
      ELSE {}

\* get_for_user and ensure_permission: a caller without a row may do nothing.
May(u, permission) == permission \in Permissions(role[u])

Owners == {u \in Users : role[u] = "OWNER"}

Idle == [op |-> "none"]
Open == {s \in Sessions : tx[s] # Idle}

\* create: the workspace and its creator's row are one transaction.
Init ==
    /\ role = [u \in Users |-> IF u = Founder THEN "OWNER" ELSE "none"]
    /\ tx = [s \in Sessions |-> Idle]
    /\ requests = 0
    /\ crossed = FALSE

-----------------------------------------------------------------------------
\* t takes the ownership of a member it read as an owner.
Unseats(t) == t.op # "invite" /\ t.read = "OWNER" /\ t.new # "OWNER"

\* t makes m an owner; t takes whatever m is by now.
Raises(t, m) == t.member = m /\ t.op = "change" /\ t.new = "OWNER"
Lowers(t, m) == t.member = m /\ t.op # "invite" /\ t.read # "OWNER" /\ t.new \notin {"OWNER", t.read}

Crosses(t, o) ==
    \/ Unseats(t) /\ Unseats(o) /\ t.member # o.member
    \/ Raises(t, o.member) /\ Lowers(o, o.member)
    \/ Raises(o, t.member) /\ Lowers(t, t.member)

\* gone: the row that was read is deleted since (its id never comes back).
Begin(s, op, m, new) ==
    LET t == [op |-> op, member |-> m, read |-> role[m], new |-> new, gone |-> FALSE]
    IN  /\ tx[s] = Idle /\ requests < MaxRequests
        /\ requests' = requests + 1
        /\ tx' = [tx EXCEPT ![s] = t]
        /\ crossed' = (crossed \/ \E o \in Open : Crosses(t, tx[o]))
        /\ UNCHANGED role

\* _ensure_not_last_owner
NotLastOwner == Cardinality(Owners) > 1

\* add_member: granting OWNER is a change of role too. The unique constraint
\* decides at the INSERT.
Invite(s, caller, u, new) ==
    /\ May(caller, "MEMBER_INVITE")
    /\ new = "OWNER" => May(caller, "MEMBER_UPDATE_ROLE")
    /\ Begin(s, "invite", u, new)

\* update_member_role
UpdateMemberRole(s, caller, m, new) ==
    /\ May(caller, "MEMBER_UPDATE_ROLE") /\ role[m] # "none"
    /\ role[m] = "OWNER" /\ new # "OWNER" => NotLastOwner
    /\ Begin(s, "change", m, new)

\* Mutant: only an owner who leaves is counted.
RemoveUncounted(s, caller, m) ==
    /\ role[caller] # "none" /\ role[m] # "none"
    /\ m # caller => May(caller, "MEMBER_REMOVE")
    /\ role[m] = "OWNER" /\ m = caller => NotLastOwner
    /\ Begin(s, "remove", m, "none")

\* remove_member: leaving needs no permission.
RemoveMember(s, caller, m) ==
    /\ role[caller] # "none" /\ role[m] # "none"
    /\ m # caller => May(caller, "MEMBER_REMOVE")
    /\ role[m] = "OWNER" => NotLastOwner
    /\ Begin(s, "remove", m, "none")

-----------------------------------------------------------------------------
Finish(s) == tx' = [tx EXCEPT ![s] = Idle] /\ UNCHANGED <<requests, crossed>>

CommitInvite(s) ==
    LET t == tx[s]
    IN  /\ t.op = "invite" /\ role[t.member] = "none"
        /\ role' = [role EXCEPT ![t.member] = t.new]
        /\ Finish(s)

\* An UPDATE of the column that changed, and none when it did not.
CommitChange(s) ==
    LET t == tx[s]
    IN  /\ t.op = "change"
        /\ t.new # t.read => ~t.gone
        /\ role' = IF t.new = t.read THEN role ELSE [role EXCEPT ![t.member] = t.new]
        /\ Finish(s)

\* A DELETE of a row that is gone is a warning.
CommitRemove(s) ==
    LET t == tx[s]
    IN  /\ t.op = "remove"
        /\ role' = IF t.gone THEN role ELSE [role EXCEPT ![t.member] = "none"]
        /\ tx' = [o \in Sessions |->
              IF o = s THEN Idle
              ELSE IF tx[o].op \in {"change", "remove"} /\ tx[o].member = t.member /\ ~t.gone
                THEN [tx[o] EXCEPT !.gone = TRUE] ELSE tx[o]]
        /\ UNCHANGED <<requests, crossed>>

\* The unique constraint, an UPDATE that finds no row, or a failure.
Rollback(s) == tx[s] # Idle /\ UNCHANGED role /\ Finish(s)

Next ==
    \E s \in Sessions :
        \/ \E caller, m \in Users :
            \/ \E new \in Roles : Invite(s, caller, m, new) \/ UpdateMemberRole(s, caller, m, new)
            \/ RemoveMember(s, caller, m)
        \/ CommitInvite(s) \/ CommitChange(s) \/ CommitRemove(s) \/ Rollback(s)

Spec == Init /\ [][Next]_vars

-----------------------------------------------------------------------------
\* Roles and transactions have their shapes, and the bound is kept.
TypeOK ==
    /\ role \in [Users -> Roles \cup {"none"}]
    /\ \A s \in Sessions : tx[s].op \in {"none", "invite", "change", "remove"}
    /\ requests \in 0 .. MaxRequests

\* services/workspaces.py, LastOwnerError: a workspace always has an owner.
\* The count is read before the row is written, so it holds unless two
\* requests unseat different owners at once, or one demotes or removes a
\* member whom another makes an owner meanwhile.
OwnerRemains == Owners # {} \/ crossed
=============================================================================
