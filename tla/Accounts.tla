------------------------------ MODULE Accounts ------------------------------
(***************************************************************************)
(* Staff accounts, their invitations, sign-ins and sessions                *)
(* (internal/appauth) and the two sets of operations that administer them: *)
(* the superadmin portal's and the employee screen's (internal/superadmin).*)
(*                                                                         *)
(* A person stands for an e-mail address and the one Google subject behind *)
(* it.  Roles, branches and names are left out; an invitation is one for a *)
(* cashier, the only kind a sign-in takes up.                              *)
(***************************************************************************)
EXTENDS Naturals, Sequences

CONSTANTS
  People,      \* e-mail addresses
  Configured,  \* those with a user name and password in the configuration
  Sessions,    \* session identifiers, one per sign-in
  MaxTrail     \* bound: rows of user_status_audits per person

ASSUME AccountsAssumption == People # {} /\ Configured \subseteq People /\ MaxTrail \in Nat

Statuses == {"PENDING_APPROVAL", "APPROVED", "REJECTED", "SUSPENDED"}
ClosedStatuses == {"REJECTED", "SUSPENDED"}
NoRow == "NONE"

VARIABLES
  user,       \* user[p]: app_users.status, NoRow before the row exists
  linked,     \* people with a row in external_identities
  invite,     \* invite[p]: user_invitations.status
  session,    \* session[s]: unused, issued (signed, no row yet), active, ended
  owner,      \* owner[s]: whose session it is, once issued
  trail,      \* trail[p]: user_status_audits of the person, oldest first
  job,        \* job[p]: what is left of an employee operation that has no
              \* transaction around its statements
  outdated,   \* history: sessions that were active at a closing of their
              \* owner's account or at a revocation
  touched     \* history: people the employee screen has changed

vars == <<user, linked, invite, session, owner, trail, job, outdated, touched>>
people == <<user, linked, invite, trail, job>>

Init ==
  /\ user = [p \in People |-> NoRow]
  /\ linked = {}
  /\ invite = [p \in People |-> NoRow]
  /\ session = [s \in Sessions |-> "unused"]
  /\ owner \in [Sessions -> {CHOOSE p \in People : TRUE}]
  /\ trail = [p \in People |-> << >>]
  /\ job = [p \in People |-> "none"]
  /\ outdated = {}
  /\ touched = {}

ActiveOf(p) == {s \in Sessions : session[s] = "active" /\ owner[s] = p}

(* UPDATE app_sessions SET revoked_at = now() WHERE user_id = p            *)
RevokeActive(p) ==
  session' = [s \in Sessions |-> IF s \in ActiveOf(p) THEN "ended" ELSE session[s]]

Outdate(p) == outdated' = outdated \cup ActiveOf(p)

Record(p, from, to) ==
  /\ Len(trail[p]) < MaxTrail
  /\ trail' = [trail EXCEPT ![p] = Append(@, [from |-> from, to |-> to])]

-----------------------------------------------------------------------------
(* Signing in.  The token is signed when the account is known; its row in  *)
(* app_sessions is inserted by a later statement of its own.               *)

Issue(p, s) ==
  /\ session[s] = "unused"
  /\ session' = [session EXCEPT ![s] = "issued"]
  /\ owner' = [owner EXCEPT ![s] = p]
  /\ UNCHANGED outdated

(* The first sign-in of an identity takes up a pending invitation.         *)
TakesUpInvitation(p) == p \notin linked /\ invite[p] = "PENDING"

(* Variant: who was rejected applies again by signing in.                  *)
GoogleLoginReapplies(p, s) ==
  /\ Issue(p, s)
  /\ linked' = linked \cup {p}
  /\ \/ /\ TakesUpInvitation(p)
        /\ user' = [user EXCEPT ![p] = "APPROVED"]
        /\ invite' = [invite EXCEPT ![p] = "ACCEPTED"]
        /\ Record(p, "NULL", "APPROVED")
     \/ /\ ~TakesUpInvitation(p)
        /\ user' = [user EXCEPT ![p] =
                      IF @ \in {NoRow, "REJECTED"} THEN "PENDING_APPROVAL" ELSE @]
        /\ IF user[p] = "REJECTED"
             THEN Record(p, "REJECTED", "PENDING_APPROVAL") ELSE UNCHANGED trail
        /\ UNCHANGED invite
  /\ UNCHANGED job

(* POST /auth/google: one transaction under the advisory lock of the       *)
(* e-mail address, then the token.                                         *)
GoogleLogin(p, s) ==
  /\ Issue(p, s)
  /\ linked' = linked \cup {p}
  /\ \/ /\ TakesUpInvitation(p)
        /\ user' = [user EXCEPT ![p] = "APPROVED"]
        /\ invite' = [invite EXCEPT ![p] = "ACCEPTED"]
        /\ Record(p, "NULL", "APPROVED")
     \/ /\ ~TakesUpInvitation(p)
        /\ user' = [user EXCEPT ![p] = IF @ = NoRow THEN "PENDING_APPROVAL" ELSE @]
        /\ UNCHANGED <<invite, trail>>
  /\ UNCHANGED job

(* POST /auth/login: a configured name is let in whatever its row says,    *)
(* and given a row if it has none; anyone else must be approved.           *)
LoginPassword(p, s) ==
  /\ p \in Configured \/ user[p] = "APPROVED"
  /\ Issue(p, s)
  /\ user' = [user EXCEPT ![p] = IF @ = NoRow THEN "APPROVED" ELSE @]
  /\ UNCHANGED <<linked, invite, trail, job>>

CreateSession(s) ==
  /\ session[s] = "issued"
  /\ session' = [session EXCEPT ![s] = "active"]
  /\ UNCHANGED <<people, owner, outdated>>

(* The server stops, or the INSERT fails, before the row is there.         *)
LoginFails(s) ==
  /\ session[s] = "issued"
  /\ session' = [session EXCEPT ![s] = "unused"]
  /\ UNCHANGED <<people, owner, outdated>>

(* Logout, or the session's expiry.                                        *)
EndSession(s) ==
  /\ session[s] = "active"
  /\ session' = [session EXCEPT ![s] = "ended"]
  /\ UNCHANGED <<people, owner, outdated>>

(* What SessionManager.Verify asks of the database on every request: the   *)
(* session's row, and the account's status of that moment.                 *)
Serves(s) == session[s] = "active" /\ user[owner[s]] = "APPROVED"

-----------------------------------------------------------------------------
(* The superadmin portal.                                                  *)

CreateInvitation(p) ==
  /\ user[p] = NoRow
  /\ invite' = [invite EXCEPT ![p] = "PENDING"]
  /\ UNCHANGED <<user, linked, session, owner, trail, job, outdated>>

InvitationEnds(p, how) ==
  /\ invite[p] = "PENDING"
  /\ invite' = [invite EXCEPT ![p] = how]
  /\ UNCHANGED <<user, linked, session, owner, trail, job, outdated>>

RevokeInvitation(p) == InvitationEnds(p, "REVOKED")
InvitationExpires(p) == InvitationEnds(p, "EXPIRED")

CanBecome(from, to) ==
  \/ to = "APPROVED" /\ from \in {"PENDING_APPROVAL", "SUSPENDED", "REJECTED"}
  \/ to = "REJECTED" /\ from = "PENDING_APPROVAL"
  \/ to = "SUSPENDED" /\ from = "APPROVED"

(* Variant: a rejection leaves the sessions alone.                         *)
UpdateUserStatusKeeping(p, to) ==
  /\ CanBecome(user[p], to)
  /\ user' = [user EXCEPT ![p] = to]
  /\ Record(p, user[p], to)
  /\ IF to \in ClosedStatuses THEN Outdate(p) ELSE UNCHANGED outdated
  /\ IF to = "SUSPENDED" THEN RevokeActive(p) ELSE UNCHANGED session
  /\ UNCHANGED <<linked, invite, owner, job>>

(* Variant: only decisions on a new account are recorded.                  *)
UpdateUserStatusUnrecorded(p, to) ==
  /\ CanBecome(user[p], to)
  /\ user' = [user EXCEPT ![p] = to]
  /\ IF user[p] = "PENDING_APPROVAL"
       THEN Record(p, user[p], to) ELSE UNCHANGED trail
  /\ IF to \in ClosedStatuses
       THEN RevokeActive(p) /\ Outdate(p)
       ELSE UNCHANGED <<session, outdated>>
  /\ UNCHANGED <<linked, invite, owner, job>>

(* approve, reject, suspend, reactivate: the row is locked, checked and    *)
(* changed, the sessions revoked and the change recorded in a transaction. *)
UpdateUserStatus(p, to) ==
  /\ CanBecome(user[p], to)
  /\ user' = [user EXCEPT ![p] = to]
  /\ Record(p, user[p], to)
  /\ IF to \in ClosedStatuses
       THEN RevokeActive(p) /\ Outdate(p)
       ELSE UNCHANGED <<session, outdated>>
  /\ UNCHANGED <<linked, invite, owner, job>>

RevokeUserSessions(p) ==
  /\ RevokeActive(p)
  /\ Outdate(p)
  /\ UNCHANGED <<people, owner>>

(* A transfer ends the sessions too: they carry the old branch.            *)
UpdateUserBranch(p) == user[p] # NoRow /\ RevokeUserSessions(p)

-----------------------------------------------------------------------------
(* The employee screen: /api/v1/admin/employees.  Its statements are not   *)
(* in a transaction and none of them writes to user_status_audits.         *)

CreateEmployee(p) ==
  /\ job[p] = "none"
  /\ invite' = [invite EXCEPT ![p] = "PENDING"]
  /\ job' = [job EXCEPT ![p] = "upsert"]
  /\ UNCHANGED <<user, linked, session, owner, trail, outdated>>

CreateEmployeeUser(p) ==
  /\ job[p] = "upsert"
  /\ user' = [user EXCEPT ![p] = "APPROVED"]
  /\ job' = [job EXCEPT ![p] = "none"]
  /\ UNCHANGED <<linked, invite, session, owner, trail, outdated>>

(* PATCH with a status.  The id is the account's; of somebody who is only  *)
(* invited it is the invitation's, and SUSPENDED withdraws it.             *)
UpdateEmployee(p, to) ==
  \/ /\ user[p] # NoRow
     /\ user' = [user EXCEPT ![p] = to]
     /\ IF to \in ClosedStatuses THEN Outdate(p) ELSE UNCHANGED outdated
     /\ UNCHANGED <<linked, invite, session, owner, trail, job>>
  \/ user[p] = NoRow /\ to = "SUSPENDED" /\ RevokeInvitation(p)

(* DELETE: the account is suspended, then its sessions are revoked; the    *)
(* third statement looks for an invitation with the account's id, which    *)
(* none has.  Of somebody only invited it withdraws the invitation.        *)
DeleteEmployee(p) ==
  \/ /\ user[p] # NoRow /\ job[p] = "none"
     /\ user' = [user EXCEPT ![p] = "SUSPENDED"]
     /\ job' = [job EXCEPT ![p] = "revoke"]
     /\ Outdate(p)
     /\ UNCHANGED <<linked, invite, session, owner, trail>>
  \/ user[p] = NoRow /\ RevokeInvitation(p)

DeleteEmployeeSessions(p) ==
  /\ job[p] = "revoke"
  /\ RevokeActive(p)
  /\ job' = [job EXCEPT ![p] = "none"]
  /\ UNCHANGED <<user, linked, invite, owner, trail, outdated>>

(* The server stops between the statements.                                *)
JobIsCutShort(p) ==
  /\ job[p] # "none"
  /\ job' = [job EXCEPT ![p] = "none"]
  /\ UNCHANGED <<user, linked, invite, session, owner, trail, outdated>>

-----------------------------------------------------------------------------
SignIns ==
  \E s \in Sessions :
    \/ \E p \in People : GoogleLogin(p, s) \/ LoginPassword(p, s)
    \/ CreateSession(s) \/ LoginFails(s) \/ EndSession(s)

Portal ==
  \E p \in People :
    \/ CreateInvitation(p) \/ RevokeInvitation(p) \/ InvitationExpires(p)
    \/ \E to \in Statuses : UpdateUserStatus(p, to)
    \/ RevokeUserSessions(p) \/ UpdateUserBranch(p)

Employees(p) ==
  \/ CreateEmployee(p) \/ CreateEmployeeUser(p)
  \/ \E to \in Statuses \ {"PENDING_APPROVAL"} : UpdateEmployee(p, to)
  \/ DeleteEmployee(p) \/ DeleteEmployeeSessions(p)
  \/ JobIsCutShort(p)

Next ==
  \/ (SignIns \/ Portal) /\ UNCHANGED touched
  \/ \E p \in People : Employees(p) /\ touched' = touched \cup {p}

Spec == Init /\ [][Next]_vars

-----------------------------------------------------------------------------
(* The type of every variable; a closing is never a deletion: a person who *)
(* has a row keeps one of the four statuses.                               *)
TypeOK ==
  /\ user \in [People -> Statuses \cup {NoRow}]
  /\ linked \subseteq People
  /\ invite \in [People -> {NoRow, "PENDING", "ACCEPTED", "REVOKED", "EXPIRED"}]
  /\ session \in [Sessions -> {"unused", "issued", "active", "ended"}]
  /\ owner \in [Sessions -> People]
  /\ trail \in [People -> Seq([from : Statuses \cup {"NULL"}, to : Statuses])]
  /\ \A p \in People : Len(trail[p]) <= MaxTrail
  /\ job \in [People -> {"none", "upsert", "revoke"}]
  /\ outdated \subseteq Sessions /\ touched \subseteq People

(* Unless the employee screen was used on the account: a session that was  *)
(* alive when the account was closed, or when its sessions were revoked,   *)
(* is never served again, not even after the account is reactivated        *)
(* (UpdateUserStatus, RevokeUserSessions, Verify).                         *)
OutdatedStayShut == \A s \in outdated : owner[s] \in touched \/ ~Serves(s)

(* Unless the employee screen was used on the account, or it is one of the *)
(* configured names, the audit trail explains it: each row starts from the *)
(* status the row before it left, the last one left the present status,    *)
(* and an account without a row was never decided upon.  An invitation     *)
(* that was taken up left its traces: the identity is linked and the       *)
(* approval without an earlier status is on record.                        *)
TrailExplainsStatus ==
  \A p \in People \ (touched \cup Configured) :
    LET t == trail[p] IN
    /\ \A i \in 2 .. Len(t) : t[i].from = t[i - 1].to
    /\ IF t = << >> THEN user[p] \notin ClosedStatuses ELSE t[Len(t)].to = user[p]
    /\ invite[p] = "ACCEPTED" => p \in linked /\ t # << >> /\ t[1].from = "NULL"

(* Nobody whose account was rejected or suspended is let back in by        *)
(* signing in: only a decision on the account reopens it                   *)
(* (upsertGoogleIdentity, EnsureUser).  It needs that everybody with an    *)
(* account has signed in with Google once or was never invited, which the  *)
(* portal sees to and the employee screen and the configured names do not. *)
SignInNeverReinstates ==
  [][\A s \in Sessions :
       (session[s] = "unused" /\ session'[s] = "issued") =>
         \A p \in People \ (touched \cup Configured) :
           user[p] \in ClosedStatuses => user'[p] = user[p]]_vars
=============================================================================
