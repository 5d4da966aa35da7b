---------------------------- MODULE Accounts_proofs ----------------------------
(* Theorems about Accounts, for any people, sessions and configuration, and*)
(* about AdminPortal, the page that manages them, for any number of        *)
(* sessions and requests.                                                  *)
EXTENDS Accounts, AdminPortal, TLAPS

AuditRows == [from : Statuses \cup {"NULL"}, to : Statuses]
Trails == [People -> Seq(AuditRows)]
Short == \A p \in People : Len(trail[p]) <= MaxTrail

-----------------------------------------------------------------------------
(* Type correctness.                                                       *)
LEMMA Recorded ==
  ASSUME trail \in Trails, Short, NEW p \in People, NEW from \in Statuses \cup {"NULL"},
         NEW to \in Statuses, Record(p, from, to)
  PROVE  /\ trail' \in Trails /\ Short'
         /\ trail'[p] = Append(trail[p], [from |-> from, to |-> to])
         /\ \A q \in People \ {p} : trail'[q] = trail[q]
<1>1. [from |-> from, to |-> to] \in AuditRows
  BY DEF AuditRows
<1>2. trail[p] \in Seq(AuditRows) /\ Append(trail[p], [from |-> from, to |-> to]) \in Seq(AuditRows)
  BY <1>1 DEF Trails
<1>3. trail' = [trail EXCEPT ![p] = Append(trail[p], [from |-> from, to |-> to])]
  BY DEF Record
<1>4. Len(Append(trail[p], [from |-> from, to |-> to])) <= MaxTrail
  <2>1. Len(Append(trail[p], [from |-> from, to |-> to])) = Len(trail[p]) + 1
    BY <1>2
  <2> QED BY <1>2, <2>1, AccountsAssumption DEF Record
<1> QED BY <1>2, <1>3, <1>4 DEF Trails, Short

(* Everything but the audit trail.                                         *)
RowTypes ==
  /\ user \in [People -> Statuses \cup {NoRow}]
  /\ linked \subseteq People
  /\ invite \in [People -> {NoRow, "PENDING", "ACCEPTED", "REVOKED", "EXPIRED"}]
  /\ session \in [Sessions -> {"unused", "issued", "active", "ended"}]
  /\ owner \in [Sessions -> People]
  /\ job \in [People -> {"none", "upsert", "revoke"}]
  /\ outdated \subseteq Sessions

LEMMA SignInTypes ==
  ASSUME RowTypes, trail \in Trails, Short, SignIns
  PROVE  RowTypes' /\ trail' \in Trails /\ Short'
<1> USE DEF RowTypes
<1>1. ASSUME NEW p \in People, NEW s \in Sessions, GoogleLogin(p, s)
      PROVE  RowTypes' /\ trail' \in Trails /\ Short'
  <2>1. RowTypes'
    BY <1>1 DEF GoogleLogin, Issue, Statuses
  <2>2. Record(p, "NULL", "APPROVED") \/ trail' = trail
    BY <1>1 DEF GoogleLogin
  <2>3. trail' \in Trails /\ Short'
    BY <2>2, Recorded DEF Statuses, Short
  <2> QED BY <2>1, <2>3
<1>2. ASSUME NEW p \in People, NEW s \in Sessions, LoginPassword(p, s)
      PROVE  RowTypes' /\ trail' \in Trails /\ Short'
  BY <1>2 DEF LoginPassword, Issue, Statuses, Short
<1>3. ASSUME NEW s \in Sessions, CreateSession(s) \/ LoginFails(s) \/ EndSession(s)
      PROVE  RowTypes' /\ trail' \in Trails /\ Short'
  BY <1>3 DEF CreateSession, LoginFails, EndSession, people, Short
<1> QED BY <1>1, <1>2, <1>3 DEF SignIns

LEMMA PortalTypes ==
  ASSUME RowTypes, trail \in Trails, Short, Portal
  PROVE  RowTypes' /\ trail' \in Trails /\ Short'
<1> USE DEF RowTypes, RevokeActive, Outdate, ActiveOf
<1>1. ASSUME NEW p \in People,
             CreateInvitation(p) \/ RevokeInvitation(p) \/ InvitationExpires(p)
      PROVE  RowTypes' /\ trail' \in Trails /\ Short'
  BY <1>1 DEF CreateInvitation, RevokeInvitation, InvitationExpires, InvitationEnds, Short
<1>2. ASSUME NEW p \in People, NEW to \in Statuses, UpdateUserStatus(p, to)
      PROVE  RowTypes' /\ trail' \in Trails /\ Short'
  <2>1. RowTypes'
    BY <1>2 DEF UpdateUserStatus
  <2>2. user[p] \in Statuses
    BY <1>2 DEF UpdateUserStatus, CanBecome, Statuses
  <2>3. trail' \in Trails /\ Short'
    BY <1>2, <2>2, Recorded DEF UpdateUserStatus
  <2> QED BY <2>1, <2>3
<1>3. ASSUME NEW p \in People, RevokeUserSessions(p) \/ UpdateUserBranch(p)
      PROVE  RowTypes' /\ trail' \in Trails /\ Short'
  BY <1>3 DEF RevokeUserSessions, UpdateUserBranch, people, Short
<1> QED BY <1>1, <1>2, <1>3 DEF Portal

LEMMA EmployeeTypes ==
  ASSUME RowTypes, trail \in Trails, Short, NEW p \in People, Employees(p)
  PROVE  RowTypes' /\ trail' \in Trails /\ Short'
<1> USE DEF RowTypes, RevokeActive, Outdate, ActiveOf, Statuses, Short
<1>1. CASE CreateEmployee(p) \/ CreateEmployeeUser(p) \/ JobIsCutShort(p)
  BY <1>1 DEF CreateEmployee, CreateEmployeeUser, JobIsCutShort
<1>2. ASSUME NEW to \in Statuses, UpdateEmployee(p, to)
      PROVE  RowTypes' /\ trail' \in Trails /\ Short'
  BY <1>2 DEF UpdateEmployee, RevokeInvitation, InvitationEnds
<1>3. CASE DeleteEmployee(p) \/ DeleteEmployeeSessions(p)
  BY <1>3 DEF DeleteEmployee, DeleteEmployeeSessions, RevokeInvitation, InvitationEnds
<1> QED BY <1>1, <1>2, <1>3 DEF Employees

LEMMA TypeStep == TypeOK /\ [Next]_vars => TypeOK'
<1> SUFFICES ASSUME TypeOK, [Next]_vars PROVE TypeOK'
  OBVIOUS
<1>1. RowTypes /\ trail \in Trails /\ Short /\ touched \subseteq People
  BY DEF TypeOK, RowTypes, Trails, Short, AuditRows
<1>2. RowTypes' /\ trail' \in Trails /\ Short'
  <2>1. CASE UNCHANGED vars
    BY <1>1, <2>1 DEF vars, RowTypes, Short
  <2> QED BY <1>1, <2>1, SignInTypes, PortalTypes, EmployeeTypes DEF Next
<1>3. touched' \subseteq People
  BY <1>1 DEF Next, vars
<1> QED BY <1>2, <1>3 DEF TypeOK, RowTypes, Trails, Short, AuditRows

LEMMA TypeInit == Init => TypeOK
<1> SUFFICES ASSUME Init PROVE TypeOK
  OBVIOUS
<1>1. (CHOOSE p \in People : TRUE) \in People
  BY AccountsAssumption
<1>2. owner \in [Sessions -> People]
  BY <1>1 DEF Init
<1>3. \A p \in People : trail[p] = << >> /\ Len(trail[p]) = 0
  BY DEF Init
<1>4. trail \in [People -> Seq([from : Statuses \cup {"NULL"}, to : Statuses])]
  BY DEF Init
<1> QED BY <1>2, <1>3, <1>4, AccountsAssumption DEF Init, TypeOK

(* Every variable keeps its type.                                          *)
THEOREM TypeCorrect == Spec => []TypeOK
BY TypeInit, TypeStep, PTL DEF Spec

-----------------------------------------------------------------------------
(* Sessions.  A session that was alive when its owner was shut out has     *)
(* ended, for good, unless the employee screen did the shutting.           *)
ShutInv ==
  \A s \in outdated :
    /\ session[s] \in {"active", "ended"}
    /\ session[s] = "ended" \/ owner[s] \in touched

LEMMA ShutStep == TypeOK /\ ShutInv /\ [Next]_vars => ShutInv'
<1> SUFFICES ASSUME TypeOK, ShutInv, [Next]_vars PROVE ShutInv'
  OBVIOUS
<1> USE DEF TypeOK, ShutInv
<1>1. ASSUME SignIns, touched' = touched PROVE ShutInv'
  <2>1. ASSUME NEW s \in Sessions, NEW p \in People, Issue(p, s) PROVE ShutInv'
    BY <1>1, <2>1 DEF Issue
  <2>2. ASSUME NEW s \in Sessions, CreateSession(s) \/ LoginFails(s) \/ EndSession(s)
        PROVE  ShutInv'
    BY <1>1, <2>2 DEF CreateSession, LoginFails, EndSession
  <2>3. ASSUME NEW s \in Sessions, NEW p \in People, GoogleLogin(p, s) \/ LoginPassword(p, s)
        PROVE  ShutInv'
    BY <2>1, <2>3 DEF GoogleLogin, LoginPassword
  <2> QED BY <1>1, <2>2, <2>3 DEF SignIns
<1>2. ASSUME Portal, touched' = touched PROVE ShutInv'
  <2>1. ASSUME UNCHANGED <<session, owner, outdated>> PROVE ShutInv'
    BY <1>2, <2>1
  <2>2. ASSUME NEW p \in People, RevokeActive(p), Outdate(p), owner' = owner PROVE ShutInv'
    BY <1>2, <2>2 DEF RevokeActive, Outdate, ActiveOf
  <2> QED BY <1>2, <2>1, <2>2 DEF Portal, CreateInvitation, RevokeInvitation, InvitationExpires,
               InvitationEnds, UpdateUserStatus, RevokeUserSessions, UpdateUserBranch
<1>3. ASSUME NEW p \in People, Employees(p), touched' = touched \cup {p} PROVE ShutInv'
  <2>1. ASSUME UNCHANGED <<session, owner, outdated>> PROVE ShutInv'
    BY <1>3, <2>1
  <2>2. ASSUME Outdate(p), UNCHANGED <<session, owner>> PROVE ShutInv'
    BY <1>3, <2>2 DEF Outdate, ActiveOf
  <2>3. ASSUME RevokeActive(p), UNCHANGED <<owner, outdated>> PROVE ShutInv'
    BY <1>3, <2>3 DEF RevokeActive, ActiveOf
  <2>4. ASSUME NEW to, UpdateEmployee(p, to) PROVE ShutInv'
    BY <2>1, <2>2, <2>4 DEF UpdateEmployee, RevokeInvitation, InvitationEnds
  <2>5. ASSUME DeleteEmployee(p) PROVE ShutInv'
    BY <2>1, <2>2, <2>5 DEF DeleteEmployee, RevokeInvitation, InvitationEnds
  <2> QED BY <1>3, <2>1, <2>3, <2>4, <2>5 DEF Employees, CreateEmployee, CreateEmployeeUser,
               DeleteEmployeeSessions, JobIsCutShort
<1>4. CASE UNCHANGED vars
  BY <1>4 DEF vars
<1> QED BY <1>1, <1>2, <1>3, <1>4 DEF Next

(* Who was shut out by the portal stays out of the sessions of that time,  *)
(* for any number of sign-ins and decisions on the account: a revoked row  *)
(* is never made active again.                                             *)
THEOREM OutdatedSessionsStayShut == Spec => []OutdatedStayShut
<1>1. Init => ShutInv
  BY DEF Init, ShutInv
<1>2. ShutInv => OutdatedStayShut
  BY DEF ShutInv, OutdatedStayShut, Serves
<1> QED BY <1>1, <1>2, TypeInit, TypeStep, ShutStep, PTL DEF Spec

-----------------------------------------------------------------------------
(* The audit trail.  Who never signed in with Google has no account.       *)
Ordinary == People \ (touched \cup Configured)

Explained(p) ==
  /\ p \notin linked => user[p] = NoRow /\ trail[p] = << >>
  /\ \A i \in 2 .. Len(trail[p]) : trail[p][i].from = trail[p][i - 1].to
  /\ IF trail[p] = << >>
       THEN user[p] \notin ClosedStatuses ELSE trail[p][Len(trail[p])].to = user[p]
  /\ invite[p] = "ACCEPTED" => p \in linked /\ trail[p] # << >> /\ trail[p][1].from = "NULL"

TrailInv == \A p \in Ordinary : Explained(p)

(* A decision recorded from the present status extends the trail.          *)
LEMMA Extended ==
  ASSUME TypeOK, NEW p \in People, Explained(p), NEW to \in Statuses,
         NEW from \in Statuses \cup {"NULL"},
         from = user[p] \/ (p \notin linked /\ from = "NULL"),
         Record(p, from, to), user'[p] = to, p \in linked',
         invite'[p] = invite[p] \/ from = "NULL",
         p \in linked \/ from = "NULL"
  PROVE  Explained(p)'
<1> DEFINE t == trail[p]
           row == [from |-> from, to |-> to]
<1>1. trail \in Trails /\ Short
  BY DEF TypeOK, Trails, Short, AuditRows
<1>2. trail'[p] = Append(t, row) /\ t \in Seq(AuditRows) /\ row \in AuditRows
  BY <1>1, Recorded DEF Trails, AuditRows
<1>3. /\ Len(Append(t, row)) = Len(t) + 1 /\ Len(t) \in Nat
      /\ \A i \in 1 .. Len(t) : Append(t, row)[i] = t[i]
      /\ Append(t, row)[Len(t) + 1] = row
      /\ Append(t, row) # << >>
  BY <1>2
<1>4. t # << >> => p \in linked /\ t[Len(t)].to = from
  BY DEF Explained
<1>5. \A i \in 2 .. Len(trail'[p]) : trail'[p][i].from = trail'[p][i - 1].to
  <2> SUFFICES ASSUME NEW i \in 2 .. Len(t) + 1
               PROVE  Append(t, row)[i].from = Append(t, row)[i - 1].to
    BY <1>2, <1>3
  <2>1. CASE i \in 2 .. Len(t)
    BY <1>3, <2>1 DEF Explained
  <2>2. CASE i = Len(t) + 1
    <3>1. t # << >> /\ Len(t) \in 1 .. Len(t)
      BY <1>2, <1>3, <2>2
    <3> QED BY <1>3, <1>4, <2>2, <3>1
  <2> QED BY <1>3, <2>1, <2>2
<1>6. trail'[p][Len(trail'[p])].to = user'[p] /\ trail'[p] # << >>
  BY <1>2, <1>3
<1>7. invite'[p] = "ACCEPTED" => trail'[p][1].from = "NULL"
  <2>1. CASE t = << >>
    BY <1>2, <1>3, <2>1 DEF Explained
  <2>2. CASE t # << >>
    <3>1. 1 \in 1 .. Len(t) /\ trail'[p][1] = t[1]
      BY <1>2, <1>3, <2>2
    <3>2. t[Len(t)] \in AuditRows
      BY <1>2, <1>3, <3>1
    <3>3. from # "NULL"
      BY <1>4, <2>2, <3>2 DEF AuditRows, Statuses
    <3> QED BY <3>1, <3>3 DEF Explained
  <2> QED BY <2>1, <2>2
<1> QED BY <1>5, <1>6, <1>7 DEF Explained

LEMMA TrailStep == TypeOK /\ TrailInv /\ [Next]_vars => TrailInv'
<1> SUFFICES ASSUME TypeOK, TypeOK', TrailInv, [Next]_vars, NEW p \in Ordinary'
             PROVE  Explained(p)'
  BY TypeStep DEF TrailInv
<1>0. p \in People /\ p \in Ordinary /\ Explained(p)
  BY DEF Ordinary, TrailInv, Next, vars
<1>1. ASSUME user'[p] = user[p], trail'[p] = trail[p],
             p \in linked' <=> p \in linked,
             invite'[p] = "ACCEPTED" => invite[p] = "ACCEPTED"
      PROVE  Explained(p)'
  BY <1>0, <1>1 DEF Explained
<1>2. ASSUME NEW q \in People, NEW s \in Sessions, GoogleLogin(q, s) PROVE Explained(p)'
  <2>1. CASE q # p
    <3>1. /\ user'[p] = user[p] /\ invite'[p] = invite[p]
          /\ p \in linked' <=> p \in linked
      BY <1>0, <1>2, <2>1 DEF GoogleLogin, TypeOK
    <3>2. trail'[p] = trail[p]
      BY <1>0, <1>2, <2>1 DEF GoogleLogin, Record, TypeOK
    <3> QED BY <1>1, <3>1, <3>2
  <2>2. CASE q = p /\ TakesUpInvitation(p)
    <3>1. /\ Record(p, "NULL", "APPROVED") /\ user'[p] = "APPROVED" /\ p \in linked'
          /\ p \notin linked
      BY <1>0, <1>2, <2>2 DEF GoogleLogin, TypeOK, TakesUpInvitation
    <3> QED BY <1>0, <3>1, Extended DEF Statuses
  <2>3. CASE q = p /\ ~TakesUpInvitation(p)
    <3>1. /\ user'[p] = IF user[p] = NoRow THEN "PENDING_APPROVAL" ELSE user[p]
          /\ trail' = trail /\ invite' = invite /\ linked' = linked \cup {p}
      BY <1>0, <1>2, <2>3 DEF GoogleLogin, TypeOK
    <3>2. CASE user[p] # NoRow
      <4>1. p \in linked /\ user'[p] = user[p]
        BY <1>0, <3>1, <3>2 DEF Explained
      <4> QED BY <1>1, <3>1, <4>1
    <3>3. CASE user[p] = NoRow
      <4>1. trail[p] = << >>
        <5>1. SUFFICES ASSUME trail[p] # << >> PROVE FALSE
          OBVIOUS
        <5> DEFINE t == trail[p]
        <5>2. t \in Seq(AuditRows)
          BY <1>0 DEF TypeOK, AuditRows
        <5>3. t[Len(t)] \in AuditRows
          <6> HIDE DEF t
          <6>1. t # << >>
            BY <5>1 DEF t
          <6> QED BY <5>2, <6>1
        <5>4. trail[p][Len(trail[p])].to \in Statuses
          BY <5>3 DEF AuditRows
        <5> QED BY <1>0, <3>3, <5>1, <5>4 DEF Explained, NoRow, Statuses
      <4>2. trail'[p] = << >> /\ user'[p] = "PENDING_APPROVAL" /\ p \in linked'
        BY <3>1, <3>3, <4>1
      <4>3. invite'[p] # "ACCEPTED"
        BY <1>0, <3>1, <4>1 DEF Explained
      <4>4. \A i \in 2 .. Len(trail'[p]) : FALSE
        BY <4>2
      <4> QED BY <4>2, <4>3, <4>4 DEF Explained, ClosedStatuses
    <3> QED BY <3>2, <3>3
  <2> QED BY <2>1, <2>2, <2>3
<1>3. ASSUME NEW q \in People, NEW s \in Sessions, LoginPassword(q, s) PROVE Explained(p)'
  <2>1. /\ trail' = trail /\ invite' = invite /\ linked' = linked
        /\ user'[p] = user[p]
    BY <1>0, <1>3 DEF LoginPassword, TypeOK, Ordinary, NoRow
  <2> QED BY <1>1, <2>1
<1>4. ASSUME NEW q \in People, NEW to \in Statuses, UpdateUserStatus(q, to) PROVE Explained(p)'
  <2>1. CASE q # p
    <3>1. user'[p] = user[p] /\ trail'[p] = trail[p] /\ invite' = invite /\ linked' = linked
      BY <1>0, <1>4, <2>1 DEF UpdateUserStatus, Record, TypeOK
    <3> QED BY <1>1, <3>1
  <2>2. CASE q = p
    <3>1. /\ Record(p, user[p], to) /\ user'[p] = to /\ invite' = invite /\ linked' = linked
          /\ user[p] \in Statuses
      BY <1>0, <1>4, <2>2 DEF UpdateUserStatus, CanBecome, TypeOK, Statuses
    <3>2. p \in linked
      BY <1>0, <3>1 DEF Explained, NoRow, Statuses
    <3> QED BY <1>0, <3>1, <3>2, Extended
  <2> QED BY <2>1, <2>2
<1>5. ASSUME NEW q \in People,
             CreateInvitation(q) \/ RevokeInvitation(q) \/ InvitationExpires(q)
      PROVE  Explained(p)'
  <2>1. user' = user /\ trail' = trail /\ linked' = linked
    BY <1>5 DEF CreateInvitation, RevokeInvitation, InvitationExpires, InvitationEnds
  <2>2. invite'[p] = "ACCEPTED" => invite[p] = "ACCEPTED"
    BY <1>0, <1>5 DEF CreateInvitation, RevokeInvitation, InvitationExpires, InvitationEnds, TypeOK
  <2> QED BY <1>1, <2>1, <2>2
<1>6. ASSUME UNCHANGED people PROVE Explained(p)'
  BY <1>1, <1>6 DEF people
<1>7. CASE SignIns
  BY <1>2, <1>3, <1>6, <1>7 DEF SignIns, CreateSession, LoginFails, EndSession
<1>8. CASE Portal
  BY <1>4, <1>5, <1>6, <1>8 DEF Portal, RevokeUserSessions, UpdateUserBranch
<1>9. ASSUME NEW q \in People, Employees(q), touched' = touched \cup {q} PROVE Explained(p)'
  <2>1. q # p
    BY <1>9 DEF Ordinary
  <2>2. trail' = trail /\ linked' = linked
    BY <1>9 DEF Employees, CreateEmployee, CreateEmployeeUser, UpdateEmployee, DeleteEmployee,
       DeleteEmployeeSessions, JobIsCutShort, RevokeInvitation, InvitationEnds
  <2>3. user'[p] = user[p] /\ invite'[p] = invite[p]
    BY <1>0, <1>9, <2>1 DEF Employees, CreateEmployee, CreateEmployeeUser, UpdateEmployee,
       DeleteEmployee, DeleteEmployeeSessions, JobIsCutShort, RevokeInvitation, InvitationEnds, TypeOK
  <2> QED BY <1>1, <2>2, <2>3
<1>10. CASE UNCHANGED vars
  BY <1>6, <1>10 DEF vars, people
<1> QED BY <1>7, <1>8, <1>9, <1>10 DEF Next

LEMMA TrailInit == Init => TrailInv
<1> SUFFICES ASSUME Init, NEW p \in People PROVE Explained(p)
  BY DEF TrailInv, Ordinary
<1>1. trail[p] = << >> /\ user[p] = NoRow /\ invite[p] = NoRow /\ Len(trail[p]) = 0
  BY DEF Init
<1>2. \A i \in 2 .. Len(trail[p]) : FALSE
  BY <1>1
<1> QED BY <1>1, <1>2 DEF Explained, NoRow, ClosedStatuses

(* Away from the employee screen and the configured names the audit trail  *)
(* accounts for every account, whoever signs in meanwhile.                 *)
THEOREM TrailIsExplanation == Spec => []TrailExplainsStatus
<1>1. TrailInv => TrailExplainsStatus
  BY DEF TrailInv, Ordinary, Explained, TrailExplainsStatus
<1> QED BY <1>1, TypeInit, TypeStep, TrailInit, TrailStep, PTL DEF Spec

(* Signing in never reopens an account that was closed: an invitation is   *)
(* taken up by somebody who has no account yet.                            *)
THEOREM SignInsDoNotReinstate == Spec => SignInNeverReinstates
<1> DEFINE A == \A s \in Sessions :
                  (session[s] = "unused" /\ session'[s] = "issued") =>
                    \A p \in People \ (touched \cup Configured) :
                      user[p] \in ClosedStatuses => user'[p] = user[p]
<1>1. TypeOK /\ TrailInv /\ [Next]_vars => A
  <2> SUFFICES ASSUME TypeOK, TrailInv, [Next]_vars, NEW s \in Sessions,
                      session[s] = "unused", session'[s] = "issued",
                      NEW p \in Ordinary, user[p] \in ClosedStatuses
               PROVE  user'[p] = user[p]
    BY DEF Ordinary
  <2>1. PICK q \in People, t \in Sessions : GoogleLogin(q, t) \/ LoginPassword(q, t)
    <3>1. ASSUME NEW t \in Sessions, CreateSession(t) \/ LoginFails(t) \/ EndSession(t) PROVE FALSE
      BY <3>1 DEF CreateSession, LoginFails, EndSession, TypeOK
    <3>2. CASE Portal
      BY <3>2 DEF Portal, CreateInvitation, RevokeInvitation, InvitationExpires, InvitationEnds,
         UpdateUserStatus, RevokeUserSessions, UpdateUserBranch, RevokeActive, TypeOK
    <3>3. ASSUME NEW q \in People, Employees(q) PROVE FALSE
      <4>1. session' = session \/ RevokeActive(q)
        BY <3>3 DEF Employees, CreateEmployee, CreateEmployeeUser, UpdateEmployee, DeleteEmployee,
           DeleteEmployeeSessions, JobIsCutShort, RevokeInvitation, InvitationEnds
      <4> QED BY <4>1 DEF RevokeActive
    <3> QED BY <3>1, <3>2, <3>3 DEF Next, SignIns, vars
  <2>2. p \in People /\ p \in linked
    BY DEF Ordinary, TrailInv, Explained, ClosedStatuses, NoRow
  <2> QED BY <2>1, <2>2 DEF GoogleLogin, TakesUpInvitation, LoginPassword, ClosedStatuses, NoRow, TypeOK
<1> QED BY <1>1, TypeInit, TypeStep, TrailInit, TrailStep, PTL DEF Spec, SignInNeverReinstates

(***************************************************************************)
(* The superadmin portal (AdminPortal).                                    *)
(***************************************************************************)
(* What a step may do to the page: only the answer of a login, or of the   *)
(* check of a stored token, shows the portal.                              *)
LEMMA PageStep ==
  ASSUME [PortalNext]_portalVars
  PROVE  \/ token' = token /\ section' = section
         \/ token' = 0 /\ section' = "auth" /\ timer' = FALSE
         \/ section' = "portal" /\ timer' = auto /\ auto' = auto /\ token' = issued'
              /\ issued' = issued + 1
         \/ section' = "portal" /\ timer' = auto /\ auto' = auto
              /\ \E r \in requests : r.op = "me"
<1>1. ASSUME NEW r \in requests, AnswerLogin(r)
      PROVE  \/ token' = 0 /\ section' = "auth" /\ timer' = FALSE
             \/ /\ section' = "portal" /\ timer' = auto /\ auto' = auto
                /\ token' = issued' /\ issued' = issued + 1
  BY <1>1 DEF AnswerLogin, ShowPortal, handleAuthFailure, choice
<1>2. ASSUME NEW r \in requests, AnswerMe(r)
      PROVE  \/ token' = 0 /\ section' = "auth" /\ timer' = FALSE
             \/ section' = "portal" /\ timer' = auto /\ auto' = auto /\ r.op = "me"
  BY <1>2 DEF AnswerMe, ShowPortal, handleAuthFailure, choice
<1>3. ASSUME NEW r \in requests, AnswerLogout(r) \/ AnswerUsers(r) \/ AnswerPanel(r) \/ AnswerWa(r)
      PROVE  \/ token' = 0 /\ section' = "auth" /\ timer' = FALSE
             \/ token' = token /\ section' = section
  BY <1>3 DEF AnswerLogout, AnswerUsers, AnswerPanel, AnswerWa, Unauthorized, handleAuthFailure, view
<1>4. ASSUME Login \/ Logout \/ SessionEnds \/ Toggle \/ Tick \/ CloseWa
      PROVE  token' = token /\ section' = section
  BY <1>4 DEF Login, Logout, SessionEnds, Toggle, Tick, CloseWa, view
<1>5. ASSUME \/ \E t \in Tabs : SwitchTab(t)
             \/ \E f \in Filters : PickFilter(f)
             \/ \E u \in Admins : OpenWa(u)
      PROVE  token' = token /\ section' = section
  BY <1>5 DEF SwitchTab, PickFilter, OpenWa, view
<1>6. CASE UNCHANGED portalVars
  BY <1>6 DEF portalVars, view
<1> QED BY <1>1, <1>2, <1>3, <1>4, <1>5, <1>6 DEF PortalNext, Answer

(* A page that was opened without a stored token checks none.              *)
Fresh ==
  /\ issued \in Nat
  /\ \A r \in requests : r.op # "me"

LEMMA FreshStep == Fresh /\ [PortalNext]_portalVars => Fresh'
<1> SUFFICES ASSUME Fresh, [PortalNext]_portalVars PROVE Fresh'
  OBVIOUS
<1>1. ASSUME NEW r, NEW op \in {"login", "logout", "users", "panel", "wa"}, NEW tok, NEW arg,
             r = Request(op, tok, arg)
      PROVE  r.op # "me"
  BY <1>1 DEF Request
<1>2. ASSUME NEW tok, NEW t, NEW f, NEW r \in Load(tok, t, f) PROVE r.op # "me"
  <2>1. CASE r = Request("users", tok, f)
    BY <1>1, <2>1
  <2>2. CASE r = Request("panel", tok, "")
    BY <1>1, <2>2
  <2> QED BY <2>1, <2>2 DEF Load
<1>3. ASSUME NEW r \in requests, AnswerLogin(r) PROVE Fresh'
  BY <1>2, <1>3 DEF Fresh, AnswerLogin, ShowPortal, Send, handleAuthFailure, server
<1>4. ASSUME NEW r \in requests, AnswerMe(r) PROVE Fresh'
  BY <1>4 DEF Fresh, AnswerMe
<1>5. ASSUME NEW r \in requests, AnswerLogout(r) \/ AnswerUsers(r) \/ AnswerPanel(r) \/ AnswerWa(r)
      PROVE  Fresh'
  BY <1>5 DEF Fresh, AnswerLogout, AnswerUsers, AnswerPanel, AnswerWa, Unauthorized,
              handleAuthFailure, server
<1>6. ASSUME Login \/ Logout \/ SessionEnds \/ Toggle \/ Tick \/ CloseWa
      PROVE  Fresh'
  <2>1. issued' = issued
    BY <1>6 DEF Login, Logout, SessionEnds, Toggle, Tick, CloseWa, server
  <2>2. ASSUME NEW r \in requests' \ requests PROVE r.op # "me"
    <3>1. \/ r = Request("login", 0, "") \/ r = Request("logout", token, "")
          \/ r = Request("users", token, filter) \/ r = Request("panel", token, "")
      BY <1>6, <2>2 DEF Login, Logout, SessionEnds, Toggle, Tick, CloseWa, Send
    <3>2. CASE r = Request("login", 0, "")
      BY <1>1, <3>2
    <3>3. CASE r = Request("logout", token, "")
      BY <1>1, <3>3
    <3>4. CASE r = Request("users", token, filter)
      BY <1>1, <3>4
    <3>5. CASE r = Request("panel", token, "")
      BY <1>1, <3>5
    <3> QED BY <3>1, <3>2, <3>3, <3>4, <3>5
  <2> QED BY <2>1, <2>2 DEF Fresh
<1>7. ASSUME \/ \E t \in Tabs : SwitchTab(t)
             \/ \E f \in Filters : PickFilter(f)
             \/ \E u \in Admins : OpenWa(u)
      PROVE  Fresh'
  <2>1. issued' = issued
    BY <1>7 DEF SwitchTab, PickFilter, OpenWa, server
  <2>2. ASSUME NEW r \in requests' \ requests PROVE r.op # "me"
    <3>1. ASSUME NEW t, SwitchTab(t) PROVE r.op # "me"
      BY <1>2, <2>2, <3>1 DEF SwitchTab, Send
    <3>2. ASSUME NEW f, PickFilter(f) PROVE r.op # "me"
      BY <2>2, <3>2 DEF PickFilter, Send, Request
    <3>3. ASSUME NEW u, OpenWa(u) PROVE r.op # "me"
      BY <2>2, <3>3 DEF OpenWa, Send, Request
    <3> QED BY <1>7, <3>1, <3>2, <3>3
  <2> QED BY <2>1, <2>2 DEF Fresh
<1>8. CASE UNCHANGED portalVars
  BY <1>8 DEF Fresh, portalVars, server
<1> QED BY <1>3, <1>4, <1>5, <1>6, <1>7, <1>8 DEF PortalNext, Answer

(* Opened without a stored token, the portal is only ever shown to         *)
(* somebody who is signed in, whatever the order of the answers.           *)
THEOREM PortalIsHidden ==
  ASSUME Stored = FALSE
  PROVE  PortalSpec => []HiddenUntilAuthenticated
<1>1. PortalInit => Fresh /\ HiddenUntilAuthenticated
  BY DEF PortalInit, Fresh, HiddenUntilAuthenticated, view
<1>2. Fresh /\ HiddenUntilAuthenticated /\ [PortalNext]_portalVars => HiddenUntilAuthenticated'
  BY PageStep DEF Fresh, HiddenUntilAuthenticated
<1> QED BY <1>1, <1>2, FreshStep, PTL DEF PortalSpec

(* With a stored token as well, nothing is refreshed behind the sign-in    *)
(* form, whichever of several answers showed it.                           *)
THEOREM NothingTicksBehindTheForm == PortalSpec => []QuietWhenSignedOut
<1> DEFINE Inv == QuietWhenSignedOut /\ auto \in BOOLEAN
<1>1. PortalInit => Inv
  BY DEF PortalInit, QuietWhenSignedOut, view, choice
<1>2. Inv /\ [PortalNext]_portalVars => Inv'
  <2> SUFFICES ASSUME Inv, [PortalNext]_portalVars PROVE Inv'
    OBVIOUS
  <2> USE DEF QuietWhenSignedOut, view, choice
  <2>1. ASSUME NEW r \in requests, AnswerLogin(r) \/ AnswerMe(r) PROVE Inv'
    BY <2>1 DEF AnswerLogin, AnswerMe, ShowPortal, handleAuthFailure
  <2>2. ASSUME NEW r \in requests, AnswerLogout(r) \/ AnswerUsers(r) \/ AnswerPanel(r) \/ AnswerWa(r)
        PROVE  Inv'
    BY <2>2 DEF AnswerLogout, AnswerUsers, AnswerPanel, AnswerWa, Unauthorized, handleAuthFailure
  <2>3. ASSUME Login \/ Logout \/ SessionEnds \/ Tick \/ CloseWa PROVE Inv'
    <3>1. section' = section /\ timer' = timer /\ auto' = auto
      BY <2>3 DEF Login, Logout, SessionEnds, Tick, CloseWa
    <3> QED BY <3>1
  <2>4. ASSUME Toggle PROVE Inv'
    BY <2>4 DEF Toggle
  <2>5. ASSUME \/ \E t \in Tabs : SwitchTab(t)
               \/ \E f \in Filters : PickFilter(f)
               \/ \E u \in Admins : OpenWa(u)
        PROVE  Inv'
    <3>1. section' = section /\ timer' = timer /\ auto' = auto
      BY <2>5 DEF SwitchTab, PickFilter, OpenWa
    <3> QED BY <3>1
  <2>6. CASE UNCHANGED portalVars
    BY <2>6 DEF portalVars
  <2> QED BY <2>1, <2>2, <2>3, <2>4, <2>5, <2>6 DEF PortalNext, Answer
<1> QED BY <1>1, <1>2, PTL DEF PortalSpec
-----------------------------------------------------------------------------
(* Types of the portal.                                                    *)

LEMMA SendableForms ==
  ASSUME NEW s \in 0 .. MaxSessions
  PROVE  /\ \A op \in {"login", "me", "logout", "panel"} : Request(op, s, "") \in Sendable
         /\ \A f \in Filters : Request("users", s, f) \in Sendable
         /\ \A u \in Admins : Request("wa", s, u) \in Sendable
         /\ \A t \in Tabs, f \in Filters : Load(s, t, f) \subseteq Sendable
<1>1. \A op \in {"login", "me", "logout", "panel"} : Request(op, s, "") \in Sendable
  BY DEF Sendable, Request
<1>2. \A f \in Filters : Request("users", s, f) \in Sendable
  BY DEF Sendable, Request
<1>3. \A u \in Admins : Request("wa", s, u) \in Sendable
  BY DEF Sendable, Request
<1>4. \A t \in Tabs, f \in Filters : Load(s, t, f) \subseteq Sendable
  BY <1>1, <1>2 DEF Load
<1> QED BY <1>1, <1>2, <1>3, <1>4

LEMMA SendableIs ==
  ASSUME NEW r \in Sendable
  PROVE  /\ r.op = "users" => r.arg \in Filters
         /\ r.op = "wa" => r.arg \in Admins
BY DEF Sendable

LEMMA PortalTypeStart == PortalInit => PortalTypeOK
<1> SUFFICES ASSUME PortalInit
             PROVE  PortalTypeOK
  OBVIOUS
<1>1. issued \in 0 .. MaxSessions /\ token \in 0 .. issued /\ storage = token
      /\ live \subseteq 1 .. issued /\ turns \in 0 .. MaxTurns
  <2>1. /\ issued = 0 \/ issued = 1
        /\ token = issued /\ storage = issued /\ turns = 0 /\ live \subseteq 1 .. issued
    BY DEF PortalInit
  <2> QED BY <2>1, PortalAssumption
<1>2. requests \subseteq Sendable
  <2>1. 1 \in 0 .. MaxSessions
    BY PortalAssumption
  <2>2. Request("me", 1, "") \in Sendable
    BY <2>1, SendableForms
  <2>3. requests \subseteq {Request("me", 1, "")}
    BY DEF PortalInit
  <2> QED BY <2>2, <2>3
<1>3. /\ section \in {"auth", "portal"} /\ auto \in BOOLEAN /\ timer \in BOOLEAN
      /\ tab \in Tabs /\ filter \in Filters /\ table \in Filters \cup {"nothing"}
  BY DEF PortalInit, Tabs
<1>4. wa \in [open : Admins \cup {"nobody"}, shown : Admins \cup {"nobody"}]
  BY DEF PortalInit, Closed
<1> QED BY <1>1, <1>2, <1>3, <1>4 DEF PortalTypeOK

LEMMA PortalTypeStep == PortalTypeOK /\ [PortalNext]_portalVars => PortalTypeOK'
<1> SUFFICES ASSUME PortalTypeOK, [PortalNext]_portalVars
             PROVE  PortalTypeOK'
  OBVIOUS
<1> DEFINE WaTypes == [open : Admins \cup {"nobody"}, shown : Admins \cup {"nobody"}]
           Page == /\ section \in {"auth", "portal"} /\ auto \in BOOLEAN /\ timer \in BOOLEAN
                   /\ tab \in Tabs /\ filter \in Filters /\ table \in Filters \cup {"nothing"}
                   /\ wa \in WaTypes
           Server == /\ issued \in 0 .. MaxSessions /\ live \subseteq 1 .. issued
                     /\ turns \in 0 .. MaxTurns
           Tokens == token \in 0 .. issued /\ storage = token
<1>0. Page /\ Server /\ Tokens /\ requests \subseteq Sendable
  BY DEF PortalTypeOK
<1>t. token \in 0 .. MaxSessions /\ 0 \in 0 .. MaxSessions
  BY <1>0, PortalAssumption
<1>u. ASSUME Turn PROVE turns' \in 0 .. MaxTurns
  BY <1>0, <1>u, PortalAssumption DEF Turn
<1>1. ASSUME NEW rs, rs \subseteq Sendable, handleAuthFailure(rs), Server'
      PROVE  PortalTypeOK'
  <2>1. 0 \in 0 .. issued'
    BY <1>1, PortalAssumption
  <2> QED BY <1>0, <1>1, <2>1 DEF handleAuthFailure, choice, PortalTypeOK
<1>2. ASSUME NEW r \in requests, NEW tok \in 0 .. MaxSessions, ShowPortal(requests \ {r}, tok),
             Server', Tokens'
      PROVE  PortalTypeOK'
  <2>1. requests' \subseteq Sendable
    BY <1>0, <1>2, SendableForms DEF ShowPortal, Send
  <2> QED BY <1>0, <1>2, <2>1 DEF ShowPortal, choice, PortalTypeOK
<1>3. ASSUME requests' \subseteq Sendable, Page', Server', token' = token, storage' = storage,
             issued' = issued
      PROVE  PortalTypeOK'
  BY <1>0, <1>3 DEF PortalTypeOK
<1>4. ASSUME NEW r \in requests, AnswerLogin(r)
      PROVE  PortalTypeOK'
  <2>1. CASE /\ issued < MaxSessions
             /\ issued' = issued + 1 /\ live' = live \cup {issued'}
             /\ token' = issued' /\ storage' = issued'
             /\ ShowPortal(requests \ {r}, issued')
             /\ UNCHANGED turns
    <3>1. issued' \in 0 .. MaxSessions /\ Server' /\ Tokens'
      BY <1>0, <2>1, PortalAssumption
    <3> HIDE DEF Server, Tokens
    <3> QED BY <1>2, <2>1, <3>1
  <2>2. CASE Turn /\ handleAuthFailure(requests \ {r}) /\ UNCHANGED server
    <3>1. Server'
      BY <1>0, <1>u, <2>2 DEF server
    <3> HIDE DEF Server
    <3> QED BY <1>0, <1>1, <2>2, <3>1
  <2> QED BY <1>4, <2>1, <2>2 DEF AnswerLogin
<1>5. ASSUME NEW r \in requests, AnswerMe(r)
      PROVE  PortalTypeOK'
  <2>1. Server'
    BY <1>0, <1>5, <1>u DEF AnswerMe, server
  <2>2. CASE handleAuthFailure(requests \ {r})
    <3> HIDE DEF Server
    <3> QED BY <1>0, <1>1, <2>1, <2>2
  <2>3. CASE ShowPortal(requests \ {r}, token) /\ UNCHANGED <<token, storage>>
    <3>1. Tokens'
      BY <1>0, <1>5, <2>3 DEF AnswerMe, server
    <3> HIDE DEF Server, Tokens
    <3> QED BY <1>2, <1>t, <2>1, <2>3, <3>1
  <2> QED BY <1>5, <2>2, <2>3 DEF AnswerMe
<1>6. ASSUME NEW r \in requests, AnswerLogout(r)
      PROVE  PortalTypeOK'
  <2>1. Server'
    BY <1>0, <1>6, <1>u DEF AnswerLogout
  <2> HIDE DEF Server
  <2> QED BY <1>0, <1>1, <1>6, <2>1 DEF AnswerLogout
<1>7. ASSUME NEW r \in requests, Unauthorized(r), UNCHANGED server
      PROVE  PortalTypeOK'
  <2>1. Server'
    BY <1>0, <1>7 DEF Unauthorized, server
  <2> HIDE DEF Server
  <2> QED BY <1>0, <1>1, <1>7, <2>1 DEF Unauthorized
<1>8. ASSUME NEW r \in requests, AnswerUsers(r)
      PROVE  PortalTypeOK'
  <2>1. CASE ~Unauthorized(r)
    <3>1. /\ table' = table \/ table' = r.arg
          /\ requests' = requests \ {r}
          /\ UNCHANGED <<token, storage, view, choice, wa, server>>
          /\ turns' = turns \/ Turn
      BY <1>8, <2>1 DEF AnswerUsers
    <3>2. r.arg \in Filters
      BY <1>0, <1>8, SendableIs DEF AnswerUsers
    <3>3. Server'
      BY <1>0, <1>u, <3>1 DEF server
    <3>4. Page'
      BY <1>0, <3>1, <3>2 DEF view, choice
    <3> HIDE DEF Server, Page
    <3> QED BY <1>0, <1>3, <3>1, <3>3, <3>4 DEF server
  <2> QED BY <1>7, <1>8, <2>1 DEF AnswerUsers
<1>9. ASSUME NEW r \in requests, AnswerPanel(r)
      PROVE  PortalTypeOK'
  <2>1. CASE ~Unauthorized(r)
    <3>1. /\ requests' = requests \ {r}
          /\ UNCHANGED <<token, storage, view, choice, table, wa, server, turns>>
      BY <1>9, <2>1 DEF AnswerPanel
    <3> QED BY <1>0, <3>1 DEF PortalTypeOK, view, choice, server
  <2> QED BY <1>7, <1>9, <2>1 DEF AnswerPanel
<1>10. ASSUME NEW r \in requests, AnswerWa(r)
       PROVE  PortalTypeOK'
  <2>1. CASE ~Unauthorized(r)
    <3>1. /\ requests' = requests \ {r}
          /\ UNCHANGED <<token, storage, view, choice, table, server, turns>>
          /\ wa' = IF wa = Closed THEN Closed ELSE [wa EXCEPT !.shown = r.arg]
      BY <1>10, <2>1 DEF AnswerWa
    <3>2. r.arg \in Admins
      BY <1>0, <1>10, SendableIs DEF AnswerWa
    <3>3. [wa EXCEPT !.shown = r.arg] \in WaTypes /\ Closed \in WaTypes
      BY <1>0, <3>2 DEF Closed
    <3>4. wa' \in WaTypes
      BY <3>1, <3>3
    <3> QED BY <1>0, <3>1, <3>4 DEF PortalTypeOK, view, choice, server
  <2> QED BY <1>7, <1>10, <2>1 DEF AnswerWa
<1>11. ASSUME Login \/ Logout \/ Tick
       PROVE  PortalTypeOK'
  <2>1. requests' \subseteq Sendable
    <3>1. /\ Request("login", 0, "") \in Sendable /\ Request("logout", token, "") \in Sendable
          /\ Request("users", token, filter) \in Sendable /\ Request("panel", token, "") \in Sendable
      BY <1>0, <1>t, SendableForms
    <3>2. CASE Login
      BY <1>0, <3>1, <3>2 DEF Login, Send
    <3>3. CASE Logout
      BY <1>0, <3>1, <3>3 DEF Logout, Send
    <3>4. CASE Tick
      BY <1>0, <3>1, <3>4 DEF Tick, Send
    <3> QED BY <1>11, <3>2, <3>3, <3>4
  <2>2. turns' \in 0 .. MaxTurns
    BY <1>0, <1>11, <1>u DEF Login, Logout, Tick
  <2>3. UNCHANGED <<token, storage, view, choice, table, wa, server>>
    BY <1>11 DEF Login, Logout, Tick
  <2> QED BY <1>0, <2>1, <2>2, <2>3 DEF PortalTypeOK, view, choice, server
<1>12. CASE SessionEnds
  <2>1. /\ live' \subseteq live
        /\ UNCHANGED <<token, storage, view, choice, table, wa, requests, issued>>
    BY <1>12 DEF SessionEnds
  <2>2. turns' \in 0 .. MaxTurns
    BY <1>12, <1>u DEF SessionEnds
  <2> QED BY <1>0, <2>1, <2>2 DEF PortalTypeOK, view, choice
<1>13. CASE Toggle
  <2>1. turns' \in 0 .. MaxTurns
    BY <1>13, <1>u DEF Toggle
  <2> QED BY <1>0, <1>13, <2>1 DEF PortalTypeOK, Toggle, server
<1>14. CASE CloseWa
  <2>1. Closed \in WaTypes
    BY DEF Closed
  <2> QED BY <1>0, <1>14, <2>1 DEF PortalTypeOK, CloseWa, view, choice, server
<1>15. ASSUME NEW t \in Tabs, SwitchTab(t)
       PROVE  PortalTypeOK'
  <2>1. requests' \subseteq Sendable
    BY <1>0, <1>15, <1>t, SendableForms DEF SwitchTab, Send
  <2>2. turns' \in 0 .. MaxTurns
    BY <1>15, <1>u DEF SwitchTab
  <2> QED BY <1>0, <1>15, <2>1, <2>2 DEF SwitchTab, PortalTypeOK, view, server
<1>16. ASSUME NEW f \in Filters, PickFilter(f)
       PROVE  PortalTypeOK'
  <2>1. requests' \subseteq Sendable
    BY <1>0, <1>16, <1>t, SendableForms DEF PickFilter, Send
  <2>2. turns' \in 0 .. MaxTurns
    BY <1>16, <1>u DEF PickFilter
  <2> QED BY <1>0, <1>16, <2>1, <2>2 DEF PickFilter, PortalTypeOK, view, server
<1>17. ASSUME NEW u \in Admins, OpenWa(u)
       PROVE  PortalTypeOK'
  <2>1. requests' \subseteq Sendable
    BY <1>0, <1>17, <1>t, SendableForms DEF OpenWa, Send
  <2>2. turns' \in 0 .. MaxTurns
    BY <1>17, <1>u DEF OpenWa
  <2>3. [open |-> u, shown |-> "nobody"] \in WaTypes
    OBVIOUS
  <2> QED BY <1>0, <1>17, <2>1, <2>2, <2>3 DEF OpenWa, PortalTypeOK, view, choice, server
<1>18. CASE UNCHANGED portalVars
  BY <1>18 DEF PortalTypeOK, portalVars, view, choice, server
<1> QED BY <1>4, <1>5, <1>6, <1>8, <1>9, <1>10, <1>11, <1>12, <1>13, <1>14, <1>15, <1>16, <1>17, <1>18
        DEF PortalNext, Answer

(* Type correctness: the token in storage is always the one in use, and    *)
(* what is under way carries a session that was opened, or none.           *)
THEOREM PortalTypeCorrect == PortalSpec => []PortalTypeOK
BY PortalTypeStart, PortalTypeStep, PTL DEF PortalSpec
=============================================================================
