----------------------------- MODULE AdminPortal -----------------------------
(***************************************************************************)
(* The superadmin portal (web/superadmin/app.js) in one browser tab, with  *)
(* the sessions of the server.  A handler runs to its first await; what    *)
(* follows is a step of its own, taken when the answer arrives, in any     *)
(* order.  Left out: what the panels show, the search, the forms that      *)
(* confirm an action or invite, and the theme.                             *)
(***************************************************************************)
EXTENDS Naturals, FiniteSets

CONSTANTS
  Filters,      \* of the table of users
  Admins,       \* whose WhatsApp status can be inspected
  Stored,       \* whether sessionStorage holds a token when the page loads
  MaxSessions,  \* bound: sessions the server opens
  MaxTurns,     \* bound: clicks and lost answers
  MaxRequests   \* bound: requests under way

ASSUME PortalAssumption ==
  /\ Stored \in BOOLEAN /\ Filters # {}
  /\ MaxSessions \in Nat \ {0} /\ MaxTurns \in Nat /\ MaxRequests \in Nat

VARIABLES
  token,     \* authToken, 0 for none
  storage,   \* its copy in sessionStorage
  section,   \* auth or portal
  auto,      \* the auto-refresh checkbox
  timer,     \* whether autoRefreshTimer runs
  tab, filter,
  table,     \* the filter whose users the table shows
  wa,        \* the dialog: whom it was opened for, and whom it shows
  requests,  \* requests under way, each with the token it carries
  live, issued,  \* the server's sessions: valid, and opened so far
  turns

view == <<section, timer>>
choice == <<auto, tab, filter>>
server == <<live, issued>>
portalVars == <<token, storage, view, choice, table, wa, requests, server, turns>>

Tabs == {"health", "users", "audits"}
Closed == [open |-> "nobody", shown |-> "nobody"]
Request(op, tok, arg) == [op |-> op, token |-> tok, arg |-> arg]

PortalInit ==
  /\ issued \in (IF Stored THEN {1} ELSE {0})
  /\ token = issued /\ storage = issued
  /\ live \in SUBSET (1 .. issued)
  /\ section = "auth" /\ timer = FALSE
  /\ auto = TRUE /\ tab = "health" /\ filter \in Filters
  /\ table = "nothing" /\ wa = Closed /\ turns = 0
  /\ requests = IF Stored THEN {Request("me", 1, "")} ELSE {}

Turn == turns < MaxTurns /\ turns' = turns + 1
Send(rs) == requests' = rs /\ Cardinality(rs) <= MaxRequests
AtPage == wa = Closed    \* a modal dialog keeps clicks from the page

-----------------------------------------------------------------------------
(* handleAuthFailure, with the requests that are left.                     *)

(* Variant: the portal stays.                                              *)
handleAuthFailureShowing(rs) ==
  /\ token' = 0 /\ storage' = 0 /\ timer' = FALSE
  /\ requests' = rs
  /\ UNCHANGED <<section, choice, table, wa>>

handleAuthFailure(rs) ==
  /\ token' = 0 /\ storage' = 0
  /\ section' = "auth" /\ timer' = FALSE
  /\ requests' = rs
  /\ UNCHANGED <<choice, table, wa>>

(* loadActiveTab, of tab t and filter f.                                   *)
Load(tok, t, f) ==
  IF tok = 0 THEN {} ELSE {IF t = "users" THEN Request("users", tok, f) ELSE Request("panel", tok, "")}

(* showPortalSection, then loadActiveTab.                                  *)
ShowPortal(rs, tok) ==
  /\ section' = "portal" /\ timer' = auto
  /\ Send(rs \cup Load(tok, tab, filter))
  /\ UNCHANGED <<choice, table, wa>>

-----------------------------------------------------------------------------
(* Signing in and out.                                                     *)

(* The button is disabled while a login is under way.                      *)
Login ==
  /\ section = "auth" /\ AtPage /\ Turn
  /\ \A r \in requests : r.op # "login"
  /\ Send(requests \cup {Request("login", 0, "")})
  /\ UNCHANGED <<token, storage, view, choice, table, wa, server>>

AnswerLogin(r) ==
  /\ r.op = "login"
  /\ \/ /\ issued < MaxSessions
        /\ issued' = issued + 1 /\ live' = live \cup {issued'}
        /\ token' = issued' /\ storage' = issued'
        /\ ShowPortal(requests \ {r}, issued')
        /\ UNCHANGED turns
     \/ /\ Turn /\ handleAuthFailure(requests \ {r})
        /\ UNCHANGED server

(* The rest of initAuth.                                                   *)
AnswerMe(r) ==
  /\ r.op = "me"
  /\ \/ /\ r.token \in live /\ ShowPortal(requests \ {r}, token)
        /\ UNCHANGED <<token, storage, turns>>
     \/ /\ r.token \notin live /\ handleAuthFailure(requests \ {r})
        /\ UNCHANGED turns
     \/ Turn /\ handleAuthFailure(requests \ {r})
  /\ UNCHANGED server

Logout ==
  /\ section = "portal" /\ AtPage /\ Turn
  /\ Send(requests \cup {Request("logout", token, "")})
  /\ UNCHANGED <<token, storage, view, choice, table, wa, server>>

AnswerLogout(r) ==
  /\ r.op = "logout"
  /\ \/ live' = live \ {r.token} /\ UNCHANGED turns
     \/ Turn /\ UNCHANGED live
  /\ handleAuthFailure(requests \ {r})
  /\ UNCHANGED issued

(* A session expires, or is revoked.                                       *)
SessionEnds ==
  /\ \E s \in live : live' = live \ {s}
  /\ Turn
  /\ UNCHANGED <<token, storage, view, choice, table, wa, requests, issued>>

-----------------------------------------------------------------------------
(* The panels.                                                             *)

SwitchTab(t) ==
  /\ section = "portal" /\ AtPage /\ Turn
  /\ tab' = t /\ Send(requests \cup Load(token, t, filter))
  /\ UNCHANGED <<token, storage, view, auto, filter, table, wa, server>>

PickFilter(f) ==
  /\ section = "portal" /\ tab = "users" /\ AtPage /\ Turn
  /\ filter' = f /\ Send(requests \cup {Request("users", token, f)})
  /\ UNCHANGED <<token, storage, view, auto, tab, table, wa, server>>

Toggle ==
  /\ section = "portal" /\ tab = "health" /\ AtPage /\ Turn
  /\ auto' = ~auto /\ timer' = ~auto
  /\ UNCHANGED <<token, storage, section, tab, filter, table, wa, requests, server>>

(* Variant: users are not refreshed.                                       *)
TickHealth ==
  /\ timer /\ tab = "health"
  /\ Send(requests \cup {Request("panel", token, "")})
  /\ UNCHANGED <<token, storage, view, choice, table, wa, server, turns>>

(* Every 30 seconds.  It does not look at the token.                       *)
Tick ==
  /\ timer /\ tab # "audits"
  /\ Send(requests \cup
       {IF tab = "users" THEN Request("users", token, filter) ELSE Request("panel", token, "")})
  /\ UNCHANGED <<token, storage, view, choice, table, wa, server, turns>>

(* apiFetch, of a path of the superadmin: 401 or 403 signs out whoever is  *)
(* signed in when it arrives.                                              *)
Unauthorized(r) == r.token \notin live /\ handleAuthFailure(requests \ {r}) /\ UNCHANGED turns

(* renderUsersTable; a failure leaves the table as it was.                 *)
AnswerUsers(r) ==
  /\ r.op = "users"
  /\ \/ Unauthorized(r)
     \/ /\ \/ r.token \in live /\ table' = r.arg /\ UNCHANGED turns
           \/ Turn /\ UNCHANGED table
        /\ requests' = requests \ {r}
        /\ UNCHANGED <<token, storage, view, choice, wa>>
  /\ UNCHANGED server

AnswerPanel(r) ==
  /\ r.op = "panel"
  /\ \/ Unauthorized(r)
     \/ /\ r.token \in live /\ requests' = requests \ {r}
        /\ UNCHANGED <<token, storage, view, choice, table, wa, turns>>
  /\ UNCHANGED server

-----------------------------------------------------------------------------
(* The dialog with the WhatsApp status of an admin.                        *)

OpenWa(u) ==
  /\ section = "portal" /\ tab = "users" /\ table # "nothing" /\ AtPage /\ Turn
  /\ wa' = [open |-> u, shown |-> "nobody"]
  /\ Send(requests \cup {Request("wa", token, u)})
  /\ UNCHANGED <<token, storage, view, choice, table, server>>

CloseWa ==
  /\ wa # Closed /\ wa' = Closed
  /\ UNCHANGED <<token, storage, view, choice, table, requests, server, turns>>

(* A closed dialog is filled as well; opening it clears it.                *)
AnswerWa(r) ==
  /\ r.op = "wa"
  /\ \/ Unauthorized(r)
     \/ /\ r.token \in live /\ requests' = requests \ {r}
        /\ wa' = IF wa = Closed THEN Closed ELSE [wa EXCEPT !.shown = r.arg]
        /\ UNCHANGED <<token, storage, view, choice, table, turns>>
  /\ UNCHANGED server

Answer(r) ==
  \/ AnswerLogin(r) \/ AnswerMe(r) \/ AnswerLogout(r)
  \/ AnswerUsers(r) \/ AnswerPanel(r) \/ AnswerWa(r)

PortalNext ==
  \/ Login \/ Logout \/ SessionEnds \/ Toggle \/ Tick \/ CloseWa
  \/ \E t \in Tabs : SwitchTab(t)
  \/ \E f \in Filters : PickFilter(f)
  \/ \E u \in Admins : OpenWa(u)
  \/ \E r \in requests : Answer(r)

PortalSpec == PortalInit /\ [][PortalNext]_portalVars

Sendable ==
  [op : {"users"}, token : 0 .. MaxSessions, arg : Filters]
    \cup [op : {"login", "me", "logout", "panel"}, token : 0 .. MaxSessions, arg : {""}]
    \cup [op : {"wa"}, token : 0 .. MaxSessions, arg : Admins]

(* Every request is answered, if only by a failure; the timer fires.       *)
PortalLiveSpec ==
  /\ PortalSpec /\ WF_portalVars(Tick)
  /\ \A r \in Sendable : WF_portalVars(r \in requests /\ Answer(r))

-----------------------------------------------------------------------------
(* The type of every variable; the stored token is the one in use.         *)
PortalTypeOK ==
  /\ token \in 0 .. issued /\ storage = token
  /\ section \in {"auth", "portal"} /\ auto \in BOOLEAN /\ timer \in BOOLEAN
  /\ tab \in Tabs /\ filter \in Filters /\ table \in Filters \cup {"nothing"}
  /\ wa \in [open : Admins \cup {"nobody"}, shown : Admins \cup {"nobody"}]
  /\ requests \subseteq Sendable
  /\ issued \in 0 .. MaxSessions /\ live \subseteq 1 .. issued
  /\ turns \in 0 .. MaxTurns

(* The portal is hidden until somebody is signed in, and again when nobody *)
(* is ("Portal Dashboard (Hidden until authenticated)").                   *)
HiddenUntilAuthenticated == section = "portal" => token # 0

(* Nothing is refreshed behind the sign-in form, whichever of several      *)
(* answers showed it.                                                      *)
QuietWhenSignedOut == timer => section = "portal" /\ auto

(* While the portal stays on the users and refreshes itself, the table     *)
(* ends up with the filter chosen, however the answers overtook each other.*)
TableCatchesUp ==
  <>[](section = "portal" /\ token \in live /\ tab = "users" /\ timer) => <>[](table = filter)

(* Two claims that do not hold.                                            *)

(* Who is in the portal with a session the server accepts is sent out by   *)
(* signing out only ("Session expired or forbidden").                      *)
SignedInStays ==
  [][(section = "portal" /\ section' = "auth" /\ token \in live)
       => \E r \in requests \ requests' : r.op = "logout" /\ r.token = token]_portalVars

(* The dialog shows the admin it was opened for.                           *)
DialogShowsItsAdmin == wa.shown \in {"nobody", wa.open}
=============================================================================
