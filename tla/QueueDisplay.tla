---------------------------- MODULE QueueDisplay ----------------------------
(***************************************************************************)
(* A cashier's or kitchen display of the order queue, fed by OrderFeed:    *)
(* the app's realtime coordinator                                          *)
(* (lib/data/remote/queue_realtime_coordinator.dart) with the part of the  *)
(* queue controller it drives.                                             *)
(*                                                                         *)
(* Every await of the coordinator is a place where other handlers run: an  *)
(* answer is applied in a step of its own, at any time after the server    *)
(* read what it holds.  Orders stay in the queue: final statuses, which    *)
(* leave the snapshot and which the controller protects, are left out, and *)
(* so is the copy of the queue in the local database, from which a snapshot*)
(* is read back; so are stop and dispose, which end the coordinator.       *)
(***************************************************************************)
EXTENDS OrderFeed

CONSTANTS
  Display,  \* the connection of this display
  Reads,    \* bound: requests for orders in flight
  MaxTaps,  \* bound: status changes tapped on this display
  MaxDrops  \* bound: times the device reports that the network is gone

ASSUME QueueDisplayAssumption ==
  Display \in Clients /\ MaxTaps \in Nat /\ MaxDrops \in Nat

VARIABLES
  started,    \* _started: the coordinator has not given up
  phase,      \* of _recoverAndConnect: idle, snapshot, connecting
  timer,      \* _reconnectTimer is active
  listening,  \* _subscription is there
  network,    \* _networkAvailable
  current,    \* the connection being made is still _connection
  drops,      \* how often the network went
  seen,       \* the deduplicator's event ids (500 kept: all of them here)
  screen,     \* screen[o]: version shown, and whether its status is the one
              \* this display asked for; version 0 is an order not shown
  read,       \* read[r]: a request for the queue or for one order
  tap,        \* the status change that waits for its answer
  taps,       \* how many there were
  mine        \* history: order versions this display's changes committed

networkVars == <<network, current, drops>>
connectionVars == <<started, phase, timer, listening, networkVars>>
tapVars == <<tap, taps, mine>>
displayVars == <<connectionVars, screen, seen, read, tapVars>>
allVars == <<vars, displayVars>>

Shown == [version : 0 .. MaxVersion, mine : BOOLEAN]
NotShown == [version |-> 0, mine |-> FALSE]
Unread == [o \in Orders |-> NotShown]
Asking(use, about) == [use |-> use, about |-> about, answered |-> FALSE, got |-> Unread]
Free == Asking("free", << >>)
NoTap == [state |-> "none"]

DisplayInit ==
  /\ Init
  /\ started = TRUE /\ phase = "idle" /\ timer = TRUE /\ listening = FALSE
  /\ network = TRUE /\ current = FALSE /\ drops = 0
  /\ screen = Unread /\ seen = {}
  /\ read = [r \in Reads |-> Free]
  /\ tap = NoTap /\ taps = 0 /\ mine = {}

-----------------------------------------------------------------------------
(* Requests for orders, and recovery.                                      *)

CanRecover == started /\ network

(* use: connect (of _recoverAndConnect), gap, refresh, order; about: the   *)
(* events, one at most, it is asked because of.                            *)
Ask(use, about) ==
  \E r \in Reads :
    /\ read[r].use = "free"
    /\ read' = [read EXCEPT ![r] = Asking(use, about)]

(* The server answers with what is committed.                              *)
ServerReads(r) ==
  /\ read[r].use # "free" /\ ~read[r].answered
  /\ read' = [read EXCEPT ![r].answered = TRUE,
       ![r].got = [o \in Orders |->
                     [version |-> version[o], mine |-> <<o, version[o]>> \in mine]]]
  /\ UNCHANGED <<vars, connectionVars, screen, seen, tapVars>>

(* _scheduleReconnect: one timer at a time.                                *)
ScheduleReconnect == timer' = (CanRecover \/ timer)

(* _recoverAndConnect begins, unless it is under way.                      *)
Recover ==
  IF CanRecover /\ phase = "idle"
    THEN phase' = "snapshot" /\ Ask("connect", << >>)
    ELSE UNCHANGED <<phase, read>>

(* Variant: it connects first and asks for the queue no more.              *)
TimerFiresConnecting ==
  /\ timer /\ timer' = FALSE
  /\ IF CanRecover /\ phase = "idle"
       THEN phase' = "connecting" /\ current' = TRUE
       ELSE UNCHANGED <<phase, current>>
  /\ UNCHANGED <<vars, started, listening, network, drops, screen, seen, read, tapVars>>

(* By the reconnection timer; the start is a timer that fires at once.     *)
TimerFires ==
  /\ timer /\ timer' = FALSE
  /\ Recover
  /\ UNCHANGED <<vars, started, listening, networkVars, screen, seen, tapVars>>

(* The user pulls the list down (refreshSnapshot).                         *)
Refresh ==
  /\ CanRecover
  /\ Ask("refresh", << >>)
  /\ UNCHANGED <<vars, connectionVars, screen, seen, tapVars>>

(* setSnapshot: the queue the server answered replaces what is shown.  In  *)
(* a recovery the old connection is closed and a new one begun.            *)
SnapshotArrives(r) ==
  /\ read[r].use \in {"connect", "gap", "refresh"} /\ read[r].answered
  /\ screen' = IF CanRecover THEN read[r].got ELSE screen
  /\ IF read[r].use = "connect"
       THEN IF CanRecover
              THEN /\ phase' = "connecting" /\ current' = TRUE /\ listening' = FALSE
                   /\ Forget(Display)
              ELSE phase' = "idle" /\ UNCHANGED <<hubVars, current, listening>>
       ELSE UNCHANGED <<hubVars, phase, current, listening>>
  /\ read' = [read EXCEPT ![r] = Free]
  /\ UNCHANGED <<storeVars, publisherVars, faults, started, timer, network, drops, seen, tapVars>>

(* upsertOrder: an event seen before is ignored, and so is an older version*)
(* than the one shown.                                                     *)
Upsert(o, s, about) ==
  /\ seen' = seen \cup Range(about)
  /\ screen' = IF Range(about) \subseteq seen /\ about # << >> THEN screen
               ELSE [screen EXCEPT ![o] = IF s.version < @.version THEN @ ELSE s]

OrderArrives(r) ==
  /\ read[r].use = "order" /\ read[r].answered
  /\ LET o == read[r].about[1].order IN Upsert(o, read[r].got[o], read[r].about)
  /\ read' = [read EXCEPT ![r] = Free]
  /\ UNCHANGED <<vars, connectionVars, tapVars>>

(* A network or server failure: a reconnection is scheduled, but for the   *)
(* user's own request.                                                     *)
ReadFails(r) ==
  /\ read[r].use # "free" /\ Fault
  /\ read' = [read EXCEPT ![r] = Free]
  /\ phase' = IF read[r].use = "connect" THEN "idle" ELSE phase
  /\ IF read[r].use = "refresh" THEN UNCHANGED timer ELSE ScheduleReconnect
  /\ UNCHANGED <<storeVars, publisherVars, hubVars, started, listening, networkVars,
                 screen, seen, tapVars>>

(* _connect, when the connection is ready: one that was closed meanwhile   *)
(* is dropped.                                                             *)
Connects ==
  /\ phase = "connecting" /\ phase' = "idle"
  /\ IF CanRecover /\ current
       THEN Register(Display) /\ listening' = TRUE
       ELSE UNCHANGED <<vars, listening>>
  /\ UNCHANGED <<started, timer, networkVars, screen, seen, read, tapVars>>

(* Variant: the failure schedules nothing.                                 *)
ConnectFailsQuietly ==
  /\ phase = "connecting" /\ Fault
  /\ phase' = "idle"
  /\ UNCHANGED <<storeVars, publisherVars, hubVars, started, timer, listening, networkVars,
                 screen, seen, read, tapVars>>

ConnectFails ==
  /\ phase = "connecting" /\ Fault
  /\ phase' = "idle"
  /\ ScheduleReconnect
  /\ UNCHANGED <<storeVars, publisherVars, hubVars, started, listening, networkVars,
                 screen, seen, read, tapVars>>

(* _handleDisconnect.                                                      *)
NoticesDisconnect ==
  /\ listening /\ Display \notin registered
  /\ listening' = FALSE
  /\ ScheduleReconnect
  /\ UNCHANGED <<vars, started, phase, networkVars, screen, seen, read, tapVars>>

(* setNetworkAvailable(false): the timer is cancelled, the connection, made*)
(* or being made, closed.                                                  *)
NetworkGoes ==
  /\ network /\ drops < MaxDrops
  /\ network' = FALSE /\ drops' = drops + 1
  /\ timer' = FALSE /\ listening' = FALSE /\ current' = FALSE
  /\ Forget(Display)
  /\ UNCHANGED <<storeVars, publisherVars, faults, started, phase, screen, seen, read, tapVars>>

(* setNetworkAvailable(true): retryNow.                                    *)
NetworkReturns ==
  /\ ~network /\ network' = TRUE
  /\ IF started
       THEN /\ timer' = FALSE
            /\ IF phase = "idle" THEN phase' = "snapshot" /\ Ask("connect", << >>)
                                 ELSE UNCHANGED <<phase, read>>
       ELSE UNCHANGED <<timer, phase, read>>
  /\ UNCHANGED <<vars, started, listening, current, drops, screen, seen, tapVars>>

-----------------------------------------------------------------------------
(* _handleMessage.                                                         *)

Receives(e) ==
  /\ listening /\ started
  /\ buffer[Display] # << >> /\ e = Head(buffer[Display])
  /\ UNCHANGED tapVars

IgnoresEvent(e) ==
  /\ Receives(e) /\ WriteNext(Display)
  /\ e.kind = "ORDER"
  /\ screen[e.order].version # 0 /\ e.version <= screen[e.order].version
  /\ UNCHANGED <<connectionVars, screen, seen, read>>

AppliesEvent(e) ==
  /\ Receives(e) /\ WriteNext(Display)
  /\ e.kind = "ORDER"
  /\ screen[e.order].version # 0 /\ e.version = screen[e.order].version + 1
  /\ Upsert(e.order, [version |-> e.version, mine |-> <<e.order, e.version>> \in mine], <<e>>)
  /\ UNCHANGED <<connectionVars, read>>

(* An order not shown is fetched; a gap asks for the whole queue.          *)
AsksAboutEvent(e) ==
  /\ Receives(e) /\ WriteNext(Display)
  /\ e.kind = "ORDER"
  /\ \/ screen[e.order].version = 0 /\ Ask("order", <<e>>)
     \/ /\ screen[e.order].version # 0 /\ e.version > screen[e.order].version + 1
        /\ Ask("gap", << >>)
  /\ UNCHANGED <<connectionVars, screen, seen>>

(* An event the contract does not know is an invalid response, after which *)
(* the coordinator stops for good.                                         *)
StopsAtEvent(e) ==
  /\ Receives(e)
  /\ e.kind # "ORDER"
  /\ started' = FALSE /\ listening' = FALSE /\ current' = FALSE
  /\ Forget(Display)
  /\ UNCHANGED <<storeVars, publisherVars, faults, phase, timer, network, drops, screen, seen, read>>

-----------------------------------------------------------------------------
(* transitionOrderStatus: shown at once, then sent.                        *)

Taps(o) ==
  /\ taps < MaxTaps /\ tap = NoTap
  /\ screen[o].version \in 1 .. MaxVersion - 1
  /\ taps' = taps + 1
  /\ tap' = [state |-> "sent", order |-> o, before |-> screen[o]]
  /\ screen' = [screen EXCEPT ![o] = [version |-> @.version + 1, mine |-> TRUE]]
  /\ UNCHANGED <<vars, connectionVars, seen, read, mine>>

(* The server takes the change if the version is the expected one.         *)
ServerTransitions ==
  /\ tap.state = "sent"
  /\ IF version[tap.order] = tap.before.version
       THEN /\ CommitOrder(tap.order)
            /\ mine' = mine \cup {<<tap.order, version[tap.order] + 1>>}
            /\ tap' = [tap EXCEPT !.state = "done"]
       ELSE /\ tap' = [tap EXCEPT !.state = "conflict"]
            /\ UNCHANGED <<vars, mine>>
  /\ UNCHANGED <<connectionVars, screen, seen, read, taps>>

TransitionDone ==
  /\ tap.state = "done"
  /\ Upsert(tap.order, [version |-> tap.before.version + 1, mine |-> TRUE], << >>)
  /\ tap' = NoTap
  /\ UNCHANGED <<vars, connectionVars, read, taps, mine>>

(* Variant: a conflict leaves what was shown.                              *)
TransitionRefusedKept ==
  /\ tap.state = "conflict"
  /\ tap' = NoTap
  /\ UNCHANGED <<vars, connectionVars, screen, seen, read, taps, mine>>

(* 409: rollbackOrderStatus puts back what was shown before the tap.       *)
TransitionRefused ==
  /\ tap.state = "conflict"
  /\ screen' = [screen EXCEPT ![tap.order] =
                  IF @.version = 0 THEN @ ELSE tap.before]
  /\ tap' = NoTap
  /\ UNCHANGED <<vars, connectionVars, seen, read, taps, mine>>

(* The answer does not come: the change waits in the offline outbox, and   *)
(* the display goes on showing it.                                         *)
TransitionUnanswered ==
  /\ tap.state \in {"sent", "done", "conflict"} /\ Fault
  /\ tap' = [tap EXCEPT !.state = "queued"]
  /\ UNCHANGED <<storeVars, publisherVars, hubVars, connectionVars, screen, seen, read,
                 taps, mine>>

-----------------------------------------------------------------------------
Handles ==
  \E e \in Events :
    IgnoresEvent(e) \/ AppliesEvent(e) \/ AsksAboutEvent(e) \/ StopsAtEvent(e)

Answers ==
  \E r \in Reads : ServerReads(r) \/ SnapshotArrives(r) \/ OrderArrives(r)

Changes ==
  \/ \E o \in Orders : Taps(o)
  \/ ServerTransitions \/ TransitionDone \/ TransitionRefused \/ TransitionUnanswered

Elsewhere ==
  (Store \/ Publisher \/ Faults \/ CutOff(Display)) /\ UNCHANGED displayVars

DisplayNext ==
  \/ Elsewhere
  \/ Handles \/ Answers \/ Changes \/ Refresh
  \/ TimerFires \/ Connects \/ NoticesDisconnect
  \/ ConnectFails \/ \E r \in Reads : ReadFails(r)
  \/ NetworkGoes \/ NetworkReturns

DisplaySpec == DisplayInit /\ [][DisplayNext]_allVars

(* Timers fire, answers come unless they fail, the event loop runs what is *)
(* ready, a network that went returns.  Failures, refreshes and taps are   *)
(* nobody's duty.                                                          *)
DisplayLiveSpec ==
  /\ DisplaySpec
  /\ WF_allVars(Elsewhere /\ Publisher) /\ WF_allVars(Elsewhere /\ CutOff(Display))
  /\ WF_allVars(TimerFires) /\ WF_allVars(Connects) /\ WF_allVars(NoticesDisconnect)
  /\ WF_allVars(NetworkReturns)
  /\ WF_allVars(Handles)
  /\ \A r \in Reads : WF_allVars(ServerReads(r) \/ SnapshotArrives(r) \/ OrderArrives(r))
  /\ WF_allVars(ServerTransitions \/ TransitionDone \/ TransitionRefused)

-----------------------------------------------------------------------------
(* The type of every variable.                                             *)
DisplayTypeOK ==
  /\ started \in BOOLEAN /\ timer \in BOOLEAN /\ listening \in BOOLEAN
  /\ phase \in {"idle", "snapshot", "connecting"}
  /\ network \in BOOLEAN /\ current \in BOOLEAN /\ drops \in 0 .. MaxDrops
  /\ screen \in [Orders -> Shown] /\ seen \subseteq Events
  /\ \A r \in Reads :
       /\ read[r].use \in {"free", "connect", "gap", "refresh", "order"}
       /\ read[r].about \in Seq(Events) /\ (read[r].about # << >>) = (read[r].use = "order")
       /\ read[r].answered \in BOOLEAN /\ read[r].got \in [Orders -> Shown]
  /\ \/ tap = NoTap
     \/ tap \in [state : {"sent", "done", "conflict", "queued"},
                 order : Orders, before : Shown]
  /\ taps \in 0 .. MaxTaps
  /\ mine \subseteq Orders \X (1 .. MaxVersion)

(* Except for the one order whose change is on its way, what the display   *)
(* shows is a version that was committed, with that version's status: not  *)
(* one of its own that the server refused (optimistic update, rollback,    *)
(* events and snapshots in any order).                                     *)
ShownIsCommitted ==
  \A o \in Orders :
    screen[o].version > 0 /\ (tap = NoTap \/ tap.order # o) =>
      /\ screen[o].version <= version[o]
      /\ screen[o].mine = (<<o, screen[o].version>> \in mine)

(* As long as the network did not go, the display always has a way back:   *)
(* it listens, or a recovery is under way, or the timer will begin one,    *)
(* whatever fails while another recovery runs (_scheduleReconnect and the  *)
(* flag _recovering, which makes it of no effect).                         *)
NeverStranded ==
  CanRecover /\ drops = 0 => listening \/ phase # "idle" \/ timer

(* A reconnection makes up for what was missed: whatever was committed     *)
(* when it is due comes to be shown, unless the coordinator stops (the     *)
(* snapshot _recoverAndConnect takes, through further failures).           *)
ReconnectionCatchesUp ==
  \A o \in Orders : \A n \in 1 .. MaxVersion :
    (CanRecover /\ timer /\ phase = "idle" /\ version[o] >= n)
      ~> (screen[o].version >= n \/ ~started)

(* Claims of the documents that do not hold.                               *)

(* The display comes to show the newest version and keeps showing it, as   *)
(* the protocol of snapshot, connection and gap detection is there for.    *)
DisplayConverges ==
  \A o \in Orders : <>[](screen[o].version = version[o] \/ tap # NoTap)

(* Nothing the server sends makes the coordinator give up.                 *)
KeepsRunning == started
=============================================================================
