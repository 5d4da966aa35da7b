------------------------------ MODULE SyncOutbox ------------------------------
(***************************************************************************)
(* The app's offline outbox: mutations kept in SQLite and sent to the      *)
(* server when a recovery of the realtime coordinator flushes them         *)
(* (data/sync/sync_service.dart, data/local/outbox_repository.dart,        *)
(* bootstrap/pesenhub_runtime.dart, and submitOrderMutation of the API     *)
(* client).  The coordinator is here only what begins and ends a recovery; *)
(* QueueDisplay has the rest.  Left out: the recovery of failures for want *)
(* of a branch, and the cash payment sent along with a paid order.         *)
(***************************************************************************)
EXTENDS Naturals, Sequences, FiniteSets, SequencesExt

CONSTANTS
  Drafts,    \* orders made on this device, known here as ord-<client id>
  Known,     \* orders the server has, known by its id
  MaxFaults  \* bound: lost requests and answers, refusals, drops, app deaths

ASSUME SyncAssumption == MaxFaults \in Nat

VARIABLES
  outbox,      \* mutations in the order of created_at
  status,      \* sync_status
  next,        \* next_retry_at: none, later or past
  applied,     \* mutations the server has applied
  run,         \* mutations the current flush still has to send
  sending,     \* how far it is with the oldest of them
  recovered,   \* _recoveredInterrupted
  retryTimer,  \* SyncService._retryTimer
  recovery,    \* of _recoverAndConnect: idle, begin, flush, rest
  reconnect,   \* the coordinator's _reconnectTimer
  tried,       \* history: mutations sent at least once
  invalid,     \* history: mutations the server refused as invalid
  faults

store == <<outbox, status, next>>
server == <<applied, invalid>>
flush == <<run, sending, tried>>
timers == <<recovered, retryTimer, recovery, reconnect>>
vars == <<store, server, flush, timers, faults>>

Mutations == (Drafts \X {"CREATE", "STATUS"}) \cup (Known \X {"STATUS", "PAYMENT"})
Statuses == {"PENDING", "SYNCING", "SYNCED", "FAILED_TRANSIENT", "FAILED_PERMANENT"}

Init ==
  /\ outbox = << >> /\ status = [m \in Mutations |-> "none"]
  /\ next = [m \in Mutations |-> "none"]
  /\ applied = {} /\ invalid = {} /\ tried = {}
  /\ run = {} /\ sending = "no"
  /\ recovered = FALSE /\ retryTimer = FALSE /\ recovery = "begin" /\ reconnect = FALSE
  /\ faults = 0

Fault == faults < MaxFaults /\ faults' = faults + 1

-----------------------------------------------------------------------------
(* enqueueMutation.                                                        *)
Enqueue(m) ==
  /\ status[m] = "none"
  /\ outbox' = Append(outbox, m)
  /\ status' = [status EXCEPT ![m] = "PENDING"]
  /\ UNCHANGED next

(* retryNow: of no effect while a recovery runs, but for the timer.        *)
RetryNow ==
  /\ reconnect' = FALSE
  /\ recovery' = IF recovery = "idle" THEN "begin" ELSE recovery

HasRetry(s) == \E m \in Mutations : s[m] = "FAILED_TRANSIENT" /\ next[m] # "none"

(* The cashier submits an order: it is stored with its mutation, then a    *)
(* recovery is asked for.                                                  *)
SubmitOrder(d) ==
  /\ Enqueue(<<d, "CREATE">>)
  /\ retryTimer' = HasRetry(status)
  /\ RetryNow
  /\ UNCHANGED <<server, flush, recovered, faults>>

(* A status change or payment that got no answer, or was made offline, is  *)
(* stored; the server may have applied it.  Nothing is asked for.          *)
QueueChange(m) ==
  /\ m[2] # "CREATE" /\ (m[1] \in Drafts => status[<<m[1], "CREATE">>] # "none")
  /\ Enqueue(m)
  /\ \/ UNCHANGED <<server, faults>>
     \/ /\ m[1] \in Known /\ Fault
        /\ applied' = applied \cup {m} /\ UNCHANGED invalid
  /\ UNCHANGED <<flush, timers>>

TimePasses ==
  /\ \E m \in Mutations : next[m] = "later" /\ next' = [next EXCEPT ![m] = "past"]
  /\ UNCHANGED <<outbox, status, server, flush, timers, faults>>

-----------------------------------------------------------------------------
(* A recovery flushes: refreshState, then syncPendingMutations.            *)

Interrupted == {m \in Mutations : ~recovered /\ status[m] = "SYNCING"}

(* getPendingMutations, in the order of created_at: the outbox is in it,   *)
(* and the oldest one of what is left goes first.                          *)
Due(s) ==
  {m \in Mutations : /\ s[m] \in {"PENDING", "FAILED_TRANSIENT"}
                     /\ next[m] # "later" \/ m \in Interrupted}

Before(m, k) == \E i, j \in 1 .. Len(outbox) : i < j /\ outbox[i] = m /\ outbox[j] = k

(* Variant: the newest one goes first.                                     *)
IsNewest(m) == m \in run /\ \A k \in run \ {m} : Before(k, m)

IsOldest(m) == m \in run /\ \A k \in run \ {m} : Before(m, k)

(* Variant: what was interrupted stays as it is.                           *)
FlushKeeping ==
  /\ recovery = "begin"
  /\ run' = Due(status)
  /\ retryTimer' = HasRetry(status)
  /\ recovered' = TRUE /\ recovery' = "flush"
  /\ UNCHANGED <<store, server, sending, tried, reconnect, faults>>

(* Variant: only what failed before is sent.                               *)
FlushRetriesOnly ==
  /\ recovery = "begin"
  /\ LET s == [m \in Mutations |-> IF m \in Interrupted THEN "FAILED_TRANSIENT" ELSE status[m]]
     IN /\ status' = s
        /\ run' = {m \in Due(s) : s[m] # "PENDING"}
        /\ retryTimer' = HasRetry(s)
  /\ next' = [m \in Mutations |-> IF m \in Interrupted THEN "none" ELSE next[m]]
  /\ recovered' = TRUE /\ recovery' = "flush"
  /\ UNCHANGED <<outbox, server, sending, tried, reconnect, faults>>

Flush ==
  /\ recovery = "begin"
  /\ LET s == [m \in Mutations |-> IF m \in Interrupted THEN "FAILED_TRANSIENT" ELSE status[m]]
     IN /\ status' = s
        /\ run' = Due(s)
        /\ retryTimer' = \E m \in Mutations :
             s[m] = "FAILED_TRANSIENT" /\ m \notin Interrupted /\ next[m] # "none"
  /\ next' = [m \in Mutations |-> IF m \in Interrupted THEN "none" ELSE next[m]]
  /\ recovered' = TRUE /\ recovery' = "flush"
  /\ UNCHANGED <<outbox, server, sending, tried, reconnect, faults>>

MarkSyncing(m) ==
  /\ recovery = "flush" /\ IsOldest(m) /\ sending = "no"
  /\ status' = [status EXCEPT ![m] = "SYNCING"]
  /\ sending' = "marked"
  /\ UNCHANGED <<outbox, next, server, run, tried, timers, faults>>

-----------------------------------------------------------------------------
(* submitOrderMutation.  An order is created under the key it was stored   *)
(* with; a change goes out under a new one, with the version it expects:   *)
(* once applied, or once somebody else has changed the order, it is a      *)
(* conflict.  The server does not know the ids of drafts.                  *)

Applicable(m) ==
  m[2] = "CREATE" \/ (m[1] \in Known /\ m \notin applied)

Submits(m, outcome) ==
  /\ sending = "marked" /\ IsOldest(m)
  /\ sending' = outcome
  /\ tried' = tried \cup {m}
  /\ UNCHANGED <<store, run, timers>>

Accepted(m) ==
  /\ Applicable(m) /\ Submits(m, "success")
  /\ applied' = applied \cup {m}
  /\ UNCHANGED <<invalid, faults>>

(* 404 or 409: neither is transient.                                       *)
Conflicts(m) ==
  /\ ~Applicable(m) /\ Submits(m, "permanent")
  /\ UNCHANGED <<server, faults>>

(* 400, 422: also a change somebody else was faster with.                  *)
Refused(m) ==
  /\ m \notin applied /\ Fault /\ Submits(m, "permanent")
  /\ invalid' = invalid \cup {m}
  /\ UNCHANGED applied

(* The request or its answer is lost, or the server fails after or before. *)
Lost(m) ==
  /\ Fault /\ Submits(m, "transient")
  /\ applied' \in {applied, IF Applicable(m) THEN applied \cup {m} ELSE applied}
  /\ UNCHANGED invalid

-----------------------------------------------------------------------------
(* markSynced, markTransientFailure, markPermanentFailure.                 *)

(* Variant: what is not refused counts as synced.                          *)
RecordSyncedAnyway(m) ==
  /\ sending \in {"success", "transient", "permanent"} /\ IsOldest(m)
  /\ status' = [status EXCEPT ![m] =
       IF sending = "permanent" THEN "FAILED_PERMANENT" ELSE "SYNCED"]
  /\ run' = run \ {m} /\ sending' = "no"
  /\ UNCHANGED <<outbox, next, server, tried, timers, faults>>

Record(m) ==
  /\ sending \in {"success", "transient", "permanent"} /\ IsOldest(m)
  /\ status' = [status EXCEPT ![m] =
       CASE sending = "success" -> "SYNCED"
         [] sending = "transient" -> "FAILED_TRANSIENT"
         [] OTHER -> "FAILED_PERMANENT"]
  /\ next' = [next EXCEPT ![m] = CASE sending = "success" -> @
                                   [] sending = "transient" -> "later"
                                   [] OTHER -> "none"]
  /\ run' = run \ {m} /\ sending' = "no"
  /\ UNCHANGED <<outbox, server, tried, timers, faults>>

(* The flush ends: the timer is set for the earliest retry.                *)
FlushEnds ==
  /\ recovery = "flush" /\ run = {} /\ sending = "no"
  /\ recovery' = "rest"
  /\ retryTimer' = HasRetry(status)
  /\ UNCHANGED <<store, server, flush, recovered, reconnect, faults>>

-----------------------------------------------------------------------------
(* What begins and ends a recovery.                                        *)

(* The snapshot is shown and the connection made, or a reconnection is     *)
(* scheduled.                                                              *)
RecoveryEnds ==
  /\ recovery = "rest" /\ recovery' = "idle"
  /\ \/ UNCHANGED <<reconnect, faults>>
     \/ Fault /\ reconnect' = TRUE
  /\ UNCHANGED <<store, server, flush, recovered, retryTimer>>

ConnectionDrops ==
  /\ recovery = "idle" /\ ~reconnect /\ Fault
  /\ reconnect' = TRUE
  /\ UNCHANGED <<store, server, flush, recovered, retryTimer, recovery>>

ReconnectTimerFires ==
  /\ reconnect /\ RetryNow
  /\ UNCHANGED <<store, server, flush, recovered, retryTimer, faults>>

RetryTimerFires ==
  /\ retryTimer /\ retryTimer' = FALSE
  /\ \E m \in Mutations : status[m] = "FAILED_TRANSIENT" /\ next[m] = "past"
  /\ RetryNow
  /\ UNCHANGED <<store, server, flush, recovered, faults>>

(* The app is killed and started again.                                    *)
AppDies ==
  /\ Fault
  /\ run' = {} /\ sending' = "no"
  /\ recovered' = FALSE /\ retryTimer' = FALSE
  /\ recovery' = "begin" /\ reconnect' = FALSE
  /\ UNCHANGED <<store, server, tried>>

-----------------------------------------------------------------------------
Advance ==
  \/ Flush \/ FlushEnds \/ RecoveryEnds
  \/ \E m \in Mutations : MarkSyncing(m) \/ Record(m)
  \/ \E m \in Mutations : Accepted(m) \/ Conflicts(m) \/ Refused(m) \/ Lost(m)

Next ==
  \/ Advance \/ TimePasses \/ ReconnectTimerFires \/ RetryTimerFires
  \/ ConnectionDrops \/ AppDies
  \/ \E d \in Drafts : SubmitOrder(d)
  \/ \E m \in Mutations : QueueChange(m)

Spec == Init /\ [][Next]_vars

(* The app runs: its requests end, its timers fire.                        *)
LiveSpec ==
  /\ Spec /\ WF_vars(Advance) /\ WF_vars(TimePasses)
  /\ WF_vars(ReconnectTimerFires) /\ WF_vars(RetryTimerFires)

-----------------------------------------------------------------------------
(* The type of every variable.                                             *)
TypeOK ==
  /\ outbox \in Seq(Mutations) /\ IsInjective(outbox)
  /\ status \in [Mutations -> Statuses \cup {"none"}]
  /\ \A m \in Mutations : status[m] = "none" <=> m \notin Range(outbox)
  /\ next \in [Mutations -> {"none", "later", "past"}]
  /\ applied \subseteq Mutations /\ invalid \subseteq Mutations /\ tried \subseteq Mutations
  /\ run \subseteq Mutations
  /\ sending \in {"no", "marked", "success", "transient", "permanent"}
  /\ (sending # "no" => run # {})
  /\ recovered \in BOOLEAN /\ retryTimer \in BOOLEAN /\ reconnect \in BOOLEAN
  /\ recovery \in {"idle", "begin", "flush", "rest"}
  /\ faults \in 0 .. MaxFaults

(* No mutation is left in SYNCING by a flush that is over: after an app    *)
(* death the first flush takes it back before it sends anything            *)
(* (recoverInterruptedMutations).                                          *)
NoneLeftSyncing ==
  \A m \in Mutations :
    status[m] = "SYNCING" /\ recovered => sending # "no" /\ IsOldest(m)

(* What counts as synced has been applied: through lost answers, app deaths*)
(* between answer and record, and flushes of the same mutation again.      *)
SyncedWasApplied == \A m \in Mutations : status[m] = "SYNCED" => m \in applied

(* First sendings are in the order the mutations were made, whatever fails *)
(* and whenever the app dies ("strict FIFO order").                        *)
TriedInOrder ==
  \A i, j \in 1 .. Len(outbox) : i < j /\ outbox[j] \in tried => outbox[i] \in tried

(* A recovery that begins sends what waits, whatever fails meanwhile.      *)
RecoverySends ==
  \A m \in Mutations :
    (recovery = "begin" /\ status[m] = "PENDING") ~> status[m] # "PENDING"

(* Claims of the documents that do not hold.                               *)

(* docs/OFFLINE_OUTBOX_SYNC.md, three times.                               *)

(* What failed for the moment is tried again on its own, without a new     *)
(* disconnection.                                                          *)
RetriedAutomatically ==
  \A m \in Mutations : status[m] = "FAILED_TRANSIENT" ~> status[m] # "FAILED_TRANSIENT"

(* A conflict with what the server has already recorded counts as synced.  *)
AppliedNotRefused ==
  \A m \in Mutations : status[m] = "FAILED_PERMANENT" => m \notin applied

(* Only a mutation the server finds invalid fails for good.                *)
PermanentMeansInvalid ==
  \A m \in Mutations : status[m] = "FAILED_PERMANENT" => m \in invalid
=============================================================================
