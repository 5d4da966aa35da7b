-------------------------- MODULE NotificationOutbox --------------------------
(***************************************************************************)
(* The WhatsApp notifications of order events: the table                   *)
(* order_notifications, the dispatch in the request that causes the event, *)
(* and the worker that retries and recovers (internal/notification).       *)
(*                                                                         *)
(* A notification is its idempotency key; messages, templates and error    *)
(* texts are left out.  Backoff and the 10 seconds a PENDING row waits for *)
(* the worker pass at any time.  Of the two minutes after which a row in   *)
(* PROCESSING is stale the model keeps what they are there for: a send is  *)
(* given up after 3 s and a batch has 10 rows, so a job that still runs is *)
(* never that old.  A server takes requests after its startup recovery.    *)
(***************************************************************************)
EXTENDS Naturals, FiniteSets

CONSTANTS
  Notes,        \* notifications, by idempotency key
  Servers,      \* replicas of the API server
  MaxAttempts,  \* max_attempts, 5
  BatchSize,    \* rows a worker claims at once, 10
  MaxEvents,    \* bound: order events that ask for a notification
  MaxSilences,  \* bound: times the conversation is paused or resumed
  MaxFaults     \* bound: crashes, failed statements, unknown outcomes

ASSUME NotificationAssumption ==
  /\ MaxAttempts \in Nat \ {0, 1} /\ BatchSize \in Nat \ {0}
  /\ MaxEvents \in Nat /\ MaxSilences \in Nat /\ MaxFaults \in Nat

VARIABLES
  row,        \* row[n]: status and attempts of order_notifications
  up,         \* servers that run
  job,        \* job[x][n]: how far executor x is with notification n
  silenced,   \* the customer opted out, or staff took the conversation over
  events, silences, faults,
  delivered,  \* history: messages the customer received
  unknown     \* history: sends whose outcome never reached the row

counters == <<events, silences, faults>>
history == <<delivered, unknown>>
vars == <<row, up, job, silenced, counters, history>>

Terminal == {"SENT", "SUPPRESSED", "DEAD_LETTER"}
Statuses == Terminal \cup {"NONE", "PENDING", "PROCESSING", "FAILED"}

(* A server's requests, each about one notification, and its worker.       *)
Executors == Servers \X {"dispatch", "worker"}
NoJob == [step |-> "none", attempts |-> 0]
Live == {"claimed", "cleared", "accepted", "transient", "permanent"}
Holders(n) == {x \in Executors : job[x][n].step \in Live}

Init ==
  /\ row = [n \in Notes |-> [status |-> "NONE", attempts |-> 0]]
  /\ up = Servers
  /\ job = [x \in Executors |-> [n \in Notes |-> NoJob]]
  /\ silenced = FALSE
  /\ events = 0 /\ silences = 0 /\ faults = 0
  /\ delivered = [n \in Notes |-> 0] /\ unknown = [n \in Notes |-> 0]

Fault == faults < MaxFaults /\ faults' = faults + 1 /\ UNCHANGED <<events, silences>>
Status(n, status) == row' = [row EXCEPT ![n].status = status]
Step(x, n, step) == job' = [job EXCEPT ![x][n].step = step]
Ends(x, n) == job' = [job EXCEPT ![x][n] = NoJob]

-----------------------------------------------------------------------------
(* Service.Dispatch: the row is created or, for an event that has the same *)
(* key, found; then it is claimed.                                         *)

BeginDispatch(s, n) ==
  /\ s \in up /\ job[<<s, "dispatch">>][n] = NoJob
  /\ events < MaxEvents /\ events' = events + 1
  /\ IF row[n].status = "NONE" THEN Status(n, "PENDING") ELSE UNCHANGED row
  /\ IF row[n].status \in {"NONE", "PENDING", "FAILED"}
       THEN Step(<<s, "dispatch">>, n, "created") ELSE UNCHANGED job
  /\ UNCHANGED <<up, silenced, silences, faults, history>>

(* Variant: whatever is not terminal is claimed.                           *)
ClaimForDispatchAny(s, n) ==
  LET x == <<s, "dispatch">> IN
  /\ job[x][n].step = "created"
  /\ IF row[n].status \notin Terminal
       THEN Status(n, "PROCESSING") /\ Step(x, n, "claimed")
       ELSE UNCHANGED row /\ Ends(x, n)
  /\ UNCHANGED <<up, silenced, counters, history>>

ClaimForDispatch(s, n) ==
  LET x == <<s, "dispatch">> IN
  /\ job[x][n].step = "created"
  /\ IF row[n].status = "PENDING"
       THEN Status(n, "PROCESSING") /\ Step(x, n, "claimed")
       ELSE UNCHANGED row /\ Ends(x, n)
  /\ UNCHANGED <<up, silenced, counters, history>>

(* The worker takes rows that are due when its last batch is done.         *)
Idle(s) == s \in up /\ \A n \in Notes : job[<<s, "worker">>][n] = NoJob

ClaimBatchForProcessing(s) ==
  /\ Idle(s)
  /\ \E B \in SUBSET {n \in Notes : row[n].status \in {"FAILED", "PENDING"}} :
       /\ Cardinality(B) \in 1 .. BatchSize
       /\ row' = [n \in Notes |-> IF n \in B THEN [row[n] EXCEPT !.status = "PROCESSING"]
                                             ELSE row[n]]
       /\ job' = [job EXCEPT ![<<s, "worker">>] =
            [n \in Notes |-> IF n \in B THEN [step |-> "claimed", attempts |-> row[n].attempts]
                                        ELSE NoJob]]
  /\ UNCHANGED <<up, silenced, counters, history>>

-----------------------------------------------------------------------------
(* What follows a claim is the same in Dispatch and in processRecord.      *)

Suppress(x, n) ==
  /\ job[x][n].step = "claimed" /\ silenced
  /\ Status(n, "SUPPRESSED") /\ Ends(x, n)
  /\ UNCHANGED <<up, silenced, counters, history>>

(* A check that fails does not keep the message back.                      *)
Clear(x, n) ==
  /\ job[x][n].step = "claimed"
  /\ IF silenced THEN Fault ELSE UNCHANGED counters
  /\ Step(x, n, "cleared")
  /\ UNCHANGED <<row, up, silenced, history>>

(* The gateway takes the message, refuses it for now or for good, or the   *)
(* answer does not come within the timeout.                                *)
Send(x, n) ==
  /\ job[x][n].step = "cleared"
  /\ \/ /\ Step(x, n, "accepted")
        /\ delivered' = [delivered EXCEPT ![n] = @ + 1]
        /\ UNCHANGED <<unknown, counters>>
     \/ \E refusal \in {"transient", "permanent"} : Step(x, n, refusal)
        /\ UNCHANGED <<history, counters>>
     \/ /\ Fault
        /\ Step(x, n, "transient")
        /\ delivered' = [delivered EXCEPT ![n] = @ + 1]
        /\ unknown' = [unknown EXCEPT ![n] = @ + 1]
  /\ UNCHANGED <<row, up, silenced>>

(* ScheduleRetry, or MarkDeadLetter when the worker has used the attempts  *)
(* it read with its claim.                                                 *)
LastAttempt(x, n) == x[2] = "worker" /\ job[x][n].attempts + 1 >= MaxAttempts

Retry(x, n) ==
  /\ job[x][n].step = "transient"
  /\ row' = [row EXCEPT ![n] =
       IF LastAttempt(x, n) THEN [@ EXCEPT !.status = "DEAD_LETTER"]
                            ELSE [status |-> "FAILED", attempts |-> @.attempts + 1]]
  /\ Ends(x, n)
  /\ UNCHANGED <<up, silenced, counters, history>>

(* Variant: an accepted message is marked as failed.                       *)
FinishFailed(x, n) ==
  /\ job[x][n].step \in {"accepted", "permanent"}
  /\ Status(n, IF job[x][n].step = "accepted" THEN "FAILED" ELSE "DEAD_LETTER")
  /\ Ends(x, n)
  /\ UNCHANGED <<up, silenced, counters, history>>

(* MarkSent and MarkDeadLetter, whatever the row's status is by now.       *)
Finish(x, n) ==
  /\ job[x][n].step \in {"accepted", "permanent"}
  /\ Status(n, IF job[x][n].step = "accepted" THEN "SENT" ELSE "DEAD_LETTER")
  /\ Ends(x, n)
  /\ UNCHANGED <<up, silenced, counters, history>>

-----------------------------------------------------------------------------
(* Failures and recovery.                                                  *)

Unrecorded(X) ==
  unknown' = [n \in Notes |->
    unknown[n] + Cardinality({x \in X : job[x][n].step \in {"accepted", "transient"}})]

(* The statement that records the outcome fails: its error is ignored.  A  *)
(* request whose client has gone fails so at any step.                     *)
RecordFails(x, n) ==
  /\ Fault
  /\ job[x][n].step \in IF x[2] = "worker" THEN {"accepted", "transient", "permanent"}
                        ELSE Live \cup {"created"}
  /\ unknown' = [unknown EXCEPT
       ![n] = IF job[x][n].step \in {"accepted", "transient"} THEN @ + 1 ELSE @]
  /\ Ends(x, n)
  /\ UNCHANGED <<row, up, silenced, delivered>>

Crash(s) ==
  /\ s \in up /\ Fault
  /\ up' = up \ {s}
  /\ Unrecorded({s} \X {"dispatch", "worker"})
  /\ job' = [x \in Executors |-> IF x[1] = s THEN [n \in Notes |-> NoJob] ELSE job[x]]
  /\ UNCHANGED <<row, silenced, delivered>>

Recovered(B) ==
  row' = [n \in Notes |-> IF n \in B THEN [row[n] EXCEPT !.status = "FAILED"] ELSE row[n]]
Processing == {n \in Notes : row[n].status = "PROCESSING"}

(* RecoverStaleProcessing(0): every row in PROCESSING, unless it fails.    *)
Start(s) ==
  /\ s \notin up /\ up' = up \cup {s}
  /\ \/ Recovered(Processing) /\ UNCHANGED counters
     \/ Fault /\ UNCHANGED row
  /\ UNCHANGED <<job, silenced, history>>

(* Variant: only rows that were tried before are taken back.               *)
SweepRetried(s) ==
  /\ Idle(s)
  /\ \E B \in SUBSET {n \in Processing : Holders(n) = {} /\ row[n].attempts > 0} :
       B # {} /\ Recovered(B)
  /\ UNCHANGED <<up, job, silenced, counters, history>>

(* RecoverStaleProcessing(2 min), between the batches.                     *)
Sweep(s) ==
  /\ Idle(s)
  /\ \E B \in SUBSET {n \in Processing : Holders(n) = {}} : B # {} /\ Recovered(B)
  /\ UNCHANGED <<up, job, silenced, counters, history>>

(* The customer, or staff, elsewhere.                                      *)
Silence ==
  /\ silences < MaxSilences /\ silences' = silences + 1
  /\ silenced' = ~silenced
  /\ UNCHANGED <<row, up, job, events, faults, history>>

-----------------------------------------------------------------------------
Proceed(x, n) ==
  \/ Suppress(x, n) \/ Clear(x, n) \/ Send(x, n) \/ Retry(x, n) \/ Finish(x, n)
  \/ (x[2] = "dispatch" /\ ClaimForDispatch(x[1], n))
Work(s) == ClaimBatchForProcessing(s) \/ Sweep(s)

Next ==
  \/ \E s \in Servers : Work(s) \/ Crash(s) \/ Start(s)
                        \/ \E n \in Notes : BeginDispatch(s, n)
  \/ \E x \in Executors, n \in Notes : Proceed(x, n) \/ RecordFails(x, n)
  \/ Silence

Spec == Init /\ [][Next]_vars

(* The worker polls every second and sweeps every 30, a send ends by its   *)
(* timeout, a stopped server is started again.                             *)
LiveSpec ==
  /\ Spec
  /\ \A s \in Servers : WF_vars(Work(s)) /\ WF_vars(Start(s))
  /\ \A x \in Executors, n \in Notes : WF_vars(Proceed(x, n))

-----------------------------------------------------------------------------
(* The type of every variable; attempts stay below the limit.              *)
TypeOK ==
  /\ row \in [Notes -> [status : Statuses, attempts : 0 .. MaxAttempts - 1]]
  /\ up \subseteq Servers
  /\ job \in [Executors -> [Notes ->
       [step : Live \cup {"none", "created"}, attempts : 0 .. MaxAttempts - 1]]]
  /\ silenced \in BOOLEAN
  /\ events \in 0 .. MaxEvents /\ silences \in 0 .. MaxSilences /\ faults \in 0 .. MaxFaults
  /\ delivered \in [Notes -> Nat] /\ unknown \in [Notes -> Nat]

(* A notification is in the hands of one executor at a time, and its row   *)
(* says so (the claims, the recoveries and the unguarded updates after     *)
(* them).                                                                  *)
OneAtATime ==
  \A n \in Notes :
    /\ Cardinality(Holders(n)) <= 1
    /\ Holders(n) # {} => row[n].status = "PROCESSING"

(* The customer gets a message twice only when the outcome of a send was   *)
(* not learnt or not recorded (Dispatch and worker, with the same key).    *)
RepeatsOnlyUnknown == \A n \in Notes : delivered[n] <= 1 + unknown[n]

(* Nothing follows a terminal status: a late update of another executor    *)
(* does not revive a notification (the updates have no condition).         *)
TerminalStays ==
  [][\A n \in Notes : row[n].status \in Terminal => row'[n] = row[n]]_vars

(* Every notification is settled in the end, through crashes, failed       *)
(* statements and refusals (startup recovery, sweep, retries, attempts).   *)
EveryNoteSettles ==
  \A n \in Notes : row[n].status # "NONE" ~> row[n].status \in Terminal

(* A claim that does not hold.                                             *)

(* docs/WHATSAPP_OUTBOX_RETRY.md: at most once, the unique key keeps the   *)
(* customer from getting a message twice.                                  *)
AtMostOnce == \A n \in Notes : delivered[n] <= 1
=============================================================================
