----------------------------- MODULE QrisPayment -----------------------------
(***************************************************************************)
(* The MIDTRANS_QRIS payment of one order (internal/payment): the requests *)
(* that charge it, the webhooks of the provider and the reconcilers that   *)
(* ask the provider for the outcome.  A step is one database transaction   *)
(* or one call to the provider; a charge request spans a transaction       *)
(* (PrepareQRIS), a call and another transaction (CompleteQRIS, FailQRIS), *)
(* a reconciliation three transactions and a call, and every process can   *)
(* die between two of them.                                                *)
(***************************************************************************)
EXTENDS Naturals

CONSTANTS
  Requests,     \* API requests that can be served at the same time
  Reconcilers,  \* the scheduled worker of each server and manual requests
  Keys,         \* values of the Idempotency-Key header, each with its actor
  MaxFailures   \* failures in a row that raise an alert (5 in the code)

ASSUME MaxFailuresAssumption == MaxFailures \in Nat \ {0}

VARIABLES
  pay,      \* the row of table payments
  recon,    \* its reconciliation columns
  events,   \* payment_events: the notifications already processed
  payable,  \* the order is neither REJECTED nor CANCELLED
  call,     \* where each charge request is
  reply,    \* its last answer
  job,      \* where each reconciliation is, and what it read
  txn,      \* the provider's transaction
  late,     \* a charge whose caller gave up is still on its way
  notices   \* notifications the provider has sent, delivered at any time

vars == <<pay, recon, events, payable, call, reply, job, txn, late, notices>>
row == <<pay, recon, events>>
provider == <<txn, late, notices>>

-----------------------------------------------------------------------------
Statuses == {"UNPAID", "PENDING_PAYMENT", "FAILED", "EXPIRED", "PAID", "REFUNDED"}
Open == {"UNPAID", "PENDING_PAYMENT"}

paymentStatusRank(s) ==
  CASE s = "UNPAID" -> 0
    [] s = "PENDING_PAYMENT" -> 1
    [] s \in {"FAILED", "EXPIRED"} -> 2
    [] s = "PAID" -> 3
    [] s = "REFUNDED" -> 4

(* transaction_status of the provider, one event id for each.              *)
Notices == {"pending", "deny", "expire", "settlement", "refund"}

mapMidtransStatus(n) ==
  CASE n = "pending" -> "PENDING_PAYMENT"
    [] n = "deny" -> "FAILED"
    [] n = "expire" -> "EXPIRED"
    [] n = "settlement" -> "PAID"
    [] n = "refund" -> "REFUNDED"

NoPayment == [status |-> "NONE"]
Payment == [status: Statuses, key: Keys, ref: BOOLEAN, qr: BOOLEAN,
            attempt: {"IN_FLIGHT", "SUCCEEDED", "UNKNOWN", "PERMANENT_FAILURE"}]

(* owner is the reconciliation whose candidate.Attempt still equals        *)
(* reconciliation_attempt_count, that is the last one to claim the row.    *)
Nobody == "nobody"
Recon == [state: {"NULL", "DUE", "RETRY", "IN_FLIGHT", "RESOLVED", "ALERT"},
          failures: 0 .. MaxFailures, owner: Reconcilers \cup {Nobody}]

(* A request runs PrepareQRIS (retrying: it read UNKNOWN and has not yet   *)
(* written), calls the provider and then persists what came of the call.   *)
CallStates == {"idle", "retrying", "charging", "charged", "failed", "rejected"}

Reply == [kind: {"none", "refused", "unavailable"}]
         \cup [kind: {"ok"}, status: Statuses, qr: BOOLEAN]

NoJob == [at |-> "idle"]
Job == {NoJob}
       \cup [at: {"claimed", "failing"}, failures: 0 .. MaxFailures]
       \cup [at: {"read"}, failures: 0 .. MaxFailures, notice: Notices]
       \cup [at: {"applied"}, terminal: BOOLEAN]

TypeOK ==
  /\ pay \in {NoPayment} \cup Payment
  /\ recon \in Recon
  /\ events \subseteq Notices
  /\ payable \in BOOLEAN
  /\ call \in [Requests -> CallStates]
  /\ reply \in [Requests -> Reply]
  /\ job \in [Reconcilers -> Job]
  /\ txn \in Notices \cup {"none"}
  /\ late \in BOOLEAN
  /\ notices \subseteq Notices

Init ==
  /\ pay = NoPayment
  /\ recon = [state |-> "NULL", failures |-> 0, owner |-> Nobody]
  /\ events = {}
  /\ payable = TRUE
  /\ call = [r \in Requests |-> "idle"]
  /\ reply = [r \in Requests |-> [kind |-> "none"]]
  /\ job = [w \in Reconcilers |-> NoJob]
  /\ txn = "none"
  /\ late = FALSE
  /\ notices = {}

-----------------------------------------------------------------------------
(* Charge requests.                                                        *)

(* The advisory lock MIDTRANS_QRIS:order is held across PrepareQRIS.       *)
QrisNeverLocked == FALSE   \* variant: no advisory lock

QrisLocked == \E r \in Requests : call[r] = "retrying"

Goto(r, state) == call' = [call EXCEPT ![r] = state] /\ reply' = [reply EXCEPT ![r] = [kind |-> "none"]]
Answer(r, a) == call' = [call EXCEPT ![r] = "idle"] /\ reply' = [reply EXCEPT ![r] = a]

Seen(p) == [kind |-> "ok", status |-> p.status, qr |-> p.qr]
Said(kind) == [kind |-> kind]

PrepareNew(r, key) ==
  /\ call[r] = "idle" /\ ~QrisLocked
  /\ pay = NoPayment
  /\ UNCHANGED <<recon, events, payable, job, provider>>
  /\ \/ /\ payable
        /\ pay' = [status |-> "UNPAID", key |-> key, ref |-> FALSE, qr |-> FALSE,
                   attempt |-> "IN_FLIGHT"]
        /\ Goto(r, "charging")
     \/ ~payable /\ Answer(r, Said("refused")) /\ UNCHANGED pay

PrepareAgain(r, key) ==
  /\ call[r] = "idle" /\ ~QrisLocked
  /\ pay # NoPayment
  /\ UNCHANGED <<row, payable, job, provider>>
  /\ \/ pay.key # key /\ Answer(r, Said("refused"))
     \/ pay.key = key /\ pay.attempt = "PERMANENT_FAILURE" /\ Answer(r, Said("refused"))
     \/ pay.key = key /\ pay.attempt \in {"SUCCEEDED", "IN_FLIGHT"} /\ Answer(r, Seen(pay))
     \/ pay.key = key /\ pay.attempt = "UNKNOWN" /\ Goto(r, "retrying")

(* The UPDATE that follows checks nothing of what was read.                *)
PrepareRetry(r) ==
  /\ call[r] = "retrying"
  /\ pay' = [pay EXCEPT !.attempt = "IN_FLIGHT"]
  /\ Goto(r, "charging")
  /\ UNCHANGED <<recon, events, payable, job, provider>>

(* The provider knows a charge by its order id and creates it once.        *)
ProviderCreates ==
  /\ txn = "none"
  /\ txn' = "pending"
  /\ notices' = notices \cup {"pending"}

CreateQRIS(r) ==
  /\ call[r] = "charging"
  /\ UNCHANGED <<row, payable, job>>
  /\ \/ ProviderCreates /\ UNCHANGED late /\ Goto(r, "charged")
     \/ ProviderCreates /\ UNCHANGED late /\ Goto(r, "failed")  \* the answer is lost
     \/ UNCHANGED <<txn, notices>> /\ late' \in {late, TRUE} /\ Goto(r, "failed")
     \/ UNCHANGED provider /\ Goto(r, "rejected")

CompleteQRIS(r) ==
  /\ call[r] = "charged"
  /\ UNCHANGED <<events, payable, job, provider>>
  /\ \/ /\ pay.attempt = "IN_FLIGHT"
        /\ pay' = [pay EXCEPT !.status = "PENDING_PAYMENT", !.ref = TRUE, !.qr = TRUE,
                              !.attempt = "SUCCEEDED"]
        /\ recon' = [recon EXCEPT !.state = "DUE"]
        /\ Answer(r, Seen(pay'))
     \/ pay.attempt # "IN_FLIGHT" /\ Answer(r, Said("refused")) /\ UNCHANGED <<pay, recon>>

FailQRIS(r) ==
  /\ call[r] \in {"failed", "rejected"}
  /\ UNCHANGED <<events, payable, job, provider>>
  /\ \/ /\ pay.attempt = "IN_FLIGHT"
        /\ call[r] = "failed"
        /\ pay' = [pay EXCEPT !.status = "UNPAID", !.attempt = "UNKNOWN"]
        /\ recon' = [recon EXCEPT !.state = "DUE"]
     \/ /\ pay.attempt = "IN_FLIGHT"
        /\ call[r] = "rejected"
        /\ pay' = [pay EXCEPT !.status = "FAILED", !.attempt = "PERMANENT_FAILURE"]
        /\ recon' = [recon EXCEPT !.state = "RESOLVED"]
     \/ pay.attempt # "IN_FLIGHT" /\ UNCHANGED <<pay, recon>>
  /\ Answer(r, Said(IF call[r] = "failed" THEN "unavailable" ELSE "refused"))

(* The server dies, or the transaction that persists the outcome fails.    *)
LoseRequest(r) ==
  /\ call[r] # "idle"
  /\ Answer(r, Said("none"))
  /\ UNCHANGED <<row, payable, job, provider>>

OrderCloses ==
  /\ payable
  /\ payable' = FALSE
  /\ UNCHANGED <<row, call, reply, job, provider>>

-----------------------------------------------------------------------------
(* The provider.                                                           *)

LateCharge ==
  /\ late
  /\ late' = FALSE
  /\ \/ ProviderCreates
     \/ txn # "none" /\ UNCHANGED <<txn, notices>>
  /\ UNCHANGED <<row, payable, call, reply, job>>

(* A customer can only pay a code that was handed out.                     *)
ProviderMoves(n) ==
  /\ \/ txn = "pending" /\ n \in {"deny", "expire"}
     \/ txn = "pending" /\ n = "settlement" /\ pay.qr
     \/ txn = "settlement" /\ n = "refund"
  /\ txn' = n
  /\ notices' = notices \cup {n}
  /\ UNCHANGED <<row, payable, call, reply, job, late>>

-----------------------------------------------------------------------------
(* ApplyMidtransWebhook, one transaction under the lock of the row.        *)

(* Variant: a notification that says something else is applied.            *)
AppliesIfDifferent(n) == mapMidtransStatus(n) # pay.status

Applies(n) == paymentStatusRank(mapMidtransStatus(n)) > paymentStatusRank(pay.status)

StatusAfter(n) ==
  IF n \notin events /\ Applies(n) THEN mapMidtransStatus(n) ELSE pay.status

ApplyMidtransWebhook(n) ==
  \/ n \in events /\ UNCHANGED row
  \/ /\ n \notin events
     /\ events' = events \cup {n}
     /\ pay' = [pay EXCEPT !.status = StatusAfter(n), !.ref = TRUE,
                           !.attempt = IF Applies(n) \/ ~pay.ref THEN "SUCCEEDED" ELSE @]
     /\ recon' = [recon EXCEPT !.failures = 0,
                    !.state = IF \/ mapMidtransStatus(n) # "PENDING_PAYMENT"
                                 \/ StatusAfter(n) \notin Open
                              THEN "RESOLVED" ELSE "DUE"]

Webhook(n) ==
  /\ n \in notices
  /\ pay # NoPayment
  /\ ApplyMidtransWebhook(n)
  /\ UNCHANGED <<payable, call, reply, job, provider>>

-----------------------------------------------------------------------------
(* Reconciliation.                                                         *)

Become(w, j) == job' = [job EXCEPT ![w] = j]

Claim(w) ==
  /\ job[w] = NoJob
  /\ pay # NoPayment
  /\ pay.status \in Open
  /\ recon' = [recon EXCEPT !.state = "IN_FLIGHT", !.owner = w]
  /\ Become(w, [at |-> "claimed", failures |-> recon.failures])
  /\ UNCHANGED <<pay, events, payable, call, reply, provider>>

(* The due time comes, or a claim in flight is two minutes old (the        *)
(* variant before it takes nothing over from a worker that died).          *)
ClaimOnlyScheduled(w) == recon.state \in {"DUE", "RETRY"} /\ Claim(w)

ClaimDueReconciliations(w) == recon.state \in {"DUE", "RETRY", "IN_FLIGHT"} /\ Claim(w)

(* Asked for by staff, whatever the state.                                 *)
ClaimReconciliation(w) == Claim(w)

Failing(w) == [at |-> "failing", failures |-> job[w].failures]

(* The provider does not know the order before the charge reached it, and  *)
(* a call can always fail.                                                 *)
GetStatus(w) ==
  /\ job[w].at = "claimed"
  /\ \/ /\ txn # "none"
        /\ Become(w, [at |-> "read", failures |-> job[w].failures, notice |-> txn])
     \/ Become(w, Failing(w))
  /\ UNCHANGED <<row, payable, call, reply, provider>>

(* A code still pending after its expiry is taken for a discrepancy, and   *)
(* the transaction that applies the answer can fail.                       *)
ApplyStatus(w) ==
  /\ job[w].at = "read"
  /\ \/ /\ ApplyMidtransWebhook(job[w].notice)
        /\ Become(w, [at |-> "applied", terminal |-> StatusAfter(job[w].notice) \notin Open])
     \/ Become(w, Failing(w)) /\ UNCHANGED row
  /\ UNCHANGED <<payable, call, reply, provider>>

(* Variant: whatever the provider answered, the payment is done with.      *)
FinishForGood(w) ==
  /\ job[w].at = "applied"
  /\ recon' = IF recon.owner = w THEN [recon EXCEPT !.state = "RESOLVED", !.failures = 0] ELSE recon
  /\ Become(w, NoJob)
  /\ UNCHANGED <<pay, events, payable, call, reply, provider>>

FinishReconciliation(w) ==
  /\ job[w].at = "applied"
  /\ \/ /\ recon.owner = w
        /\ recon' = [recon EXCEPT !.state = IF job[w].terminal THEN "RESOLVED" ELSE "DUE",
                                  !.failures = 0]
     \/ recon.owner # w /\ UNCHANGED recon
  /\ Become(w, NoJob)
  /\ UNCHANGED <<pay, events, payable, call, reply, provider>>

(* A manual claim after an alert starts from failures the alert left.      *)
FailuresAfter(w) == IF job[w].failures >= MaxFailures THEN MaxFailures ELSE job[w].failures + 1

(* Variant: the state is not checked to be IN_FLIGHT still.                *)
FailWhateverState(w) ==
  /\ job[w].at = "failing"
  /\ recon.owner = w
  /\ recon' = [recon EXCEPT !.failures = FailuresAfter(w), !.state = "RETRY"]
  /\ Become(w, NoJob)
  /\ UNCHANGED <<pay, events, payable, call, reply, provider>>

FailReconciliation(w) ==
  /\ job[w].at = "failing"
  /\ \/ /\ recon.state = "IN_FLIGHT" /\ recon.owner = w
        /\ recon' = [recon EXCEPT !.failures = FailuresAfter(w),
                       !.state = IF FailuresAfter(w) = MaxFailures THEN "ALERT" ELSE "RETRY"]
     \/ ~(recon.state = "IN_FLIGHT" /\ recon.owner = w) /\ UNCHANGED recon
  /\ Become(w, NoJob)
  /\ UNCHANGED <<pay, events, payable, call, reply, provider>>

LoseJob(w) ==
  /\ job[w] # NoJob
  /\ Become(w, NoJob)
  /\ UNCHANGED <<row, payable, call, reply, provider>>

-----------------------------------------------------------------------------
Charge(r) ==
  \/ \E key \in Keys : PrepareNew(r, key) \/ PrepareAgain(r, key)
  \/ PrepareRetry(r)
  \/ CreateQRIS(r)
  \/ CompleteQRIS(r)
  \/ FailQRIS(r)
  \/ LoseRequest(r)

Reconcile(w) ==
  \/ ClaimDueReconciliations(w)
  \/ ClaimReconciliation(w)
  \/ GetStatus(w)
  \/ ApplyStatus(w)
  \/ FinishReconciliation(w)
  \/ FailReconciliation(w)
  \/ LoseJob(w)

Next ==
  \/ \E r \in Requests : Charge(r)
  \/ \E w \in Reconcilers : Reconcile(w)
  \/ \E n \in Notices : Webhook(n) \/ ProviderMoves(n)
  \/ LateCharge
  \/ OrderCloses

Spec == Init /\ [][Next]_vars

(* The scheduled worker goes on polling, the database and the provider     *)
(* answer in the end, and a server is not killed each time at the same     *)
(* point; webhooks may be lost and staff need not do anything.             *)
Fairness ==
  /\ \A w \in Reconcilers :
       /\ WF_vars(ClaimDueReconciliations(w))
       /\ SF_vars(GetStatus(w))
       /\ SF_vars(ApplyStatus(w))
       /\ SF_vars(FinishReconciliation(w))
       /\ SF_vars(FailReconciliation(w))
  /\ \A r \in Requests :
       WF_vars(PrepareRetry(r) \/ CreateQRIS(r) \/ CompleteQRIS(r) \/ FailQRIS(r))

LiveSpec == Spec /\ Fairness

-----------------------------------------------------------------------------
(* Properties.                                                             *)

Terminal(p) == p # NoPayment /\ p.status \notin Open

(* Never two charge requests under way for the order, so that a request    *)
(* that persists UNKNOWN or PENDING_PAYMENT speaks of the only charge.     *)
OneChargeAtATime ==
  \A r, s \in Requests : r = s \/ call[r] = "idle" \/ call[s] = "idle"

(* Neither a charge, a late or repeated notification nor a stale           *)
(* reconciliation takes a payment back once it was paid: the payment keeps *)
(* the promise of PaymentLedger.                                           *)
Ledger == INSTANCE PaymentLedger WITH status <-
  CASE pay.status = "NONE" -> "NONE"
    [] pay.status \in {"UNPAID", "PENDING_PAYMENT", "FAILED", "EXPIRED"} -> "OPEN"
    [] pay.status \in {"PAID", "REFUNDED"} -> pay.status

ImplementsLedger == Ledger!Spec

(* Reconciliation works and alerts on open payments only: whoever settles  *)
(* a payment takes it out of the hands of the worker that has it.          *)
OnlyOpenIsPursued ==
  recon.state \in {"IN_FLIGHT", "RETRY", "ALERT"} => pay.status \in Open

(* A payment whose code was handed out is not dropped by reconciliation    *)
(* before the provider has decided it.                                     *)
ResolvedIsTerminal ==
  pay # NoPayment /\ recon.state = "RESOLVED" => Terminal(pay) \/ ~pay.qr

(* Money the provider has taken is recorded, even if every notification is *)
(* lost, or an operator is alerted.                                        *)
SettlementIsRecorded ==
  txn = "settlement" ~> (pay.status \in {"PAID", "REFUNDED"} \/ recon.state = "ALERT")

(* Claims of the documents that do not hold.                               *)

(* pesenhub_be/README.md: a successful answer carries the QR URL and the   *)
(* status PENDING_PAYMENT.                                                 *)
SuccessCarriesQr ==
  \A r \in Requests :
    reply[r].kind = "ok" /\ reply[r].status = "PENDING_PAYMENT" => reply[r].qr

(* pesenhub_be/README.md: reconciliation runs on its own for charges whose *)
(* outcome is not known.                                                   *)
UnknownIsReconciled ==
  (pay # NoPayment /\ pay.status = "UNPAID") ~>
    (pay.status # "UNPAID" \/ recon.state = "ALERT")
=============================================================================
