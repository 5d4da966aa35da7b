-------------------------- MODULE QrisPayment_proofs --------------------------
(* Theorems about QrisPayment, for any number of requests and reconcilers. *)
EXTENDS QrisPayment, TLAPS

-----------------------------------------------------------------------------
(* The two tables of the provider's statuses.                              *)
LEMMA Mapped ==
  ASSUME NEW n \in Notices
  PROVE  /\ mapMidtransStatus(n) \in Statuses \ {"UNPAID"}
         /\ mapMidtransStatus(n) \in Open <=> n = "pending"
         /\ mapMidtransStatus(n) = "PENDING_PAYMENT" <=> n = "pending"
         /\ mapMidtransStatus(n) \in {"PAID", "REFUNDED"} <=> n \in {"settlement", "refund"}
BY DEF Notices, mapMidtransStatus, Statuses, Open

LEMMA Ranked ==
  ASSUME NEW s \in Statuses
  PROVE  /\ paymentStatusRank(s) \in 0 .. 4
         /\ paymentStatusRank(s) = 0 <=> s = "UNPAID"
         /\ paymentStatusRank(s) < 2 <=> s \in Open
         /\ paymentStatusRank(s) = 3 <=> s = "PAID"
         /\ paymentStatusRank(s) = 4 <=> s = "REFUNDED"
BY DEF Statuses, paymentStatusRank, Open

(* A status only gives way to one of a higher rank.                        *)
LEMMA Rising ==
  ASSUME NEW s \in Statuses, NEW n \in Notices,
         paymentStatusRank(mapMidtransStatus(n)) > paymentStatusRank(s)
  PROVE  /\ s \notin Open => mapMidtransStatus(n) \notin Open
         /\ s # "REFUNDED"
         /\ s = "PAID" => mapMidtransStatus(n) = "REFUNDED"
BY Mapped, Ranked

(* What a notification does to the row: nothing, or it is recorded.        *)
LEMMA Notified ==
  ASSUME pay \in Payment, recon \in Recon, events \subseteq Notices, NEW n \in Notices,
         ApplyMidtransWebhook(n)
  PROVE  \/ UNCHANGED <<pay, recon, events>> /\ n \in events
         \/ /\ n \notin events /\ events' = events \cup {n}
            /\ pay' \in Payment /\ recon' \in Recon
            /\ pay'.qr = pay.qr /\ pay'.status = StatusAfter(n)
            /\ (Applies(n) \/ ~pay.ref) => pay'.attempt = "SUCCEEDED"
            /\ pay'.attempt \in {pay.attempt, "SUCCEEDED"}
            /\ recon'.state \in {"DUE", "RESOLVED"} /\ recon'.owner = recon.owner
            /\ (recon'.state = "RESOLVED") <=> pay'.status \notin Open
<1>1. StatusAfter(n) \in Statuses
  BY Mapped DEF StatusAfter, Payment
<1>2. CASE n \in events /\ UNCHANGED row
  BY <1>2 DEF row
<1>3. CASE n \notin events /\ ~(n \in events /\ UNCHANGED row)
  <2>1. /\ events' = events \cup {n}
        /\ pay' = [pay EXCEPT !.status = StatusAfter(n), !.ref = TRUE,
                              !.attempt = IF Applies(n) \/ ~pay.ref THEN "SUCCEEDED" ELSE @]
        /\ recon' = [recon EXCEPT !.failures = 0,
                       !.state = IF \/ mapMidtransStatus(n) # "PENDING_PAYMENT"
                                    \/ StatusAfter(n) \notin Open
                                 THEN "RESOLVED" ELSE "DUE"]
    BY <1>3 DEF ApplyMidtransWebhook
  <2> DEFINE att == IF Applies(n) \/ ~pay.ref THEN "SUCCEEDED" ELSE pay.attempt
  <2>a. pay' = [pay EXCEPT !.status = StatusAfter(n), !.ref = TRUE, !.attempt = att]
    BY <2>1
  <2>b. att \in {"IN_FLIGHT", "SUCCEEDED", "UNKNOWN", "PERMANENT_FAILURE"}
    BY DEF Payment
  <2>c. att \in {pay.attempt, "SUCCEEDED"} /\ ((Applies(n) \/ ~pay.ref) => att = "SUCCEEDED")
    OBVIOUS
  <2>d. pay' \in Payment /\ pay'.attempt = att /\ pay'.status = StatusAfter(n)
    <3> HIDE DEF att
    <3> QED BY <1>1, <2>a, <2>b DEF Payment
  <2>e. pay'.qr = pay.qr
    <3> HIDE DEF att
    <3> QED BY <2>a DEF Payment
  <2>2. /\ pay' \in Payment /\ pay'.qr = pay.qr /\ pay'.status = StatusAfter(n)
        /\ (Applies(n) \/ ~pay.ref) => pay'.attempt = "SUCCEEDED"
        /\ pay'.attempt \in {pay.attempt, "SUCCEEDED"}
    BY <2>c, <2>d, <2>e
  <2> DEFINE st == IF mapMidtransStatus(n) # "PENDING_PAYMENT" \/ StatusAfter(n) \notin Open
                   THEN "RESOLVED" ELSE "DUE"
  <2>f. recon' = [recon EXCEPT !.failures = 0, !.state = st] /\ st \in {"DUE", "RESOLVED"}
    BY <2>1
  <2>3. recon' \in Recon /\ recon'.owner = recon.owner /\ recon'.state = st
    <3> HIDE DEF st
    <3>1. 0 \in 0 .. MaxFailures
      BY MaxFailuresAssumption
    <3>2. st \in {"NULL", "DUE", "RETRY", "IN_FLIGHT", "RESOLVED", "ALERT"}
      BY <2>f
    <3>3. recon' \in Recon /\ recon'.owner = recon.owner
      BY <2>f, <3>1, <3>2 DEF Recon
    <3>4. recon'.state = st
      BY <2>f DEF Recon
    <3> QED BY <3>3, <3>4
  <2>4. recon'.state = IF mapMidtransStatus(n) # "PENDING_PAYMENT" \/ StatusAfter(n) \notin Open
                       THEN "RESOLVED" ELSE "DUE"
    BY <2>3
  <2>5. mapMidtransStatus(n) # "PENDING_PAYMENT" => StatusAfter(n) \notin Open
    <3>1. CASE Applies(n)
      BY <1>3, <3>1, Mapped DEF StatusAfter
    <3>2. CASE ~Applies(n)
      BY <3>2, Mapped, Ranked DEF StatusAfter, Applies, Payment
    <3> QED BY <3>1, <3>2
  <2> QED BY <1>3, <2>1, <2>2, <2>3, <2>4, <2>5
<1> QED BY <1>2, <1>3 DEF ApplyMidtransWebhook

-----------------------------------------------------------------------------
(* Every variable keeps its type.                                          *)
LEMMA NoPaymentIsNone == NoPayment \notin Payment
<1>1. \A p \in Payment : p.status \in Statuses
  BY DEF Payment
<1>2. NoPayment.status \notin Statuses
  BY DEF NoPayment, Statuses
<1> QED BY <1>1, <1>2

LEMMA PayWith ==
  ASSUME pay \in Payment, NEW s \in Statuses, NEW f \in BOOLEAN, NEW q \in BOOLEAN,
         NEW a \in {"IN_FLIGHT", "SUCCEEDED", "UNKNOWN", "PERMANENT_FAILURE"},
         NEW p, p = [pay EXCEPT !.status = s, !.ref = f, !.qr = q, !.attempt = a]
  PROVE  p \in Payment /\ p.status = s /\ p.ref = f /\ p.qr = q /\ p.attempt = a
BY DEF Payment

LEMMA TypesHold == Init => TypeOK
<1> SUFFICES ASSUME Init
             PROVE  TypeOK
  OBVIOUS
<1>1. recon \in Recon
  BY MaxFailuresAssumption DEF Init, Recon
<1>2. call \in [Requests -> CallStates]
  BY DEF Init, CallStates
<1>3. reply \in [Requests -> Reply]
  BY DEF Init, Reply
<1>4. job \in [Reconcilers -> Job]
  BY DEF Init, Job
<1> QED BY <1>1, <1>2, <1>3, <1>4 DEF Init, TypeOK

LEMMA JobTypes ==
  ASSUME NEW j \in Job
  PROVE  /\ j.at \in {"claimed", "failing", "read"} => j.failures \in 0 .. MaxFailures
         /\ j.at = "read" => j.notice \in Notices
         /\ j.at = "applied" => j.terminal \in BOOLEAN
BY DEF Job, NoJob

LEMMA Jobs ==
  /\ NoJob \in Job
  /\ \A f \in 0 .. MaxFailures :
       /\ [at |-> "claimed", failures |-> f] \in Job
       /\ [at |-> "failing", failures |-> f] \in Job
       /\ \A n \in Notices : [at |-> "read", failures |-> f, notice |-> n] \in Job
  /\ \A b \in BOOLEAN : [at |-> "applied", terminal |-> b] \in Job
BY DEF Job, NoJob

LEMMA Replies ==
  /\ \A p \in Payment : Seen(p) \in Reply
  /\ \A k \in {"none", "refused", "unavailable"} : Said(k) \in Reply /\ [kind |-> k] \in Reply
BY DEF Reply, Seen, Said, Payment

(* A request or a reconciliation only exists for a payment that exists.    *)
HasPayment ==
  /\ \A r \in Requests : call[r] # "idle" => pay # NoPayment
  /\ \A w \in Reconcilers : job[w] # NoJob => pay # NoPayment
  /\ recon.state # "NULL" => pay # NoPayment

Base == TypeOK /\ HasPayment

(* What the transactions of a charge request write.                        *)
LEMMA CreatedRow ==
  ASSUME NEW key \in Keys,
         pay' = [status |-> "UNPAID", key |-> key, ref |-> FALSE, qr |-> FALSE,
                 attempt |-> "IN_FLIGHT"]
  PROVE  /\ pay' \in Payment
         /\ pay'.status = "UNPAID" /\ pay'.ref = FALSE /\ pay'.qr = FALSE
         /\ pay'.attempt = "IN_FLIGHT"
BY DEF Payment, Statuses

LEMMA RetriedRow ==
  ASSUME pay \in Payment, pay' = [pay EXCEPT !.attempt = "IN_FLIGHT"]
  PROVE  /\ pay' \in Payment
         /\ pay'.status = pay.status /\ pay'.ref = pay.ref /\ pay'.qr = pay.qr
         /\ pay'.attempt = "IN_FLIGHT"
BY DEF Payment

LEMMA CompletedRow ==
  ASSUME pay \in Payment, recon \in Recon,
         pay' = [pay EXCEPT !.status = "PENDING_PAYMENT", !.ref = TRUE, !.qr = TRUE,
                            !.attempt = "SUCCEEDED"],
         recon' = [recon EXCEPT !.state = "DUE"]
  PROVE  /\ pay' \in Payment
         /\ pay'.status = "PENDING_PAYMENT" /\ pay'.ref = TRUE /\ pay'.qr = TRUE
         /\ pay'.attempt = "SUCCEEDED"
         /\ recon' \in Recon /\ recon'.state = "DUE"
BY DEF Payment, Recon, Statuses

LEMMA UnknownRow ==
  ASSUME pay \in Payment, recon \in Recon,
         pay' = [pay EXCEPT !.status = "UNPAID", !.attempt = "UNKNOWN"],
         recon' = [recon EXCEPT !.state = "DUE"]
  PROVE  /\ pay' \in Payment
         /\ pay'.status = "UNPAID" /\ pay'.ref = pay.ref /\ pay'.qr = pay.qr
         /\ pay'.attempt = "UNKNOWN"
         /\ recon' \in Recon /\ recon'.state = "DUE"
BY DEF Payment, Recon, Statuses

LEMMA RejectedRow ==
  ASSUME pay \in Payment, recon \in Recon,
         pay' = [pay EXCEPT !.status = "FAILED", !.attempt = "PERMANENT_FAILURE"],
         recon' = [recon EXCEPT !.state = "RESOLVED"]
  PROVE  /\ pay' \in Payment
         /\ pay'.status = "FAILED" /\ pay'.ref = pay.ref /\ pay'.qr = pay.qr
         /\ pay'.attempt = "PERMANENT_FAILURE"
         /\ recon' \in Recon /\ recon'.state = "RESOLVED"
BY DEF Payment, Recon, Statuses

(* What the transactions of a reconciliation write.                        *)
LEMMA ClaimedRow ==
  ASSUME recon \in Recon, NEW w \in Reconcilers,
         recon' = [recon EXCEPT !.state = "IN_FLIGHT", !.owner = w]
  PROVE  recon' \in Recon /\ recon'.state = "IN_FLIGHT"
BY DEF Recon

LEMMA FinishedRow ==
  ASSUME recon \in Recon, NEW s \in {"RESOLVED", "DUE"},
         recon' = [recon EXCEPT !.state = s, !.failures = 0]
  PROVE  recon' \in Recon /\ recon'.state = s
<1>1. 0 \in 0 .. MaxFailures
  BY MaxFailuresAssumption
<1> QED BY <1>1 DEF Recon

LEMMA FailingRow ==
  ASSUME recon \in Recon, NEW f \in 0 .. MaxFailures, NEW s \in {"ALERT", "RETRY"},
         recon' = [recon EXCEPT !.failures = f, !.state = s]
  PROVE  recon' \in Recon /\ recon'.state = s
BY DEF Recon

(* What the two ends of a step of a request do to the request.             *)
LEMMA Going ==
  ASSUME TypeOK, NEW r \in Requests, NEW c \in CallStates, Goto(r, c)
  PROVE  /\ call' \in [Requests -> CallStates] /\ reply' \in [Requests -> Reply]
         /\ \A s \in Requests : call'[s] = IF s = r THEN c ELSE call[s]
BY Replies DEF TypeOK, Goto, Said

LEMMA Answering ==
  ASSUME TypeOK, NEW r \in Requests, NEW a \in Reply, Answer(r, a)
  PROVE  /\ call' \in [Requests -> CallStates] /\ reply' \in [Requests -> Reply]
         /\ \A s \in Requests : call'[s] = IF s = r THEN "idle" ELSE call[s]
<1>1. "idle" \in CallStates
  BY DEF CallStates
<1> QED BY <1>1 DEF TypeOK, Answer

LEMMA Becoming ==
  ASSUME TypeOK, NEW w \in Reconcilers, NEW j \in Job, Become(w, j)
  PROVE  /\ job' \in [Reconcilers -> Job]
         /\ \A v \in Reconcilers : job'[v] = IF v = w THEN j ELSE job[v]
BY DEF TypeOK, Become

(* The steps of a charge request, one by one.                              *)
LEMMA PrepareNewEffect ==
  ASSUME Base, NEW r \in Requests, NEW key \in Keys, PrepareNew(r, key)
  PROVE  /\ UNCHANGED <<recon, events, payable, job, txn, late, notices>>
         /\ pay = NoPayment
         /\ call' \in [Requests -> CallStates] /\ reply' \in [Requests -> Reply]
         /\ \/ UNCHANGED pay /\ \A s \in Requests : call'[s] = IF s = r THEN "idle" ELSE call[s]
            \/ /\ pay' \in Payment /\ pay'.status = "UNPAID" /\ pay'.ref = FALSE
               /\ pay'.qr = FALSE /\ pay'.attempt = "IN_FLIGHT"
               /\ \A s \in Requests : call'[s] = IF s = r THEN "charging" ELSE call[s]
<1>1. UNCHANGED <<recon, events, payable, job, txn, late, notices>> /\ pay = NoPayment
  BY DEF PrepareNew, provider
<1>2. CASE ~payable /\ Answer(r, Said("refused")) /\ UNCHANGED pay
  BY <1>1, <1>2, Answering, Replies DEF Base
<1>3. CASE /\ payable
           /\ pay' = [status |-> "UNPAID", key |-> key, ref |-> FALSE, qr |-> FALSE,
                      attempt |-> "IN_FLIGHT"]
           /\ Goto(r, "charging")
  <2>1. "charging" \in CallStates
    BY DEF CallStates
  <2> QED BY <1>1, <1>3, <2>1, Going, CreatedRow DEF Base
<1> QED BY <1>2, <1>3 DEF PrepareNew

LEMMA PrepareAgainEffect ==
  ASSUME Base, NEW r \in Requests, NEW key \in Keys, PrepareAgain(r, key)
  PROVE  /\ UNCHANGED <<pay, recon, events, payable, job, txn, late, notices>>
         /\ pay \in Payment
         /\ call' \in [Requests -> CallStates] /\ reply' \in [Requests -> Reply]
         /\ ~QrisLocked
         /\ \/ \A s \in Requests : call'[s] = IF s = r THEN "idle" ELSE call[s]
            \/ /\ pay.attempt = "UNKNOWN"
               /\ \A s \in Requests : call'[s] = IF s = r THEN "retrying" ELSE call[s]
<1>1. /\ UNCHANGED <<pay, recon, events, payable, job, txn, late, notices>>
      /\ pay \in Payment /\ ~QrisLocked
  BY DEF PrepareAgain, row, provider, Base, TypeOK
<1>2. CASE \E a \in Reply : Answer(r, a)
  BY <1>1, <1>2, Answering DEF Base
<1>3. CASE pay.attempt = "UNKNOWN" /\ Goto(r, "retrying")
  <2>1. "retrying" \in CallStates
    BY DEF CallStates
  <2> QED BY <1>1, <1>3, <2>1, Going DEF Base
<1> QED BY <1>1, <1>2, <1>3, Replies DEF PrepareAgain

LEMMA PrepareRetryEffect ==
  ASSUME Base, NEW r \in Requests, PrepareRetry(r)
  PROVE  /\ UNCHANGED <<recon, events, payable, job, txn, late, notices>>
         /\ call[r] = "retrying" /\ pay \in Payment
         /\ call' \in [Requests -> CallStates] /\ reply' \in [Requests -> Reply]
         /\ \A s \in Requests : call'[s] = IF s = r THEN "charging" ELSE call[s]
         /\ pay' \in Payment /\ pay'.status = pay.status /\ pay'.ref = pay.ref
         /\ pay'.qr = pay.qr /\ pay'.attempt = "IN_FLIGHT"
<1>1. "charging" \in CallStates
  BY DEF CallStates
<1>2. UNCHANGED <<recon, events, payable, job, txn, late, notices>> /\ call[r] = "retrying"
  BY DEF PrepareRetry, provider
<1>3. pay \in Payment
  BY <1>2 DEF Base, TypeOK, HasPayment
<1>4. Goto(r, "charging") /\ pay' = [pay EXCEPT !.attempt = "IN_FLIGHT"]
  BY DEF PrepareRetry
<1> QED BY <1>1, <1>2, <1>3, <1>4, Going, RetriedRow DEF Base

LEMMA CreateEffect ==
  ASSUME Base, NEW r \in Requests, CreateQRIS(r)
  PROVE  /\ UNCHANGED <<pay, recon, events, payable, job>>
         /\ call[r] = "charging" /\ pay \in Payment
         /\ call' \in [Requests -> CallStates] /\ reply' \in [Requests -> Reply]
         /\ late' \in BOOLEAN
         /\ \E c \in {"charged", "failed", "rejected"} :
              /\ \A s \in Requests : call'[s] = IF s = r THEN c ELSE call[s]
              /\ c = "charged" => txn = "none" /\ txn' = "pending"
         /\ \/ UNCHANGED <<txn, notices>>
            \/ txn = "none" /\ txn' = "pending" /\ notices' = notices \cup {"pending"}
<1>1. /\ UNCHANGED <<pay, recon, events, payable, job>>
      /\ call[r] = "charging"
  BY DEF CreateQRIS, row
<1>2. pay \in Payment
  BY <1>1 DEF Base, TypeOK, HasPayment
<1>3. {"charged", "failed", "rejected"} \subseteq CallStates
  BY DEF CallStates
<1>4. late \in BOOLEAN
  BY DEF Base, TypeOK
<1>5. CASE ProviderCreates /\ UNCHANGED late /\ Goto(r, "charged")
  BY <1>1, <1>2, <1>3, <1>4, <1>5, Going DEF Base, ProviderCreates
<1>6. CASE ProviderCreates /\ UNCHANGED late /\ Goto(r, "failed")
  BY <1>1, <1>2, <1>3, <1>4, <1>6, Going DEF Base, ProviderCreates
<1>7. CASE UNCHANGED <<txn, notices>> /\ late' \in {late, TRUE} /\ Goto(r, "failed")
  BY <1>1, <1>2, <1>3, <1>4, <1>7, Going DEF Base
<1>8. CASE UNCHANGED provider /\ Goto(r, "rejected")
  BY <1>1, <1>2, <1>3, <1>4, <1>8, Going DEF Base, provider
<1> QED BY <1>5, <1>6, <1>7, <1>8 DEF CreateQRIS

LEMMA CompleteEffect ==
  ASSUME Base, NEW r \in Requests, CompleteQRIS(r)
  PROVE  /\ UNCHANGED <<events, payable, job, txn, late, notices>>
         /\ call[r] = "charged" /\ pay \in Payment
         /\ call' \in [Requests -> CallStates] /\ reply' \in [Requests -> Reply]
         /\ \A s \in Requests : call'[s] = IF s = r THEN "idle" ELSE call[s]
         /\ \/ UNCHANGED <<pay, recon>>
            \/ /\ pay.attempt = "IN_FLIGHT"
               /\ pay' \in Payment /\ pay'.status = "PENDING_PAYMENT" /\ pay'.ref = TRUE
               /\ pay'.qr = TRUE /\ pay'.attempt = "SUCCEEDED"
               /\ recon' \in Recon /\ recon'.state = "DUE"
<1>1. UNCHANGED <<events, payable, job, txn, late, notices>> /\ call[r] = "charged"
  BY DEF CompleteQRIS, provider
<1>2. pay \in Payment /\ recon \in Recon
  BY <1>1 DEF Base, TypeOK, HasPayment
<1>3. CASE pay.attempt # "IN_FLIGHT" /\ Answer(r, Said("refused")) /\ UNCHANGED <<pay, recon>>
  BY <1>1, <1>2, <1>3, Answering, Replies DEF Base
<1>4. CASE /\ pay.attempt = "IN_FLIGHT"
           /\ pay' = [pay EXCEPT !.status = "PENDING_PAYMENT", !.ref = TRUE, !.qr = TRUE,
                                 !.attempt = "SUCCEEDED"]
           /\ recon' = [recon EXCEPT !.state = "DUE"]
           /\ Answer(r, Seen(pay'))
  <2>1. /\ pay' \in Payment /\ pay'.status = "PENDING_PAYMENT" /\ pay'.ref = TRUE
        /\ pay'.qr = TRUE /\ pay'.attempt = "SUCCEEDED"
        /\ recon' \in Recon /\ recon'.state = "DUE"
    BY <1>2, <1>4, CompletedRow
  <2>2. Seen(pay') \in Reply
    BY <2>1, Replies
  <2> QED BY <1>1, <1>2, <1>4, <2>1, <2>2, Answering DEF Base
<1> QED BY <1>3, <1>4 DEF CompleteQRIS

LEMMA FailEffect ==
  ASSUME Base, NEW r \in Requests, FailQRIS(r)
  PROVE  /\ UNCHANGED <<events, payable, job, txn, late, notices>>
         /\ call[r] \in {"failed", "rejected"} /\ pay \in Payment
         /\ call' \in [Requests -> CallStates] /\ reply' \in [Requests -> Reply]
         /\ \A s \in Requests : call'[s] = IF s = r THEN "idle" ELSE call[s]
         /\ \/ UNCHANGED <<pay, recon>>
            \/ /\ pay.attempt = "IN_FLIGHT"
               /\ pay' \in Payment /\ pay'.ref = pay.ref /\ pay'.qr = pay.qr
               /\ recon' \in Recon
               /\ \/ /\ pay'.status = "UNPAID" /\ pay'.attempt = "UNKNOWN"
                     /\ recon'.state = "DUE"
                  \/ /\ pay'.status = "FAILED" /\ pay'.attempt = "PERMANENT_FAILURE"
                     /\ recon'.state = "RESOLVED"
<1>1. /\ UNCHANGED <<events, payable, job, txn, late, notices>>
      /\ call[r] \in {"failed", "rejected"}
  BY DEF FailQRIS, provider
<1>2. pay \in Payment /\ recon \in Recon
  BY <1>1 DEF Base, TypeOK, HasPayment
<1>3. /\ call' \in [Requests -> CallStates] /\ reply' \in [Requests -> Reply]
      /\ \A s \in Requests : call'[s] = IF s = r THEN "idle" ELSE call[s]
  <2>1. Answer(r, Said(IF call[r] = "failed" THEN "unavailable" ELSE "refused"))
    BY DEF FailQRIS
  <2>2. Said(IF call[r] = "failed" THEN "unavailable" ELSE "refused") \in Reply
    BY Replies
  <2> QED BY <2>1, <2>2, Answering DEF Base
<1>4. CASE /\ pay.attempt = "IN_FLIGHT"
           /\ pay' = [pay EXCEPT !.status = "UNPAID", !.attempt = "UNKNOWN"]
           /\ recon' = [recon EXCEPT !.state = "DUE"]
  BY <1>1, <1>2, <1>3, <1>4, UnknownRow
<1>5. CASE /\ pay.attempt = "IN_FLIGHT"
           /\ pay' = [pay EXCEPT !.status = "FAILED", !.attempt = "PERMANENT_FAILURE"]
           /\ recon' = [recon EXCEPT !.state = "RESOLVED"]
  BY <1>1, <1>2, <1>3, <1>5, RejectedRow
<1>6. CASE UNCHANGED <<pay, recon>>
  BY <1>1, <1>2, <1>3, <1>6
<1> QED BY <1>4, <1>5, <1>6 DEF FailQRIS

LEMMA LoseRequestEffect ==
  ASSUME Base, NEW r \in Requests, LoseRequest(r)
  PROVE  /\ UNCHANGED <<pay, recon, events, payable, job, txn, late, notices>>
         /\ call' \in [Requests -> CallStates] /\ reply' \in [Requests -> Reply]
         /\ \A s \in Requests : call'[s] = IF s = r THEN "idle" ELSE call[s]
BY Answering, Replies DEF LoseRequest, row, provider, Base

(* The steps of a reconciliation.                                          *)
LEMMA ClaimEffect ==
  ASSUME Base, NEW w \in Reconcilers, Claim(w)
  PROVE  /\ UNCHANGED <<pay, events, payable, call, reply, txn, late, notices>>
         /\ pay \in Payment /\ pay.status \in Open
         /\ recon' \in Recon /\ recon'.state = "IN_FLIGHT"
         /\ job' \in [Reconcilers -> Job]
         /\ \A v \in Reconcilers : v # w => job'[v] = job[v]
         /\ job'[w].at = "claimed"
<1>1. /\ UNCHANGED <<pay, events, payable, call, reply, txn, late, notices>>
      /\ pay \in Payment /\ pay.status \in Open
      /\ recon' = [recon EXCEPT !.state = "IN_FLIGHT", !.owner = w]
      /\ Become(w, [at |-> "claimed", failures |-> recon.failures])
  BY DEF Claim, provider, Base, TypeOK
<1>2. recon \in Recon /\ recon.failures \in 0 .. MaxFailures
  BY DEF Base, TypeOK, Recon
<1>3. [at |-> "claimed", failures |-> recon.failures] \in Job
  BY <1>2, Jobs
<1>4. recon' \in Recon /\ recon'.state = "IN_FLIGHT"
  BY <1>1, <1>2, ClaimedRow
<1>5. /\ job' \in [Reconcilers -> Job]
      /\ \A v \in Reconcilers :
           job'[v] = IF v = w THEN [at |-> "claimed", failures |-> recon.failures] ELSE job[v]
  BY <1>1, <1>3, Becoming DEF Base
<1> QED BY <1>1, <1>4, <1>5

LEMMA GetEffect ==
  ASSUME Base, NEW w \in Reconcilers, GetStatus(w)
  PROVE  /\ UNCHANGED <<pay, recon, events, payable, call, reply, txn, late, notices>>
         /\ pay \in Payment
         /\ job' \in [Reconcilers -> Job]
         /\ \A v \in Reconcilers : v # w => job'[v] = job[v]
         /\ \/ job'[w].at = "failing"
            \/ txn # "none" /\ job'[w].at = "read" /\ job'[w].notice = txn
<1>1. UNCHANGED <<pay, recon, events, payable, call, reply, txn, late, notices>>
  BY DEF GetStatus, row, provider
<1>2. job[w] \in Job /\ job[w].at = "claimed" /\ job[w] # NoJob
  BY DEF GetStatus, Base, TypeOK, NoJob
<1>3. pay \in Payment /\ job[w].failures \in 0 .. MaxFailures
  BY <1>2, JobTypes DEF Base, TypeOK, HasPayment
<1>4. CASE Become(w, Failing(w))
  <2>1. Failing(w) \in Job /\ Failing(w).at = "failing"
    BY <1>3, Jobs DEF Failing
  <2> QED BY <1>1, <1>3, <1>4, <2>1, Becoming DEF Base
<1>5. CASE /\ txn # "none"
           /\ Become(w, [at |-> "read", failures |-> job[w].failures, notice |-> txn])
  <2>1. txn \in Notices
    BY <1>5 DEF Base, TypeOK
  <2>2. [at |-> "read", failures |-> job[w].failures, notice |-> txn] \in Job
    BY <1>3, <2>1, Jobs
  <2>3. /\ job' \in [Reconcilers -> Job]
        /\ \A v \in Reconcilers :
             job'[v] = IF v = w THEN [at |-> "read", failures |-> job[w].failures, notice |-> txn]
                       ELSE job[v]
    BY <1>5, <2>2, Becoming DEF Base
  <2> QED BY <1>1, <1>3, <1>5, <2>3
<1> QED BY <1>4, <1>5 DEF GetStatus

LEMMA ApplyEffect ==
  ASSUME Base, NEW w \in Reconcilers, ApplyStatus(w)
  PROVE  /\ UNCHANGED <<payable, call, reply, txn, late, notices>>
         /\ pay \in Payment /\ recon \in Recon /\ events \subseteq Notices
         /\ job' \in [Reconcilers -> Job]
         /\ job[w].at = "read" /\ job[w].notice \in Notices
         /\ \A v \in Reconcilers : v # w => job'[v] = job[v]
         /\ \/ UNCHANGED <<pay, recon, events>> /\ job'[w].at = "failing"
            \/ /\ ApplyMidtransWebhook(job[w].notice)
               /\ job'[w].at = "applied"
               /\ job'[w].terminal <=> StatusAfter(job[w].notice) \notin Open
<1>1. UNCHANGED <<payable, call, reply, txn, late, notices>>
  BY DEF ApplyStatus, provider
<1>2. job[w] \in Job /\ job[w].at = "read" /\ job[w] # NoJob
  BY DEF ApplyStatus, Base, TypeOK, NoJob
<1>3. /\ pay \in Payment /\ recon \in Recon /\ events \subseteq Notices
      /\ job[w].failures \in 0 .. MaxFailures /\ job[w].notice \in Notices
  BY <1>2, JobTypes DEF Base, TypeOK, HasPayment
<1>4. CASE Become(w, Failing(w)) /\ UNCHANGED row
  <2>1. Failing(w) \in Job /\ Failing(w).at = "failing"
    BY <1>3, Jobs DEF Failing
  <2>2. UNCHANGED <<pay, recon, events>>
    BY <1>4 DEF row
  <2> QED BY <1>1, <1>2, <1>3, <1>4, <2>1, <2>2, Becoming DEF Base
<1>5. CASE /\ ApplyMidtransWebhook(job[w].notice)
           /\ Become(w, [at |-> "applied", terminal |-> StatusAfter(job[w].notice) \notin Open])
  <2> DEFINE t == StatusAfter(job[w].notice) \notin Open
  <2>1. Become(w, [at |-> "applied", terminal |-> t]) /\ t \in BOOLEAN
    BY <1>5
  <2> HIDE DEF t
  <2>2. [at |-> "applied", terminal |-> t] \in Job
    BY <2>1, Jobs
  <2>3. /\ job' \in [Reconcilers -> Job]
        /\ \A v \in Reconcilers :
             job'[v] = IF v = w THEN [at |-> "applied", terminal |-> t] ELSE job[v]
    BY <2>1, <2>2, Becoming DEF Base
  <2>4. job'[w].terminal <=> t
    BY <2>3
  <2>5. t <=> StatusAfter(job[w].notice) \notin Open
    BY DEF t
  <2> QED BY <1>1, <1>2, <1>3, <1>5, <2>3, <2>4, <2>5
<1> QED BY <1>4, <1>5 DEF ApplyStatus

LEMMA FinishEffect ==
  ASSUME Base, NEW w \in Reconcilers, FinishReconciliation(w)
  PROVE  /\ UNCHANGED <<pay, events, payable, call, reply, txn, late, notices>>
         /\ pay \in Payment /\ job[w] \in Job /\ job[w].at = "applied"
         /\ job' \in [Reconcilers -> Job]
         /\ \A v \in Reconcilers : job'[v] = IF v = w THEN NoJob ELSE job[v]
         /\ \/ UNCHANGED recon
            \/ recon' \in Recon /\ recon'.state = "RESOLVED" /\ job[w].terminal
            \/ recon' \in Recon /\ recon'.state = "DUE"
<1>1. UNCHANGED <<pay, events, payable, call, reply, txn, late, notices>>
  BY DEF FinishReconciliation, provider
<1>2. job[w] \in Job /\ job[w].at = "applied" /\ job[w] # NoJob
  BY DEF FinishReconciliation, Base, TypeOK, NoJob
<1>3. pay \in Payment
  BY <1>2 DEF Base, TypeOK, HasPayment
<1>4. /\ job' \in [Reconcilers -> Job]
      /\ \A v \in Reconcilers : job'[v] = IF v = w THEN NoJob ELSE job[v]
  BY Jobs, Becoming DEF FinishReconciliation, Base
<1>5. CASE UNCHANGED recon
  BY <1>1, <1>2, <1>3, <1>4, <1>5
<1>6. CASE recon' = [recon EXCEPT !.state = IF job[w].terminal THEN "RESOLVED" ELSE "DUE",
                                  !.failures = 0]
  <2>1. recon \in Recon
    BY DEF Base, TypeOK
  <2>2. CASE job[w].terminal
    <3>1. recon' = [recon EXCEPT !.state = "RESOLVED", !.failures = 0]
      BY <1>6, <2>2
    <3>2. recon' \in Recon /\ recon'.state = "RESOLVED"
      BY <2>1, <3>1, FinishedRow
    <3> QED BY <1>1, <1>2, <1>3, <1>4, <2>2, <3>2
  <2>3. CASE ~job[w].terminal
    <3>1. recon' = [recon EXCEPT !.state = "DUE", !.failures = 0]
      BY <1>6, <2>3
    <3>2. recon' \in Recon /\ recon'.state = "DUE"
      BY <2>1, <3>1, FinishedRow
    <3> QED BY <1>1, <1>2, <1>3, <1>4, <3>2
  <2> QED BY <2>2, <2>3
<1> QED BY <1>5, <1>6 DEF FinishReconciliation

LEMMA FailReconciliationEffect ==
  ASSUME Base, NEW w \in Reconcilers, FailReconciliation(w)
  PROVE  /\ UNCHANGED <<pay, events, payable, call, reply, txn, late, notices>>
         /\ pay \in Payment
         /\ job' \in [Reconcilers -> Job]
         /\ \A v \in Reconcilers : job'[v] = IF v = w THEN NoJob ELSE job[v]
         /\ \/ UNCHANGED recon
            \/ /\ recon.state = "IN_FLIGHT"
               /\ recon' \in Recon /\ recon'.state \in {"RETRY", "ALERT"}
<1>1. UNCHANGED <<pay, events, payable, call, reply, txn, late, notices>>
  BY DEF FailReconciliation, provider
<1>2. job[w] \in Job /\ job[w].at = "failing" /\ job[w] # NoJob
  BY DEF FailReconciliation, Base, TypeOK, NoJob
<1>3. pay \in Payment /\ recon \in Recon /\ job[w].failures \in 0 .. MaxFailures
  BY <1>2, JobTypes DEF Base, TypeOK, HasPayment
<1>4. /\ job' \in [Reconcilers -> Job]
      /\ \A v \in Reconcilers : job'[v] = IF v = w THEN NoJob ELSE job[v]
  BY Jobs, Becoming DEF FailReconciliation, Base
<1>5. CASE UNCHANGED recon
  BY <1>1, <1>2, <1>3, <1>4, <1>5
<1>6. CASE /\ recon.state = "IN_FLIGHT"
           /\ recon' = [recon EXCEPT !.failures = FailuresAfter(w),
                          !.state = IF FailuresAfter(w) = MaxFailures THEN "ALERT" ELSE "RETRY"]
  <2>1. FailuresAfter(w) \in 0 .. MaxFailures
    BY <1>3, MaxFailuresAssumption DEF FailuresAfter
  <2>2. CASE FailuresAfter(w) = MaxFailures
    <3>1. recon' = [recon EXCEPT !.failures = FailuresAfter(w), !.state = "ALERT"]
      BY <1>6, <2>2
    <3>2. recon' \in Recon /\ recon'.state = "ALERT"
      BY <1>3, <2>1, <3>1, FailingRow
    <3> QED BY <1>1, <1>2, <1>3, <1>4, <1>6, <3>2
  <2>3. CASE FailuresAfter(w) # MaxFailures
    <3>1. recon' = [recon EXCEPT !.failures = FailuresAfter(w), !.state = "RETRY"]
      BY <1>6, <2>3
    <3>2. recon' \in Recon /\ recon'.state = "RETRY"
      BY <1>3, <2>1, <3>1, FailingRow
    <3> QED BY <1>1, <1>2, <1>3, <1>4, <1>6, <3>2
  <2> QED BY <2>2, <2>3
<1> QED BY <1>5, <1>6 DEF FailReconciliation

LEMMA LoseJobEffect ==
  ASSUME Base, NEW w \in Reconcilers, LoseJob(w)
  PROVE  /\ UNCHANGED <<pay, recon, events, payable, call, reply, txn, late, notices>>
         /\ job' \in [Reconcilers -> Job]
         /\ \A v \in Reconcilers : job'[v] = IF v = w THEN NoJob ELSE job[v]
BY Jobs, Becoming DEF LoseJob, Base, row, provider

(* The provider, the webhooks and the order.                               *)
LEMMA WebhookEffect ==
  ASSUME Base, NEW n \in Notices, Webhook(n)
  PROVE  /\ UNCHANGED <<payable, call, reply, job, txn, late, notices>>
         /\ pay \in Payment /\ recon \in Recon /\ events \subseteq Notices
         /\ n \in notices /\ ApplyMidtransWebhook(n)
BY DEF Webhook, Base, TypeOK, provider

LEMMA ProviderEffect ==
  ASSUME Base, LateCharge \/ \E n \in Notices : ProviderMoves(n)
  PROVE  /\ UNCHANGED <<pay, recon, events, payable, call, reply, job>>
         /\ late' \in BOOLEAN /\ (late' => late)
         /\ \/ UNCHANGED <<txn, notices>>
            \/ /\ txn = "none" /\ late /\ txn' = "pending"
               /\ notices' = notices \cup {"pending"}
            \/ \E n \in Notices :
                 /\ txn' = n /\ notices' = notices \cup {n} /\ txn # "none"
                 /\ \/ n \in {"deny", "expire"}
                    \/ n = "settlement" /\ pay.qr
                    \/ n = "refund" /\ txn = "settlement"
<1>1. CASE LateCharge
  BY <1>1 DEF LateCharge, ProviderCreates, row
<1>2. ASSUME NEW n \in Notices, ProviderMoves(n)
      PROVE  /\ UNCHANGED <<pay, recon, events, payable, call, reply, job>>
             /\ late' \in BOOLEAN /\ (late' => late)
             /\ txn' = n /\ notices' = notices \cup {n} /\ txn # "none"
             /\ \/ n \in {"deny", "expire"}
                \/ n = "settlement" /\ pay.qr
                \/ n = "refund" /\ txn = "settlement"
  BY <1>2 DEF ProviderMoves, row, Base, TypeOK
<1> QED BY <1>1, <1>2

(* A step of the payment is one of these.                                  *)
LEMMA StepKinds ==
  ASSUME Next
  PROVE  \/ \E r \in Requests, key \in Keys : PrepareNew(r, key)
         \/ \E r \in Requests, key \in Keys : PrepareAgain(r, key)
         \/ \E r \in Requests : PrepareRetry(r)
         \/ \E r \in Requests : CreateQRIS(r)
         \/ \E r \in Requests : CompleteQRIS(r)
         \/ \E r \in Requests : FailQRIS(r)
         \/ \E r \in Requests : LoseRequest(r)
         \/ \E w \in Reconcilers : Claim(w)
         \/ \E w \in Reconcilers : GetStatus(w)
         \/ \E w \in Reconcilers : ApplyStatus(w)
         \/ \E w \in Reconcilers : FinishReconciliation(w)
         \/ \E w \in Reconcilers : FailReconciliation(w)
         \/ \E w \in Reconcilers : LoseJob(w)
         \/ \E n \in Notices : Webhook(n)
         \/ LateCharge \/ \E n \in Notices : ProviderMoves(n)
         \/ OrderCloses
<1>1. CASE \E r \in Requests : Charge(r)
  BY <1>1 DEF Charge
<1>2. CASE \E w \in Reconcilers : Reconcile(w)
  BY <1>2 DEF Reconcile, ClaimDueReconciliations, ClaimReconciliation
<1> QED BY <1>1, <1>2 DEF Next

LEMMA TypesStart == Init => Base
BY TypesHold DEF Init, Base, HasPayment

LEMMA BaseStep ==
  ASSUME Base, [Next]_vars
  PROVE  Base'
<1> USE DEF Base
<1>0. /\ recon \in Recon /\ pay \in {NoPayment} \cup Payment /\ events \subseteq Notices
      /\ payable \in BOOLEAN /\ late \in BOOLEAN /\ notices \subseteq Notices
      /\ txn \in Notices \cup {"none"}
      /\ call \in [Requests -> CallStates] /\ reply \in [Requests -> Reply]
      /\ job \in [Reconcilers -> Job]
  BY DEF TypeOK
<1>1. {"pending"} \subseteq Notices
  BY DEF Notices
<1>2. CASE UNCHANGED vars
  <2>1. UNCHANGED <<pay, recon, events, payable, call, reply, job, txn, late, notices>>
    BY <1>2 DEF vars
  <2> QED BY <1>0, <2>1 DEF TypeOK, HasPayment
<1>3. ASSUME NEW r \in Requests, NEW key \in Keys, PrepareNew(r, key)
      PROVE  Base'
  <2>1. recon.state = "NULL" /\ (\A s \in Requests : call[s] = "idle")
        /\ (\A w \in Reconcilers : job[w] = NoJob)
    BY <1>3, PrepareNewEffect DEF HasPayment
  <2> QED BY <1>0, <1>3, <2>1, PrepareNewEffect, NoPaymentIsNone DEF TypeOK, HasPayment
<1>4. ASSUME NEW r \in Requests, NEW key \in Keys, PrepareAgain(r, key)
      PROVE  Base'
  BY <1>0, <1>4, PrepareAgainEffect, NoPaymentIsNone DEF TypeOK, HasPayment
<1>5. ASSUME NEW r \in Requests, PrepareRetry(r)
      PROVE  Base'
  BY <1>0, <1>5, PrepareRetryEffect, NoPaymentIsNone DEF TypeOK, HasPayment
<1>6. ASSUME NEW r \in Requests, CreateQRIS(r)
      PROVE  Base'
  BY <1>0, <1>1, <1>6, CreateEffect, NoPaymentIsNone DEF TypeOK, HasPayment
<1>7. ASSUME NEW r \in Requests, CompleteQRIS(r)
      PROVE  Base'
  BY <1>0, <1>7, CompleteEffect, NoPaymentIsNone DEF TypeOK, HasPayment
<1>8. ASSUME NEW r \in Requests, FailQRIS(r)
      PROVE  Base'
  BY <1>0, <1>8, FailEffect, NoPaymentIsNone DEF TypeOK, HasPayment
<1>9. ASSUME NEW r \in Requests, LoseRequest(r)
      PROVE  Base'
  BY <1>0, <1>9, LoseRequestEffect, NoPaymentIsNone DEF TypeOK, HasPayment
<1>10. ASSUME NEW w \in Reconcilers, Claim(w)
       PROVE  Base'
  BY <1>0, <1>10, ClaimEffect, NoPaymentIsNone DEF TypeOK, HasPayment
<1>11. ASSUME NEW w \in Reconcilers, GetStatus(w)
       PROVE  Base'
  BY <1>0, <1>11, GetEffect, NoPaymentIsNone DEF TypeOK, HasPayment
<1>12. ASSUME NEW w \in Reconcilers, ApplyStatus(w)
       PROVE  Base'
  <2>1. pay' \in Payment /\ recon' \in Recon /\ events' \subseteq Notices
    BY <1>12, ApplyEffect, Notified
  <2> QED BY <1>0, <1>12, <2>1, ApplyEffect, NoPaymentIsNone DEF TypeOK, HasPayment
<1>13. ASSUME NEW w \in Reconcilers, FinishReconciliation(w)
       PROVE  Base'
  BY <1>0, <1>13, FinishEffect, NoPaymentIsNone DEF TypeOK, HasPayment
<1>14. ASSUME NEW w \in Reconcilers, FailReconciliation(w)
       PROVE  Base'
  BY <1>0, <1>14, FailReconciliationEffect, NoPaymentIsNone DEF TypeOK, HasPayment
<1>15. ASSUME NEW w \in Reconcilers, LoseJob(w)
       PROVE  Base'
  BY <1>0, <1>15, LoseJobEffect DEF TypeOK, HasPayment
<1>16. ASSUME NEW n \in Notices, Webhook(n)
       PROVE  Base'
  <2>1. pay' \in Payment /\ recon' \in Recon /\ events' \subseteq Notices
    BY <1>16, WebhookEffect, Notified
  <2> QED BY <1>0, <1>16, <2>1, WebhookEffect, NoPaymentIsNone DEF TypeOK, HasPayment
<1>17. CASE LateCharge \/ \E n \in Notices : ProviderMoves(n)
  BY <1>0, <1>1, <1>17, ProviderEffect DEF TypeOK, HasPayment
<1>18. CASE OrderCloses
  <2>1. /\ UNCHANGED <<pay, recon, events, call, reply, job, txn, late, notices>>
        /\ payable' = FALSE
    BY <1>18 DEF OrderCloses, row, provider
  <2> QED BY <1>0, <2>1 DEF TypeOK, HasPayment
<1> QED BY <1>2, <1>3, <1>4, <1>5, <1>6, <1>7, <1>8, <1>9, <1>10, <1>11, <1>12, <1>13,
           <1>14, <1>15, <1>16, <1>17, <1>18, StepKinds

(* The values of every variable stay in their sets.                        *)
THEOREM TypeCorrect == Spec => []TypeOK
<1>1. Base => TypeOK
  BY DEF Base
<1> QED BY <1>1, TypesStart, BaseStep, PTL DEF Spec

-----------------------------------------------------------------------------
(* Three kinds of step, for the invariants that follow: a notification is  *)
(* recorded, or the row of the payment and the requests are left alone, or *)
(* the step is one of a charge request.                                    *)
Recorded(n) ==
  /\ n \notin events /\ events' = events \cup {n}
  /\ pay' \in Payment /\ recon' \in Recon
  /\ pay'.qr = pay.qr /\ pay'.status = StatusAfter(n)
  /\ (Applies(n) \/ ~pay.ref) => pay'.attempt = "SUCCEEDED"
  /\ pay'.attempt \in {pay.attempt, "SUCCEEDED"}
  /\ recon'.state \in {"DUE", "RESOLVED"} /\ recon'.owner = recon.owner
  /\ (recon'.state = "RESOLVED") <=> pay'.status \notin Open

Heard ==
  /\ UNCHANGED <<call, txn, late, notices>>
  /\ pay \in Payment
  /\ \/ UNCHANGED <<pay, recon, events>>
     \/ \E n \in Notices : Recorded(n) /\ (n \in notices \/ \E w \in Reconcilers :
                                             job[w].at = "read" /\ job[w].notice = n)

LEMMA HeardSteps ==
  ASSUME Base, (\E w \in Reconcilers : ApplyStatus(w)) \/ (\E n \in Notices : Webhook(n))
  PROVE  Heard
<1>1. ASSUME NEW w \in Reconcilers, ApplyStatus(w)
      PROVE  Heard
  <2>1. CASE UNCHANGED <<pay, recon, events>>
    BY <1>1, <2>1, ApplyEffect DEF Heard
  <2>2. CASE ApplyMidtransWebhook(job[w].notice)
    <3>1. UNCHANGED <<pay, recon, events>> \/ Recorded(job[w].notice)
      BY <1>1, <2>2, ApplyEffect, Notified DEF Recorded
    <3> QED BY <1>1, <3>1, ApplyEffect DEF Heard
  <2> QED BY <1>1, <2>1, <2>2, ApplyEffect
<1>2. ASSUME NEW n \in Notices, Webhook(n)
      PROVE  Heard
  <2>1. UNCHANGED <<pay, recon, events>> \/ Recorded(n)
    BY <1>2, WebhookEffect, Notified DEF Recorded
  <2> QED BY <1>2, <2>1, WebhookEffect DEF Heard
<1> QED BY <1>1, <1>2

Aside == UNCHANGED <<pay, events, call>>

LEMMA AsideSteps ==
  ASSUME Base,
         \/ \E w \in Reconcilers : Claim(w)
         \/ \E w \in Reconcilers : GetStatus(w)
         \/ \E w \in Reconcilers : FinishReconciliation(w)
         \/ \E w \in Reconcilers : FailReconciliation(w)
         \/ \E w \in Reconcilers : LoseJob(w)
         \/ LateCharge \/ \E n \in Notices : ProviderMoves(n)
         \/ OrderCloses
         \/ UNCHANGED vars
  PROVE  Aside
<1>1. CASE LateCharge \/ \E n \in Notices : ProviderMoves(n)
  BY <1>1, ProviderEffect DEF Aside
<1>2. CASE OrderCloses
  BY <1>2 DEF OrderCloses, row, Aside
<1>3. CASE UNCHANGED vars
  BY <1>3 DEF vars, Aside
<1> QED BY <1>1, <1>2, <1>3, ClaimEffect, GetEffect, FinishEffect, FailReconciliationEffect,
           LoseJobEffect DEF Aside

(* One request at a time is past the advisory lock, and what it has done   *)
(* to the attempt tells where it is.                                       *)
Charging == {"charging", "charged", "failed", "rejected"}

Callers ==
  /\ OneChargeAtATime
  /\ \A r \in Requests : call[r] \in Charging => pay.attempt \in {"IN_FLIGHT", "SUCCEEDED"}
  /\ \A r \in Requests : call[r] = "retrying" => pay.attempt \in {"UNKNOWN", "SUCCEEDED"}

LEMMA CallersStart == Init => Callers
BY DEF Init, Callers, OneChargeAtATime, Charging

LEMMA CallersStep ==
  ASSUME Base, Callers, [Next]_vars
  PROVE  Callers'
<1> USE DEF Callers, OneChargeAtATime
<1>0. \A r \in Requests : call[r] \in {"idle", "retrying"} \cup Charging
  BY DEF Base, TypeOK, CallStates, Charging
<1>1. CASE Aside
  BY <1>1 DEF Aside
<1>2. CASE Heard
  BY <1>2 DEF Heard, Recorded
<1>3. ASSUME NEW r \in Requests, NEW key \in Keys, PrepareNew(r, key)
      PROVE  Callers'
  <2>1. \A s \in Requests : call[s] = "idle"
    BY <1>3, PrepareNewEffect DEF Base, HasPayment
  <2> QED BY <1>3, <2>1, PrepareNewEffect DEF Charging
<1>4. ASSUME NEW r \in Requests, NEW key \in Keys, PrepareAgain(r, key)
      PROVE  Callers'
  <2>1. CASE \A s \in Requests : call'[s] = IF s = r THEN "idle" ELSE call[s]
    BY <1>4, <2>1, PrepareAgainEffect DEF Charging
  <2>2. CASE /\ pay.attempt = "UNKNOWN"
             /\ \A s \in Requests : call'[s] = IF s = r THEN "retrying" ELSE call[s]
    <3>1. \A s \in Requests : call[s] = "idle"
      BY <1>0, <1>4, <2>2, PrepareAgainEffect DEF QrisLocked
    <3> QED BY <1>4, <2>2, <3>1, PrepareAgainEffect DEF Charging
  <2> QED BY <1>4, <2>1, <2>2, PrepareAgainEffect
<1>5. ASSUME NEW r \in Requests, PrepareRetry(r)
      PROVE  Callers'
  <2>1. \A s \in Requests : s # r => call[s] = "idle"
    BY <1>5, PrepareRetryEffect
  <2> QED BY <1>5, <2>1, PrepareRetryEffect DEF Charging
<1>6. ASSUME NEW r \in Requests, CreateQRIS(r)
      PROVE  Callers'
  <2>1. \A s \in Requests : s # r => call[s] = "idle"
    BY <1>6, CreateEffect
  <2>2. UNCHANGED pay /\ call[r] = "charging"
    BY <1>6, CreateEffect
  <2>3. pay.attempt \in {"IN_FLIGHT", "SUCCEEDED"}
    BY <2>2 DEF Charging
  <2>4. \A s \in Requests : s # r => call'[s] = "idle"
    BY <1>6, <2>1, CreateEffect
  <2>5. call'[r] \in Charging
    BY <1>6, CreateEffect DEF Charging
  <2>6. call'[r] # "retrying"
    BY <2>5 DEF Charging
  <2> QED BY <2>2, <2>3, <2>4, <2>6 DEF Charging
<1>7. ASSUME NEW r \in Requests, CompleteQRIS(r) \/ FailQRIS(r)
      PROVE  Callers'
  <2>1. call[r] # "idle" /\ \A s \in Requests : call'[s] = IF s = r THEN "idle" ELSE call[s]
    BY <1>7, CompleteEffect, FailEffect
  <2>2. \A s \in Requests : s # r => call[s] = "idle"
    BY <2>1
  <2>3. \A s \in Requests : call'[s] = "idle"
    BY <2>1, <2>2
  <2> QED BY <2>3 DEF Charging
<1>8. ASSUME NEW r \in Requests, LoseRequest(r)
      PROVE  Callers'
  BY <1>8, LoseRequestEffect DEF Charging
<1> QED BY <1>1, <1>2, <1>3, <1>4, <1>5, <1>6, <1>7, <1>8, StepKinds, AsideSteps, HeardSteps

(* Whatever the requests, webhooks and reconcilers of however many servers *)
(* do, one charge at a time is under way for the payment.                  *)
THEOREM NeverTwoCharges == Spec => []OneChargeAtATime
<1>1. Init => Base /\ Callers
  BY TypesStart, CallersStart
<1>2. Base /\ Callers /\ [Next]_vars => (Base /\ Callers)'
  BY BaseStep, CallersStep
<1>3. Base /\ Callers => OneChargeAtATime
  BY DEF Callers
<1> QED BY <1>1, <1>2, <1>3, PTL DEF Spec

(* The worker only has what is open: every transaction that settles the    *)
(* payment also resolves it.                                               *)
LEMMA PursuedStep ==
  ASSUME Base, OnlyOpenIsPursued, [Next]_vars
  PROVE  OnlyOpenIsPursued'
<1> USE DEF OnlyOpenIsPursued
<1>1. CASE UNCHANGED <<pay, recon>>
  BY <1>1
<1>2. CASE Heard
  BY <1>2 DEF Heard, Recorded
<1>3. ASSUME NEW r \in Requests, NEW key \in Keys, PrepareNew(r, key)
      PROVE  OnlyOpenIsPursued'
  BY <1>3, PrepareNewEffect DEF Base, HasPayment
<1>4. ASSUME NEW r \in Requests, PrepareRetry(r)
      PROVE  OnlyOpenIsPursued'
  BY <1>4, PrepareRetryEffect
<1>5. ASSUME NEW r \in Requests, CompleteQRIS(r) \/ FailQRIS(r)
      PROVE  OnlyOpenIsPursued'
  BY <1>5, CompleteEffect, FailEffect
<1>6. ASSUME NEW w \in Reconcilers, Claim(w)
      PROVE  OnlyOpenIsPursued'
  BY <1>6, ClaimEffect
<1>7. ASSUME NEW w \in Reconcilers, FinishReconciliation(w)
      PROVE  OnlyOpenIsPursued'
  BY <1>7, FinishEffect
<1>8. ASSUME NEW w \in Reconcilers, FailReconciliation(w)
      PROVE  OnlyOpenIsPursued'
  BY <1>8, FailReconciliationEffect
<1>9. CASE \E r \in Requests : (\E key \in Keys : PrepareAgain(r, key)) \/ LoseRequest(r)
  BY <1>1, <1>9, PrepareAgainEffect, LoseRequestEffect
<1>10. CASE \E r \in Requests : CreateQRIS(r)
  BY <1>1, <1>10, CreateEffect
<1>11. CASE \E w \in Reconcilers : GetStatus(w) \/ LoseJob(w)
  BY <1>1, <1>11, GetEffect, LoseJobEffect
<1>12. CASE LateCharge \/ \E n \in Notices : ProviderMoves(n)
  BY <1>1, <1>12, ProviderEffect
<1>13. CASE OrderCloses \/ UNCHANGED vars
  BY <1>1, <1>13 DEF OrderCloses, row, vars
<1> QED BY <1>2, <1>3, <1>4, <1>5, <1>6, <1>7, <1>8, <1>9, <1>10, <1>11, <1>12, <1>13,
           StepKinds, HeardSteps

(* Reconciliation never holds, or raises an alert about, a payment that is *)
(* settled.                                                                *)
THEOREM SettledIsLeftAlone == Spec => []OnlyOpenIsPursued
<1>1. Init => Base /\ OnlyOpenIsPursued
  BY TypesStart DEF Init, OnlyOpenIsPursued
<1>2. Base /\ OnlyOpenIsPursued /\ [Next]_vars => (Base /\ OnlyOpenIsPursued)'
  BY BaseStep, PursuedStep
<1> QED BY <1>1, <1>2, PTL DEF Spec

-----------------------------------------------------------------------------
(* What can be known before the provider knows the charge: nothing has     *)
(* been heard of it, and only a charge request has written the row.        *)
Early ==
  /\ notices = {} /\ events = {}
  /\ \A w \in Reconcilers : job[w].at \notin {"read", "applied"}
  /\ pay # NoPayment => /\ ~pay.ref /\ ~pay.qr
                        /\ \/ pay.status = "UNPAID" /\ pay.attempt \in {"IN_FLIGHT", "UNKNOWN"}
                           \/ pay.status = "FAILED" /\ pay.attempt = "PERMANENT_FAILURE"

Known ==
  /\ txn = "none" => Early
  /\ txn # "none" => txn \in notices
  /\ txn # "none" \/ late => pay # NoPayment
  /\ \A r \in Requests : call[r] = "charged" => txn # "none"
  /\ \A w \in Reconcilers : job[w].at = "read" => job[w].notice \in notices

LEMMA KnownStart == Init => Known
BY DEF Init, Known, Early, NoJob

(* The steps that touch neither the row nor the provider.                  *)
LEMMA KnownKept ==
  ASSUME Base, Known, UNCHANGED <<pay, events, txn, notices>>, late' => late \/ pay # NoPayment,
         \A r \in Requests : call'[r] = "charged" => call[r] = "charged",
         \A w \in Reconcilers : job'[w].at \in {"read", "applied"} =>
           \/ job'[w] = job[w]
           \/ txn # "none" /\ (job'[w].at = "read" => job'[w].notice \in notices)
  PROVE  Known'
BY DEF Known, Early

LEMMA KnownStep ==
  ASSUME Base, Callers, Known, [Next]_vars
  PROVE  Known'
<1>1. ASSUME NEW r \in Requests, NEW key \in Keys, PrepareNew(r, key)
      PROVE  Known'
  BY <1>1, PrepareNewEffect, NoPaymentIsNone DEF Known, Early
<1>2. ASSUME NEW r \in Requests, NEW key \in Keys, PrepareAgain(r, key)
      PROVE  Known'
  BY <1>2, PrepareAgainEffect, KnownKept
<1>3. ASSUME NEW r \in Requests, PrepareRetry(r)
      PROVE  Known'
  <2>1. pay.attempt \in {"UNKNOWN", "SUCCEEDED"}
    BY <1>3, PrepareRetryEffect DEF Callers
  <2> QED BY <1>3, <2>1, PrepareRetryEffect, NoPaymentIsNone DEF Known, Early
<1>4. ASSUME NEW r \in Requests, CreateQRIS(r)
      PROVE  Known'
  <2>1. pay # NoPayment
    BY <1>4, CreateEffect, NoPaymentIsNone
  <2>2. CASE UNCHANGED <<txn, notices>>
    BY <1>4, <2>1, <2>2, CreateEffect DEF Known, Early
  <2>3. CASE txn = "none" /\ txn' = "pending" /\ notices' = notices \cup {"pending"}
    BY <1>4, <2>1, <2>3, CreateEffect DEF Known, Early
  <2> QED BY <1>4, <2>2, <2>3, CreateEffect
<1>5. ASSUME NEW r \in Requests, CompleteQRIS(r)
      PROVE  Known'
  <2>1. txn # "none"
    BY <1>5, CompleteEffect DEF Known
  <2>2. pay' # NoPayment
    BY <1>5, CompleteEffect, NoPaymentIsNone
  <2>3. /\ UNCHANGED <<job, txn, late, notices>>
        /\ \A s \in Requests : call'[s] \in {"idle", call[s]}
    BY <1>5, CompleteEffect
  <2> QED BY <2>1, <2>2, <2>3 DEF Known
<1>6. ASSUME NEW r \in Requests, FailQRIS(r)
      PROVE  Known'
  BY <1>6, FailEffect, NoPaymentIsNone DEF Known, Early
<1>7. ASSUME NEW r \in Requests, LoseRequest(r)
      PROVE  Known'
  BY <1>7, LoseRequestEffect, KnownKept
<1>8. ASSUME NEW w \in Reconcilers, Claim(w)
      PROVE  Known'
  BY <1>8, ClaimEffect, KnownKept
<1>9. ASSUME NEW w \in Reconcilers, GetStatus(w)
      PROVE  Known'
  BY <1>9, GetEffect, KnownKept DEF Known
<1>10. ASSUME NEW w \in Reconcilers, ApplyStatus(w)
       PROVE  Known'
  <2>1. txn # "none" /\ UNCHANGED <<txn, late, notices, call>>
    BY <1>10, ApplyEffect DEF Known, Early
  <2>2. pay' # NoPayment
    BY <1>10, ApplyEffect, Notified, NoPaymentIsNone
  <2> QED BY <1>10, <2>1, <2>2, ApplyEffect DEF Known
<1>11. ASSUME NEW w \in Reconcilers, FinishReconciliation(w) \/ FailReconciliation(w) \/ LoseJob(w)
       PROVE  Known'
  <2>1. UNCHANGED <<pay, events, call, txn, late, notices>>
    BY <1>11, FinishEffect, FailReconciliationEffect, LoseJobEffect
  <2>2. \A v \in Reconcilers : job'[v] = job[v] \/ job'[v].at = "idle"
    BY <1>11, FinishEffect, FailReconciliationEffect, LoseJobEffect DEF NoJob
  <2> QED BY <2>1, <2>2, KnownKept
<1>12. ASSUME NEW n \in Notices, Webhook(n)
       PROVE  Known'
  <2>1. txn # "none" /\ UNCHANGED <<txn, late, notices, call, job>>
    BY <1>12, WebhookEffect DEF Known, Early
  <2>2. pay' # NoPayment
    BY <1>12, WebhookEffect, Notified, NoPaymentIsNone
  <2> QED BY <1>12, <2>1, <2>2 DEF Known
<1>13. CASE LateCharge \/ \E n \in Notices : ProviderMoves(n)
  <2>1. UNCHANGED <<pay, recon, events, payable, call, reply, job>> /\ (late' => late)
    BY <1>13, ProviderEffect
  <2>2. \/ UNCHANGED <<txn, notices>>
        \/ txn' # "none" /\ pay # NoPayment /\ txn' \in notices' /\ notices \subseteq notices'
    BY <1>13, ProviderEffect DEF Known, Notices
  <2> QED BY <2>1, <2>2 DEF Known, Early
<1>14. CASE OrderCloses \/ UNCHANGED vars
  <2>1. UNCHANGED <<pay, recon, events, call, reply, job, txn, late, notices>>
    BY <1>14 DEF OrderCloses, row, provider, vars
  <2> QED BY <2>1, KnownKept
<1> QED BY <1>1, <1>2, <1>3, <1>4, <1>5, <1>6, <1>7, <1>8, <1>9, <1>10, <1>11, <1>12,
           <1>13, <1>14, StepKinds

(* A charge that the provider has accepted, and whose request still has to *)
(* say so, finds the row as it left it.                                    *)
Charged ==
  \A r \in Requests : call[r] = "charged" /\ pay.attempt = "IN_FLIGHT" =>
    /\ pay.status = "UNPAID" /\ ~pay.ref /\ events = {}
    /\ \A w \in Reconcilers : job[w].at # "applied"

(* A code is handed out once, by the request that made the charge, and     *)
(* nothing is paid before.                                                 *)
Code ==
  /\ pay # NoPayment /\ pay.qr => /\ pay.attempt = "SUCCEEDED"
                                  /\ \A r \in Requests : call[r] = "idle"
  /\ notices \cap {"settlement", "refund"} # {} => pay # NoPayment /\ pay.qr
  /\ pay # NoPayment /\ pay.status \in {"PAID", "REFUNDED"} => pay.qr

LEMMA ChargedStart == Init => Charged /\ Code
BY DEF Init, Charged, Code

LEMMA ChargedStep ==
  ASSUME Base, Callers, Known, Charged, [Next]_vars
  PROVE  Charged'
<1> USE DEF Charged
<1>0. \A r, s \in Requests : r = s \/ call[r] = "idle" \/ call[s] = "idle"
  BY DEF Callers, OneChargeAtATime
<1>1. ASSUME NEW r \in Requests, NEW key \in Keys, PrepareNew(r, key)
      PROVE  Charged'
  <2>1. \A s \in Requests : call[s] = "idle"
    BY <1>1, PrepareNewEffect DEF Base, HasPayment
  <2> QED BY <1>1, <2>1, PrepareNewEffect
<1>2. ASSUME NEW r \in Requests, NEW key \in Keys, PrepareAgain(r, key)
      PROVE  Charged'
  BY <1>2, PrepareAgainEffect
<1>3. ASSUME NEW r \in Requests, PrepareRetry(r)
      PROVE  Charged'
  <2>1. \A s \in Requests : s # r => call[s] = "idle"
    BY <1>0, <1>3, PrepareRetryEffect
  <2> QED BY <1>3, <2>1, PrepareRetryEffect
<1>4. ASSUME NEW r \in Requests, CreateQRIS(r)
      PROVE  Charged'
  <2>1. \A s \in Requests : s # r => call[s] = "idle"
    BY <1>0, <1>4, CreateEffect
  <2>2. call'[r] = "charged" => Early /\ pay # NoPayment
    BY <1>4, CreateEffect, NoPaymentIsNone DEF Known
  <2>3. UNCHANGED <<pay, events, job>> /\ \A s \in Requests : s # r => call'[s] = call[s]
    BY <1>4, CreateEffect
  <2> QED BY <2>1, <2>2, <2>3 DEF Early
<1>5. ASSUME NEW r \in Requests, CompleteQRIS(r) \/ FailQRIS(r)
      PROVE  Charged'
  <2>1. \A s \in Requests : s # r => call[s] = "idle"
    BY <1>0, <1>5, CompleteEffect, FailEffect
  <2>2. \A s \in Requests : call'[s] = "idle"
    BY <1>5, <2>1, CompleteEffect, FailEffect
  <2> QED BY <2>2
<1>6. ASSUME NEW r \in Requests, LoseRequest(r)
      PROVE  Charged'
  BY <1>6, LoseRequestEffect
<1>7. CASE Heard /\ (UNCHANGED job \/ \E w \in Reconcilers : ApplyStatus(w))
  <2>1. SUFFICES ASSUME NEW r \in Requests, call'[r] = "charged", pay'.attempt = "IN_FLIGHT"
                 PROVE  /\ pay'.status = "UNPAID" /\ ~pay'.ref /\ events' = {}
                        /\ \A w \in Reconcilers : job'[w].at # "applied"
    OBVIOUS
  <2>2. call[r] = "charged" /\ pay.attempt = "IN_FLIGHT" /\ UNCHANGED <<pay, events>>
    BY <1>7, <2>1 DEF Heard, Recorded
  <2>3. ASSUME NEW w \in Reconcilers, ApplyStatus(w)
        PROVE  \A v \in Reconcilers : job'[v].at # "applied"
    <3>1. job'[w].at # "applied"
      <4>1. CASE ApplyMidtransWebhook(job[w].notice)
        <5>1. job[w].notice \in events
          BY <2>2, <2>3, <4>1, ApplyEffect, Notified
        <5> QED BY <2>2, <5>1
      <4> QED BY <2>3, <4>1, ApplyEffect
    <3> QED BY <2>2, <2>3, <3>1, ApplyEffect
  <2> QED BY <1>7, <2>2, <2>3
<1>8. CASE Aside /\ \A w \in Reconcilers : job'[w].at = "applied" => job[w].at = "applied"
  BY <1>8 DEF Aside
<1>9. ASSUME NEW w \in Reconcilers,
             \/ Claim(w) \/ GetStatus(w) \/ FinishReconciliation(w) \/ FailReconciliation(w)
             \/ LoseJob(w)
      PROVE  Aside /\ \A v \in Reconcilers : job'[v].at = "applied" => job[v].at = "applied"
  <2>1. NoJob.at # "applied"
    BY DEF NoJob
  <2> QED BY <1>9, <2>1, ClaimEffect, GetEffect, FinishEffect, FailReconciliationEffect,
             LoseJobEffect, AsideSteps
<1>10. CASE (LateCharge \/ \E n \in Notices : ProviderMoves(n)) \/ OrderCloses \/ UNCHANGED vars
  <2>1. UNCHANGED job
    BY <1>10, ProviderEffect DEF OrderCloses, vars
  <2> QED BY <1>8, <1>10, <2>1, AsideSteps
<1>11. CASE \E n \in Notices : Webhook(n)
  BY <1>7, <1>11, HeardSteps, WebhookEffect
<1>12. CASE \E w \in Reconcilers : ApplyStatus(w)
  BY <1>7, <1>12, HeardSteps
<1> QED BY <1>1, <1>2, <1>3, <1>4, <1>5, <1>6, <1>8, <1>9, <1>10, <1>11, <1>12, StepKinds

LEMMA CodeStep ==
  ASSUME Base, Callers, Known, Charged, Code, [Next]_vars
  PROVE  Code'
<1> USE DEF Code
<1>0. \A r, s \in Requests : r = s \/ call[r] = "idle" \/ call[s] = "idle"
  BY DEF Callers, OneChargeAtATime
<1>1. ASSUME NEW r \in Requests, NEW key \in Keys, PrepareNew(r, key)
      PROVE  Code'
  BY <1>1, PrepareNewEffect, NoPaymentIsNone
<1>2. ASSUME NEW r \in Requests, NEW key \in Keys, PrepareAgain(r, key)
      PROVE  Code'
  BY <1>2, PrepareAgainEffect, NoPaymentIsNone
<1>3. ASSUME NEW r \in Requests, PrepareRetry(r)
      PROVE  Code'
  BY <1>3, PrepareRetryEffect, NoPaymentIsNone
<1>4. ASSUME NEW r \in Requests, CreateQRIS(r)
      PROVE  Code'
  BY <1>4, CreateEffect, NoPaymentIsNone
<1>5. ASSUME NEW r \in Requests, CompleteQRIS(r)
      PROVE  Code'
  <2>1. \A s \in Requests : call'[s] = "idle"
    BY <1>0, <1>5, CompleteEffect
  <2> QED BY <1>5, <2>1, CompleteEffect, NoPaymentIsNone
<1>6. ASSUME NEW r \in Requests, FailQRIS(r)
      PROVE  Code'
  BY <1>6, FailEffect, NoPaymentIsNone
<1>7. ASSUME NEW r \in Requests, LoseRequest(r)
      PROVE  Code'
  BY <1>7, LoseRequestEffect
<1>8. CASE UNCHANGED <<pay, call, notices>>
  BY <1>8
<1>9. CASE Heard
  <2>1. CASE UNCHANGED pay
    BY <1>9, <2>1 DEF Heard
  <2>2. ASSUME NEW n \in Notices, Recorded(n), n \in notices
        PROVE  Code'
    <3>1. pay \in Payment /\ pay' \in Payment /\ pay'.qr = pay.qr
          /\ UNCHANGED <<call, notices>> /\ pay'.status = StatusAfter(n)
          /\ pay'.attempt \in {pay.attempt, "SUCCEEDED"}
      BY <1>9, <2>2 DEF Heard, Recorded
    <3>2. pay'.status \in {"PAID", "REFUNDED"} => pay.qr
      BY <2>2, <3>1, Mapped, NoPaymentIsNone DEF StatusAfter
    <3> QED BY <3>1, <3>2, NoPaymentIsNone
  <2> QED BY <1>9, <2>1, <2>2 DEF Heard, Known
<1>10. CASE LateCharge \/ \E n \in Notices : ProviderMoves(n)
  <2>1. UNCHANGED <<pay, call>>
    BY <1>10, ProviderEffect
  <2>2. notices' \cap {"settlement", "refund"} # {} =>
          \/ notices \cap {"settlement", "refund"} # {}
          \/ pay.qr /\ pay # NoPayment
    BY <1>10, ProviderEffect DEF Known
  <2> QED BY <2>1, <2>2
<1>11. CASE OrderCloses \/ UNCHANGED vars
  BY <1>8, <1>11 DEF OrderCloses, row, provider, vars
<1>12. ASSUME NEW w \in Reconcilers,
              \/ Claim(w) \/ GetStatus(w) \/ FinishReconciliation(w) \/ FailReconciliation(w)
              \/ LoseJob(w)
       PROVE  Code'
  BY <1>8, <1>12, ClaimEffect, GetEffect, FinishEffect, FailReconciliationEffect, LoseJobEffect
<1> QED BY <1>1, <1>2, <1>3, <1>4, <1>5, <1>6, <1>7, <1>9, <1>10, <1>11, <1>12, StepKinds,
           HeardSteps

-----------------------------------------------------------------------------
(* A reconciliation that has applied the outcome of a code remembers that  *)
(* the payment is decided, which nothing undoes.                           *)
Decided ==
  \A w \in Reconcilers :
    job[w].at = "applied" /\ job[w].terminal /\ pay.qr => pay.status \notin Open

Sure == Base /\ Callers /\ Known /\ Charged /\ Code

LEMMA SureStart == Init => Sure
BY TypesStart, CallersStart, KnownStart, ChargedStart DEF Sure

LEMMA SureStep ==
  ASSUME Sure, [Next]_vars
  PROVE  Sure'
BY BaseStep, CallersStep, KnownStep, ChargedStep, CodeStep DEF Sure

(* With a code handed out no charge request writes the row any more.       *)
LEMMA NoRequestAfterCode ==
  ASSUME Sure, pay # NoPayment, pay.qr
  PROVE  \A r \in Requests : /\ ~PrepareRetry(r) /\ ~CreateQRIS(r)
                             /\ ~CompleteQRIS(r) /\ ~FailQRIS(r)
BY PrepareRetryEffect, CreateEffect, CompleteEffect, FailEffect DEF Sure, Code

(* A notification never reopens a payment.                                 *)
LEMMA RecordedRises ==
  ASSUME pay \in Payment, NEW n \in Notices, Recorded(n)
  PROVE  /\ pay'.status \in Statuses
         /\ pay.status \notin Open => pay'.status \notin Open
         /\ pay.status = "PAID" => pay'.status \in {"PAID", "REFUNDED"}
         /\ pay.status = "REFUNDED" => pay'.status = "REFUNDED"
<1>1. pay.status \in Statuses
  BY DEF Payment
<1>2. pay'.status = StatusAfter(n)
  BY DEF Recorded
<1>3. CASE n \notin events /\ Applies(n)
  BY <1>1, <1>2, <1>3, Mapped, Rising DEF StatusAfter, Applies
<1>4. CASE ~(n \notin events /\ Applies(n))
  BY <1>1, <1>2, <1>4 DEF StatusAfter
<1> QED BY <1>3, <1>4

LEMMA DecidedStep ==
  ASSUME Sure, Decided, [Next]_vars
  PROVE  Decided'
<1> USE DEF Decided
<1>0. Base
  BY DEF Sure
<1>1. ASSUME NEW r \in Requests, NEW key \in Keys, PrepareNew(r, key)
      PROVE  Decided'
  <2>1. \A w \in Reconcilers : job[w] = NoJob
    BY <1>0, <1>1, PrepareNewEffect DEF Base, HasPayment
  <2>2. NoJob.at = "idle"
    BY DEF NoJob
  <2> QED BY <1>0, <1>1, <2>1, <2>2, PrepareNewEffect
<1>2. ASSUME NEW r \in Requests, PrepareRetry(r)
      PROVE  Decided'
  BY <1>0, <1>2, PrepareRetryEffect
<1>3. ASSUME NEW r \in Requests, CompleteQRIS(r)
      PROVE  Decided'
  <2>1. CASE pay.attempt = "IN_FLIGHT"
    <3>1. \A w \in Reconcilers : job'[w].at # "applied"
      BY <1>0, <1>3, <2>1, CompleteEffect DEF Sure, Charged
    <3> QED BY <3>1
  <2>2. CASE pay.attempt # "IN_FLIGHT"
    BY <1>0, <1>3, <2>2, CompleteEffect
  <2> QED BY <2>1, <2>2
<1>4. ASSUME NEW r \in Requests, FailQRIS(r)
      PROVE  Decided'
  <2>1. pay # NoPayment /\ ~pay.qr
    BY <1>0, <1>4, FailEffect, NoPaymentIsNone, NoRequestAfterCode
  <2>2. UNCHANGED job /\ (UNCHANGED pay \/ pay'.qr = pay.qr)
    BY <1>0, <1>4, FailEffect
  <2> QED BY <2>1, <2>2
<1>5. CASE UNCHANGED <<pay, job>>
  BY <1>5
<1>6. CASE UNCHANGED pay /\ \A w \in Reconcilers : job'[w] = job[w] \/ job'[w].at # "applied"
  BY <1>6
<1>7. CASE \E r \in Requests : (\E key \in Keys : PrepareAgain(r, key)) \/ CreateQRIS(r)
                               \/ LoseRequest(r)
  BY <1>0, <1>5, <1>7, PrepareAgainEffect, CreateEffect, LoseRequestEffect
<1>8. ASSUME NEW w \in Reconcilers,
             \/ Claim(w) \/ GetStatus(w) \/ FinishReconciliation(w) \/ FailReconciliation(w)
             \/ LoseJob(w)
      PROVE  Decided'
  <2>1. NoJob.at # "applied"
    BY DEF NoJob
  <2> QED BY <1>0, <1>6, <1>8, <2>1, ClaimEffect, GetEffect, FinishEffect,
             FailReconciliationEffect, LoseJobEffect
<1>9. ASSUME NEW n \in Notices, Webhook(n)
      PROVE  Decided'
  <2>1. CASE UNCHANGED pay
    BY <1>0, <1>9, <2>1, WebhookEffect
  <2>2. CASE Recorded(n)
    BY <1>0, <1>9, <2>2, WebhookEffect, RecordedRises DEF Recorded
  <2> QED BY <1>0, <1>9, <2>1, <2>2, WebhookEffect, Notified DEF Recorded
<1>10. ASSUME NEW w \in Reconcilers, ApplyStatus(w)
       PROVE  Decided'
  <2>1. CASE UNCHANGED pay /\ job'[w].at = "failing"
    BY <1>0, <1>10, <2>1, ApplyEffect
  <2>2. CASE ApplyMidtransWebhook(job[w].notice)
             /\ (job'[w].terminal <=> StatusAfter(job[w].notice) \notin Open)
    <3>1. CASE job[w].notice \in events /\ UNCHANGED pay
      <4>1. StatusAfter(job[w].notice) = pay'.status
        BY <3>1 DEF StatusAfter
      <4> QED BY <1>0, <1>10, <2>2, <3>1, <4>1, ApplyEffect
    <3>2. CASE Recorded(job[w].notice)
      <4>1. /\ pay'.status = StatusAfter(job[w].notice) /\ pay'.qr = pay.qr
            /\ pay.status \notin Open => pay'.status \notin Open
        BY <1>0, <1>10, <3>2, ApplyEffect, RecordedRises DEF Recorded
      <4> QED BY <1>0, <1>10, <2>2, <4>1, ApplyEffect
    <3> QED BY <1>0, <1>10, <2>2, <3>1, <3>2, ApplyEffect, Notified DEF Recorded
  <2> QED BY <1>0, <1>10, <2>1, <2>2, ApplyEffect
<1>11. CASE (LateCharge \/ \E n \in Notices : ProviderMoves(n)) \/ OrderCloses \/ UNCHANGED vars
  BY <1>0, <1>5, <1>11, ProviderEffect DEF OrderCloses, row, vars
<1> QED BY <1>1, <1>2, <1>3, <1>4, <1>7, <1>8, <1>9, <1>10, <1>11, StepKinds

LEMMA ResolvedStep ==
  ASSUME Sure, Decided, ResolvedIsTerminal, [Next]_vars
  PROVE  ResolvedIsTerminal'
<1> USE DEF ResolvedIsTerminal, Terminal
<1>0. Base
  BY DEF Sure
<1>1. ASSUME NEW r \in Requests, NEW key \in Keys, PrepareNew(r, key)
      PROVE  ResolvedIsTerminal'
  BY <1>0, <1>1, PrepareNewEffect
<1>2. ASSUME NEW r \in Requests, PrepareRetry(r) \/ CompleteQRIS(r)
      PROVE  ResolvedIsTerminal'
  BY <1>0, <1>2, PrepareRetryEffect, CompleteEffect, NoPaymentIsNone
<1>3. ASSUME NEW r \in Requests, FailQRIS(r)
      PROVE  ResolvedIsTerminal'
  <2>1. pay # NoPayment /\ ~pay.qr
    BY <1>0, <1>3, FailEffect, NoPaymentIsNone, NoRequestAfterCode
  <2> QED BY <1>0, <1>3, <2>1, FailEffect
<1>4. CASE UNCHANGED <<pay, recon>>
  BY <1>4
<1>5. CASE \E r \in Requests : (\E key \in Keys : PrepareAgain(r, key)) \/ CreateQRIS(r)
                               \/ LoseRequest(r)
  BY <1>0, <1>4, <1>5, PrepareAgainEffect, CreateEffect, LoseRequestEffect
<1>6. ASSUME NEW w \in Reconcilers, Claim(w) \/ FailReconciliation(w)
      PROVE  ResolvedIsTerminal'
  BY <1>0, <1>6, ClaimEffect, FailReconciliationEffect
<1>7. ASSUME NEW w \in Reconcilers, FinishReconciliation(w)
      PROVE  ResolvedIsTerminal'
  <2>1. job[w].terminal => pay.status \notin Open \/ ~pay.qr
    BY <1>0, <1>7, FinishEffect DEF Decided
  <2> QED BY <1>0, <1>7, <2>1, FinishEffect
<1>8. CASE \E w \in Reconcilers : GetStatus(w) \/ LoseJob(w)
  BY <1>0, <1>4, <1>8, GetEffect, LoseJobEffect
<1>9. CASE Heard
  BY <1>4, <1>9, NoPaymentIsNone DEF Heard, Recorded
<1>10. CASE (LateCharge \/ \E n \in Notices : ProviderMoves(n)) \/ OrderCloses \/ UNCHANGED vars
  BY <1>0, <1>4, <1>10, ProviderEffect DEF OrderCloses, row, vars
<1> QED BY <1>0, <1>1, <1>2, <1>3, <1>5, <1>6, <1>7, <1>8, <1>9, <1>10, StepKinds, HeardSteps

(* Reconciliation gives up no payment whose code was handed out before the *)
(* provider has decided it.                                                *)
THEOREM ResolvedIsDecided == Spec => []ResolvedIsTerminal
<1>1. Init => Sure /\ Decided /\ ResolvedIsTerminal
  BY SureStart DEF Init, Decided, ResolvedIsTerminal, NoJob
<1>2. Sure /\ Decided /\ ResolvedIsTerminal /\ [Next]_vars => (Sure /\ Decided /\ ResolvedIsTerminal)'
  BY SureStep, DecidedStep, ResolvedStep
<1> QED BY <1>1, <1>2, PTL DEF Spec

-----------------------------------------------------------------------------
(* The payment keeps the promise of PaymentLedger.                         *)
Settlement ==
  CASE pay.status = "NONE" -> "NONE"
    [] pay.status \in {"UNPAID", "PENDING_PAYMENT", "FAILED", "EXPIRED"} -> "OPEN"
    [] pay.status \in {"PAID", "REFUNDED"} -> pay.status

Meaning ==
  /\ pay = NoPayment => Settlement = "NONE"
  /\ pay # NoPayment /\ pay.status \notin {"PAID", "REFUNDED"} => Settlement = "OPEN"
  /\ pay # NoPayment /\ pay.status = "PAID" => Settlement = "PAID"
  /\ pay # NoPayment /\ pay.status = "REFUNDED" => Settlement = "REFUNDED"

LEMMA SettlementIs == TypeOK => Meaning
<1> SUFFICES ASSUME TypeOK
             PROVE  Meaning
  OBVIOUS
<1>1. CASE pay = NoPayment
  <2>1. pay.status = "NONE"
    BY <1>1 DEF NoPayment
  <2> QED BY <1>1, <2>1 DEF Settlement, Meaning
<1>2. CASE pay \in Payment
  <2>1. pay.status \in Statuses
    BY <1>2 DEF Payment
  <2> QED BY <1>2, <2>1, NoPaymentIsNone DEF Settlement, Statuses, Meaning
<1> QED BY <1>1, <1>2 DEF TypeOK

Promise ==
  \/ Settlement' = Settlement
  \/ Settlement = "NONE" /\ Settlement' = "OPEN"
  \/ Settlement = "OPEN" /\ Settlement' = "PAID"
  \/ Settlement \in {"OPEN", "PAID"} /\ Settlement' = "REFUNDED"

LEMMA LedgerStep ==
  ASSUME Sure, [Next]_vars
  PROVE  Promise
<1>0. Base /\ TypeOK
  BY DEF Sure, Base
<1>a. Meaning
  BY <1>0, SettlementIs
<1>b. Meaning'
  <2>1. TypeOK'
    BY <1>0, BaseStep DEF Base
  <2> QED BY <2>1, SettlementIs, PTL
<1>1. CASE UNCHANGED pay
  BY <1>1 DEF Promise, Settlement
<1>2. ASSUME NEW r \in Requests, NEW key \in Keys, PrepareNew(r, key)
      PROVE  Promise
  <2>1. CASE pay' \in Payment /\ pay'.status = "UNPAID"
    <3>1. pay = NoPayment /\ pay' # NoPayment
      BY <1>0, <1>2, <2>1, PrepareNewEffect, NoPaymentIsNone
    <3> QED BY <1>a, <1>b, <2>1, <3>1 DEF Meaning, Promise
  <2> QED BY <1>0, <1>1, <1>2, <2>1, PrepareNewEffect
<1>3. ASSUME NEW r \in Requests, PrepareRetry(r)
      PROVE  Promise
  <2>1. pay # NoPayment /\ pay' # NoPayment /\ pay'.status = pay.status
        /\ pay.status \in Statuses
    BY <1>0, <1>3, PrepareRetryEffect, NoPaymentIsNone DEF Payment
  <2> QED BY <1>a, <1>b, <2>1 DEF Meaning, Promise
<1>4. ASSUME NEW r \in Requests, CompleteQRIS(r)
      PROVE  Promise
  <2>1. CASE pay.attempt = "IN_FLIGHT"
    <3>1. pay # NoPayment /\ pay.status = "UNPAID"
      BY <1>0, <1>4, <2>1, CompleteEffect, NoPaymentIsNone DEF Sure, Charged
    <3>2. UNCHANGED pay \/ (pay' # NoPayment /\ pay'.status = "PENDING_PAYMENT")
      BY <1>0, <1>4, CompleteEffect, NoPaymentIsNone
    <3> QED BY <1>1, <1>a, <1>b, <3>1, <3>2 DEF Meaning, Promise
  <2>2. CASE pay.attempt # "IN_FLIGHT"
    BY <1>0, <1>1, <1>4, <2>2, CompleteEffect
  <2> QED BY <2>1, <2>2
<1>5. ASSUME NEW r \in Requests, FailQRIS(r)
      PROVE  Promise
  <2>1. pay # NoPayment /\ ~pay.qr
    BY <1>0, <1>5, FailEffect, NoPaymentIsNone, NoRequestAfterCode
  <2>2. pay.status \notin {"PAID", "REFUNDED"}
    BY <2>1 DEF Sure, Code
  <2>3. UNCHANGED pay \/ (pay' # NoPayment /\ pay'.status \in {"UNPAID", "FAILED"})
    BY <1>0, <1>5, FailEffect, NoPaymentIsNone
  <2> QED BY <1>1, <1>a, <1>b, <2>1, <2>2, <2>3 DEF Meaning, Promise
<1>6. CASE Heard
  <2>1. ASSUME NEW n \in Notices, Recorded(n)
        PROVE  Promise
    <3>1. /\ pay # NoPayment /\ pay' # NoPayment /\ pay \in Payment
          /\ pay'.status \in Statuses
      BY <1>6, <2>1, NoPaymentIsNone, RecordedRises DEF Heard, Recorded
    <3>2. /\ pay.status = "PAID" => pay'.status \in {"PAID", "REFUNDED"}
          /\ pay.status = "REFUNDED" => pay'.status = "REFUNDED"
      BY <2>1, <3>1, RecordedRises
    <3> QED BY <1>a, <1>b, <3>1, <3>2 DEF Meaning, Promise
  <2> QED BY <1>1, <1>6, <2>1 DEF Heard
<1>7. CASE \E r \in Requests : (\E key \in Keys : PrepareAgain(r, key)) \/ CreateQRIS(r)
                               \/ LoseRequest(r)
  BY <1>0, <1>1, <1>7, PrepareAgainEffect, CreateEffect, LoseRequestEffect
<1>8. CASE Aside
  BY <1>1, <1>8 DEF Aside
<1> QED BY <1>0, <1>2, <1>3, <1>4, <1>5, <1>6, <1>7, <1>8, StepKinds, HeardSteps, AsideSteps

(* The payment refines PaymentLedger: it is opened once, paid at most once *)
(* and, once paid, only ever refunded.                                     *)
THEOREM PaymentKeepsTheLedger == Spec => ImplementsLedger
<1>1. Init => Settlement = "NONE"
  BY DEF Init, Settlement, NoPayment
<1>2. Sure /\ [Next]_vars => [Ledger!Opened \/ Ledger!Settled \/ Ledger!Refunded]_Settlement
  BY LedgerStep DEF Promise, Ledger!Opened, Ledger!Settled, Ledger!Refunded, Settlement
<1> QED BY <1>1, <1>2, SureStart, SureStep, PTL
        DEF Spec, ImplementsLedger, Ledger!Spec, Settlement
=============================================================================
