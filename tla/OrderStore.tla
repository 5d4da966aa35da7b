----------------------------- MODULE OrderStore -----------------------------
(***************************************************************************)
(* The order tables of the backend and the database transactions that      *)
(* write them: Create and Transition of internal/order/store.go and        *)
(* RecordCash of internal/payment/store.go.  A handler is one API request  *)
(* being served.  A transaction is cut where it takes its first lock: the  *)
(* first step takes the lock and does the reads the transaction bases its  *)
(* decision on, the second writes and commits, and between the two any     *)
(* other handler may run, a provider may settle a QRIS payment, or the     *)
(* handler may die and be rolled back.                                     *)
(***************************************************************************)
EXTENDS Naturals

CONSTANTS
  Orders,           \* order ids (UUIDs)
  ClientIds,        \* the ids staff devices draw, the others are the server's
  Sources,          \* channels an order comes from
  Keys,             \* values of the Idempotency-Key header
  NoKey,            \* the NULL idempotency key of a creation row
  Carts,            \* bodies of create requests
  Actors,           \* authenticated staff subjects
  Handlers,         \* requests the server can serve at the same time
  Totals,           \* order totals the catalogue and discounts can price to
  Amounts,          \* cash amounts a cashier can type in
  ExpectedVersions  \* versions a client can believe an order is at

ASSUME KeysAssumption == NoKey \notin Keys
ASSUME ClientIdsAssumption == ClientIds \subseteq Orders
ASSUME TotalsAssumption == Totals \subseteq Nat
ASSUME AmountsAssumption == Amounts \subseteq Nat \ {0}
ASSUME ExpectedAssumption == ExpectedVersions \subseteq Nat \ {0}

VARIABLES
  orders,   \* table orders: status, version and total_amount of each id
  intake,   \* table orders: source, idempotency_key and body of each id
  history,  \* table order_status_history
  outbox,   \* table outbox_events, the rows of aggregate ORDER
  cash,     \* table payments, the rows of method CASH (all PAID)
  qris,     \* table payments, status of the MIDTRANS_QRIS row of an order
  tx,       \* the transaction each handler has open
  reply     \* the last answer each handler gave

vars == <<orders, intake, history, outbox, cash, qris, tx, reply>>
tables == <<orders, intake, history, outbox, cash, qris>>

-----------------------------------------------------------------------------
(* Statuses and the transition table of the order.                         *)

Statuses == {"PENDING", "ACCEPTED", "PREPARING", "READY_FOR_PICKUP",
             "COMPLETED", "REJECTED", "CANCELLED"}

NotPayable == {"REJECTED", "CANCELLED"}

ValidTransition(from, to) ==
  \/ from = "PENDING"   /\ to \in {"ACCEPTED", "PREPARING", "REJECTED", "CANCELLED"}
  \/ from = "ACCEPTED"  /\ to \in {"PREPARING", "CANCELLED"}
  \/ from = "PREPARING" /\ to = "READY_FOR_PICKUP"
  \/ from = "READY_FOR_PICKUP" /\ to = "COMPLETED"

(* The endpoints that create orders: staff send the order id, the public    *)
(* web page and the WhatsApp agent let the server draw it.                 *)
Endpoints == {"staff", "web", "agent"}

(* Two requests have the same request_hash.                                *)
SameBody(i, j) ==
  /\ i.via = j.via
  /\ i.cart = j.cart
  /\ i.via = "staff" => i.order = j.order

NoOrder == [status |-> "NONE", version |-> 0, total |-> 0]
Exists(o) == orders[o].status # "NONE"

-----------------------------------------------------------------------------
(* What the tables, the open transactions and the answers hold.            *)

Payloads == [target: Statuses, expected: ExpectedVersions]

OrderRow   == [status: Statuses, version: Nat \ {0}, total: Totals]
IntakeRow  == [order: Orders, source: Sources, key: Keys, via: Endpoints, cart: Carts]
CreationRow == [order: Orders, from: {"NONE"}, to: {"PENDING"}, version: {1},
                key: {NoKey}, payload: {NoKey}, actor: {NoKey}]
TransitionRow == [order: Orders, from: Statuses, to: Statuses, version: Nat \ {0},
                  key: Keys, payload: Payloads, actor: Actors]
HistoryRow == CreationRow \cup TransitionRow
EventRow   == [order: Orders, version: Nat \ {0}, status: Statuses]
CashRow    == [order: Orders, key: Keys, amount: Amounts, actor: Actors]
QrisStatuses == {"NONE", "UNPAID", "PAID", "REFUNDED"}

Idle == [op |-> "idle"]
CreateTx     == [op: {"create"}, intake: IntakeRow]
TransitionTx == [op: {"transition"}, row: TransitionRow]
CashTx       == [op: {"cash"}, payment: CashRow]

NoReply    == [kind |-> "none"]
Result     == [kind: {"done", "replay", "existing"}, order: Orders, key: Keys,
               status: Statuses, version: Nat \ {0}]
Refusal    == [kind: {"refused", "duplicate"}, op: {"create", "transition", "cash"}]
Conflict   == [kind: {"conflict"}, intake: IntakeRow]

TypeOK ==
  /\ orders \in [Orders -> OrderRow \cup {NoOrder}]
  /\ intake \subseteq IntakeRow
  /\ history \subseteq HistoryRow
  /\ outbox \subseteq EventRow
  /\ cash \subseteq CashRow
  /\ qris \in [Orders -> QrisStatuses]
  /\ tx \in [Handlers -> {Idle} \cup CreateTx \cup TransitionTx \cup CashTx]
  /\ reply \in [Handlers -> {NoReply} \cup Result \cup Refusal \cup Conflict]

-----------------------------------------------------------------------------
Init ==
  /\ orders = [o \in Orders |-> NoOrder]
  /\ intake = {}
  /\ history = {}
  /\ outbox = {}
  /\ cash = {}
  /\ qris = [o \in Orders |-> "NONE"]
  /\ tx = [h \in Handlers |-> Idle]
  /\ reply = [h \in Handlers |-> NoReply]

(* Locks are held from the first step of a transaction to its last one, so *)
(* who holds one is read off the open transactions.                        *)
SourceKeyNeverLocked(src, key) == FALSE   \* variant: no advisory lock

SourceKeyLocked(src, key) ==
  \E h \in Handlers : /\ tx[h].op = "create"
                      /\ tx[h].intake.source = src
                      /\ tx[h].intake.key = key

OrderRowNeverLocked(o) == FALSE           \* variant: SELECT without FOR UPDATE

OrderRowLocked(o) ==
  \E h \in Handlers : tx[h].op = "transition" /\ tx[h].row.order = o

CashLocked(o) ==
  \E h \in Handlers : tx[h].op = "cash" /\ tx[h].payment.order = o

Answer(h, r) ==
  /\ reply' = [reply EXCEPT ![h] = r]
  /\ tx' = [tx EXCEPT ![h] = Idle]

Open(h, t) ==
  /\ tx' = [tx EXCEPT ![h] = t]
  /\ reply' = [reply EXCEPT ![h] = NoReply]

Refused(op) == [kind |-> "refused", op |-> op]

(* A UNIQUE KEY of the schema rejected an insert.                          *)
Duplicate(op) == [kind |-> "duplicate", op |-> op]

(* Variant: the version before the transition that was replayed.           *)
ReportedBefore(kind, o, key) ==
  [kind |-> kind, order |-> o, key |-> key, status |-> orders[o].status,
   version |-> IF orders[o].version > 1 THEN orders[o].version - 1 ELSE 1]

Reported(kind, o, key) ==
  [kind |-> kind, order |-> o, key |-> key,
   status |-> orders[o].status, version |-> orders[o].version]

-----------------------------------------------------------------------------
(* Create, CreateWeb and CreateWhatsApp.                                   *)

(* The advisory lock on source and key is taken, then the order that was   *)
(* created under them is looked up and compared by request hash.           *)
BeginCreate(h, row) ==
  /\ tx[h] = Idle
  /\ ~SourceKeyLocked(row.source, row.key)
  /\ UNCHANGED tables
  /\ LET known == {i \in intake : i.source = row.source /\ i.key = row.key}
     IN  \/ known = {} /\ Open(h, [op |-> "create", intake |-> row])
         \/ \E i \in known : /\ SameBody(i, row)
                             /\ Answer(h, Reported("existing", i.order, i.key))
         \/ \E i \in known : /\ ~SameBody(i, row)
                             /\ Answer(h, [kind |-> "conflict", intake |-> row])

(* A server-drawn id is new: no row and no other request carries it.       *)
FreshId(o) ==
  /\ o \notin ClientIds
  /\ ~Exists(o)
  /\ \A h \in Handlers : tx[h].op = "create" => tx[h].intake.order # o

StaffCreate(h, o, src, key, cart) ==
  /\ o \in ClientIds
  /\ src # "CUSTOMER_WEB"
  /\ BeginCreate(h, [order |-> o, source |-> src, key |-> key, via |-> "staff", cart |-> cart])

WebCreate(h, o, key, cart) ==
  /\ "CUSTOMER_WEB" \in Sources
  /\ FreshId(o)
  /\ BeginCreate(h, [order |-> o, source |-> "CUSTOMER_WEB", key |-> key, via |-> "web", cart |-> cart])

AgentCreate(h, o, key, cart) ==
  /\ "WHATSAPP" \in Sources
  /\ FreshId(o)
  /\ BeginCreate(h, [order |-> o, source |-> "WHATSAPP", key |-> key, via |-> "agent", cart |-> cart])

(* Variants of InsertOrder: the version starts at 0; no event is written.  *)
InsertOrderAtZero(i, total) ==
  /\ orders' = [orders EXCEPT ![i.order] =
                  [status |-> "PENDING", version |-> 0, total |-> total]]
  /\ intake' = intake \cup {i}
  /\ UNCHANGED <<history, outbox, cash, qris>>

InsertOrderSilently(i, total) ==
  /\ orders' = [orders EXCEPT ![i.order] =
                  [status |-> "PENDING", version |-> 1, total |-> total]]
  /\ intake' = intake \cup {i}
  /\ history' = history \cup
       {[order |-> i.order, from |-> "NONE", to |-> "PENDING", version |-> 1,
         key |-> NoKey, payload |-> NoKey, actor |-> NoKey]}
  /\ UNCHANGED <<outbox, cash, qris>>

(* The order row, its first history row and its ORDER_CREATED event.       *)
InsertOrder(i, total) ==
  /\ orders' = [orders EXCEPT ![i.order] =
                  [status |-> "PENDING", version |-> 1, total |-> total]]
  /\ intake' = intake \cup {i}
  /\ history' = history \cup
       {[order |-> i.order, from |-> "NONE", to |-> "PENDING", version |-> 1,
         key |-> NoKey, payload |-> NoKey, actor |-> NoKey]}
  /\ outbox' = outbox \cup {[order |-> i.order, version |-> 1, status |-> "PENDING"]}
  /\ UNCHANGED <<cash, qris>>

(* Variant: an id that exists is overwritten.                              *)
OverwritingInsert(i) == \A j \in intake : ~(j.source = i.source /\ j.key = i.key)

(* PRIMARY KEY, uq_orders_source_idempotency and uq_orders_source_client.  *)
OrderInsertable(i) ==
  /\ ~Exists(i.order)
  /\ \A j \in intake : ~(j.source = i.source /\ j.key = i.key)

CommitCreate(h, total) ==
  /\ tx[h].op = "create"
  /\ LET i == tx[h].intake
     IN  \/ /\ OrderInsertable(i)
            /\ InsertOrder(i, total)
            /\ Answer(h, [kind |-> "done", order |-> i.order, key |-> i.key,
                          status |-> "PENDING", version |-> 1])
         \/ /\ ~OrderInsertable(i)
            /\ Answer(h, [kind |-> "conflict", intake |-> i])
            /\ UNCHANGED tables

(* An item is not on sale, a modifier rule fails or a discount is not      *)
(* eligible: the request is refused and the transaction rolled back.       *)
RefuseCart(h) ==
  /\ tx[h].op = "create"
  /\ Answer(h, Refused("create"))
  /\ UNCHANGED tables

-----------------------------------------------------------------------------
(* Transition.                                                             *)

(* Variant: any payment of the order counts.                               *)
HasPayment(o) == qris[o] # "NONE" \/ \E c \in cash : c.order = o

(* A PAID payment of the order is visible to the transaction.              *)
IsPaid(o) == qris[o] = "PAID" \/ \E c \in cash : c.order = o

(* The history rows written for the order under the request's key.         *)
Applied(o, key) == {r \in history : r.order = o /\ r.key = key}

(* Variant: the transition table is not consulted.                         *)
PermittedAnyTarget(o, p) ==
  /\ orders[o].version = p.expected
  /\ p.target = "COMPLETED" /\ orders[o].total > 0 => IsPaid(o)

Permitted(o, p) ==
  /\ orders[o].version = p.expected
  /\ ValidTransition(orders[o].status, p.target)
  /\ p.target = "COMPLETED" /\ orders[o].total > 0 => IsPaid(o)

(* The order row is locked, a request already applied under the key is     *)
(* answered from the order's present row, and the checks of the state      *)
(* machine run on what was read.                                           *)
BeginTransition(h, o, p, key, actor) ==
  /\ tx[h] = Idle
  /\ ~OrderRowLocked(o)
  /\ UNCHANGED tables
  /\ \/ /\ ~Exists(o)
        /\ Answer(h, Refused("transition"))
     \/ /\ \E r \in Applied(o, key) : r.payload = p /\ r.actor = actor
        /\ Answer(h, Reported("replay", o, key))
     \/ /\ \E r \in Applied(o, key) : r.payload # p \/ r.actor # actor
        /\ Answer(h, Refused("transition"))
     \/ /\ Exists(o)
        /\ Applied(o, key) = {}
        /\ ~Permitted(o, p)
        /\ Answer(h, Refused("transition"))
     \/ /\ Exists(o)
        /\ Applied(o, key) = {}
        /\ Permitted(o, p)
        /\ Open(h, [op |-> "transition",
                    row |-> [order |-> o, from |-> orders[o].status, to |-> p.target,
                             version |-> orders[o].version + 1, key |-> key,
                             payload |-> p, actor |-> actor]])

(* uq_order_history_version and uq_order_history_idempotency.              *)
HistoryInsertable(r) ==
  \A x \in history : x.order = r.order => x.version # r.version /\ x.key # r.key

(* Variant: the UPDATE of the order row sets the status only.              *)
CommitTransitionStatusOnly(h) ==
  /\ tx[h].op = "transition"
  /\ LET r == tx[h].row
     IN  /\ HistoryInsertable(r)
         /\ orders' = [orders EXCEPT ![r.order].status = r.to]
         /\ history' = history \cup {r}
         /\ outbox' = outbox \cup
              {[order |-> r.order, version |-> r.version, status |-> r.to]}
         /\ Answer(h, NoReply)
         /\ UNCHANGED <<intake, cash, qris>>

CommitTransition(h) ==
  /\ tx[h].op = "transition"
  /\ LET r == tx[h].row
     IN  \/ /\ HistoryInsertable(r)
            /\ orders' = [orders EXCEPT ![r.order].status = r.to,
                                        ![r.order].version = r.version]
            /\ history' = history \cup {r}
            /\ outbox' = outbox \cup
                 {[order |-> r.order, version |-> r.version, status |-> r.to]}
            /\ Answer(h, [kind |-> "done", order |-> r.order, key |-> r.key,
                          status |-> r.to, version |-> r.version])
            /\ UNCHANGED <<intake, cash, qris>>
         \/ /\ ~HistoryInsertable(r)
            /\ Answer(h, Duplicate("transition"))
            /\ UNCHANGED tables

-----------------------------------------------------------------------------
(* RecordCash.                                                             *)

(* The advisory lock on the order id is taken and the key looked up.       *)
BeginCash(h, o, key, amount, actor) ==
  /\ tx[h] = Idle
  /\ ~CashLocked(o)
  /\ UNCHANGED tables
  /\ LET asked == [order |-> o, key |-> key, amount |-> amount, actor |-> actor]
         known == {c \in cash : c.key = key}
     IN  \/ known = {} /\ Open(h, [op |-> "cash", payment |-> asked])
         \/ asked \in known /\ Answer(h, NoReply)
         \/ known # {} /\ asked \notin known /\ Answer(h, Refused("cash"))

(* Variant: a second cash payment of the order is not refused.             *)
PayableAgain(c) ==
  /\ Exists(c.order)
  /\ orders[c.order].status \notin NotPayable
  /\ orders[c.order].total = c.amount

Payable(c) ==
  /\ Exists(c.order)
  /\ orders[c.order].status \notin NotPayable
  /\ orders[c.order].total = c.amount
  /\ \A d \in cash : d.order # c.order

(* The order row is read under its lock once no transition holds it, and   *)
(* the payment is inserted unless a check or a unique key refuses it.      *)
CommitCash(h) ==
  /\ tx[h].op = "cash"
  /\ LET c == tx[h].payment
     IN  /\ ~OrderRowLocked(c.order)
         /\ \/ /\ ~Payable(c)
               /\ Answer(h, Refused("cash"))
               /\ UNCHANGED tables
            \/ /\ Payable(c)
               /\ \E d \in cash : d.key = c.key
               /\ Answer(h, Duplicate("cash"))
               /\ UNCHANGED tables
            \/ /\ Payable(c)
               /\ \A d \in cash : d.key # c.key
               /\ cash' = cash \cup {c}
               /\ Answer(h, NoReply)
               /\ UNCHANGED <<orders, intake, history, outbox, qris>>

-----------------------------------------------------------------------------
(* The MIDTRANS_QRIS payment of an order as the order transactions see it; *)
(* its provider calls, webhooks and reconciliation have a module of their  *)
(* own.                                                                    *)

PrepareQris(o) ==
  /\ qris[o] = "NONE"
  /\ Exists(o)
  /\ ~OrderRowLocked(o)
  /\ orders[o].status \notin NotPayable
  /\ orders[o].total > 0
  /\ qris' = [qris EXCEPT ![o] = "UNPAID"]
  /\ UNCHANGED <<orders, intake, history, outbox, cash, tx, reply>>

(* A webhook moves the payment and takes no lock of the order.             *)
QrisWebhook(o) ==
  /\ \/ qris[o] = "UNPAID" /\ qris' = [qris EXCEPT ![o] = "PAID"]
     \/ qris[o] \in {"UNPAID", "PAID"} /\ qris' = [qris EXCEPT ![o] = "REFUNDED"]
  /\ UNCHANGED <<orders, intake, history, outbox, cash, tx, reply>>

-----------------------------------------------------------------------------
(* A client gives up, the deadline passes, the connection breaks or the    *)
(* process dies: the database rolls the open transaction back.             *)
Rollback(h) ==
  /\ tx[h] # Idle
  /\ Answer(h, NoReply)
  /\ UNCHANGED tables

Handle(h) ==
  \/ \E o \in Orders, src \in Sources, key \in Keys, cart \in Carts : StaffCreate(h, o, src, key, cart)
  \/ \E o \in Orders, key \in Keys, cart \in Carts : WebCreate(h, o, key, cart)
  \/ \E o \in Orders, key \in Keys, cart \in Carts : AgentCreate(h, o, key, cart)
  \/ \E total \in Totals : CommitCreate(h, total)
  \/ RefuseCart(h)
  \/ \E o \in Orders, p \in Payloads, key \in Keys, actor \in Actors : BeginTransition(h, o, p, key, actor)
  \/ CommitTransition(h)
  \/ \E o \in Orders, key \in Keys, amount \in Amounts, actor \in Actors : BeginCash(h, o, key, amount, actor)
  \/ CommitCash(h)
  \/ Rollback(h)

Next ==
  \/ \E h \in Handlers : Handle(h)
  \/ \E o \in Orders : PrepareQris(o)
  \/ \E o \in Orders : QrisWebhook(o)

Spec == Init /\ [][Next]_vars

-----------------------------------------------------------------------------
(* Properties.                                                             *)

RowsOf(o) == {r \in history : r.order = o}

(* The history of an order tells its whole life: it has exactly one row    *)
(* per version from 1 to the version of the order, each row starts from    *)
(* the status the row before it ended in by a legal transition, and the    *)
(* last one ends in the order's status.  This is what the row lock and the *)
(* expected-version check of Transition are for.                           *)
OneRowPerVersion ==
  /\ \A o \in Orders : {r.version : r \in RowsOf(o)} = 1 .. orders[o].version
  /\ \A r, s \in history : r.order = s.order /\ r.version = s.version => r = s

RowsChain ==
  \A r \in history :
    \/ r.version = 1 /\ r.from = "NONE" /\ r.to = "PENDING"
    \/ /\ ValidTransition(r.from, r.to)
       /\ \E p \in RowsOf(r.order) : p.version + 1 = r.version /\ p.to = r.from

LastRowIsStatus ==
  \A r \in history : r.version = orders[r.order].version => r.to = orders[r.order].status

HistoryExplainsOrder == OneRowPerVersion /\ RowsChain /\ LastRowIsStatus

(* The queue displays learn of every version exactly once: the ORDER       *)
(* events are the history rows, none missing and none extra.               *)
EventPerVersion ==
  outbox = {[order |-> r.order, version |-> r.version, status |-> r.to] : r \in history}

(* An order that costs something is COMPLETED only after a payment of it   *)
(* was settled, whichever of the till and the provider was faster.         *)
Settled(o) == qris[o] \in {"PAID", "REFUNDED"} \/ \E c \in cash : c.order = o

CompletedIsPaid ==
  \A o \in Orders : orders[o].status = "COMPLETED" /\ orders[o].total > 0 => Settled(o)

(* Money is taken in cash at most once per order and it is the total of an *)
(* order that exists.                                                      *)
CashIsSound ==
  /\ \A c, d \in cash : c.order = d.order => c = d
  /\ \A c \in cash : Exists(c.order) /\ orders[c.order].total = c.amount

(* A source and key name one order, and an order has one origin.           *)
OneOrderPerRequest ==
  /\ \A i, j \in intake : i.order = j.order \/ (i.source = j.source /\ i.key = j.key) => i = j
  /\ \A o \in Orders : Exists(o) <=> \E i \in intake : i.order = o

(* A client that repeats its own create request, even while the first copy *)
(* is being served, is never told that its key belongs to another request. *)
RetryGetsItsOrder ==
  \A h \in Handlers : reply[h].kind = "conflict" =>
    \A i \in intake : ~ /\ i.source = reply[h].intake.source
                        /\ i.key = reply[h].intake.key
                        /\ SameBody(i, reply[h].intake)

(* The unique keys of order_status_history are a net nothing falls in: no  *)
(* transition that passed its checks is stopped by them when it commits.   *)
TransitionNeverDuplicates == \A h \in Handlers : reply[h] # Duplicate("transition")

(* An order changes only by being created or by one legal transition that  *)
(* adds one to its version and keeps its total; a terminal status stays.   *)
LifecycleStep(o) ==
  \/ ~Exists(o) /\ orders'[o].status = "PENDING" /\ orders'[o].version = 1
  \/ /\ ValidTransition(orders[o].status, orders'[o].status)
     /\ orders'[o].version = orders[o].version + 1
     /\ orders'[o].total = orders[o].total

LifecycleSteps == [][\A o \in Orders : orders'[o] # orders[o] => LifecycleStep(o)]_orders

(* An identical replay is answered with a state the order has been in      *)
(* since the first result, never with one from before it.                  *)
ReplayIsNotOlder ==
  \A h \in Handlers : reply[h].kind = "replay" =>
    \E r \in Applied(reply[h].order, reply[h].key) : \E s \in RowsOf(reply[h].order) :
      /\ s.version >= r.version
      /\ s.version = reply[h].version /\ s.to = reply[h].status

(* Two claims of the documents that do not hold.                           *)

(* docs/ORDER_LIFECYCLE.md: an identical replay returns the status and     *)
(* version of the first result.                                            *)
ReplayReturnsFirstResult ==
  \A h \in Handlers : reply[h].kind = "replay" =>
    \E r \in Applied(reply[h].order, reply[h].key) :
      r.to = reply[h].status /\ r.version = reply[h].version

(* docs/CASH_PAYMENT.md: a key reused with another payload is answered     *)
(* with a conflict, not with the database's duplicate-key error.           *)
ReusedCashKeyIsAConflict == \A h \in Handlers : reply[h] # Duplicate("cash")

-----------------------------------------------------------------------------
(* The parts of the inductive invariants of OrderStore_proofs and           *)
(* OrderIntake_proofs.                                                     *)

RowsExist ==
  /\ \A i \in intake : Exists(i.order)
  /\ \A r \in history : Exists(r.order)
  /\ \A h \in Handlers : tx[h].op = "transition" => Exists(tx[h].row.order)

LocksHold ==
  \A g, h \in Handlers : g # h /\ tx[g].op = tx[h].op =>
    /\ tx[g].op = "create" => ~ /\ tx[g].intake.source = tx[h].intake.source
                                /\ tx[g].intake.key = tx[h].intake.key
    /\ tx[g].op = "transition" => tx[g].row.order # tx[h].row.order
    /\ tx[g].op = "cash" => tx[g].payment.order # tx[h].payment.order

(* While the row lock is held, what the transition read stays true.        *)
TransitionReady ==
  \A h \in Handlers : tx[h].op = "transition" =>
    LET r == tx[h].row
    IN  /\ r.from = orders[r.order].status
        /\ r.version = orders[r.order].version + 1
        /\ ValidTransition(r.from, r.to)
        /\ Applied(r.order, r.key) = {}
        /\ r.to = "COMPLETED" /\ orders[r.order].total > 0 => Settled(r.order)

(* While the source and key are locked, no order appears under them, and   *)
(* nobody else takes an id the server drew.                                *)
CreateReady ==
  \A h \in Handlers : tx[h].op = "create" =>
    LET i == tx[h].intake
    IN  /\ \A j \in intake : ~(j.source = i.source /\ j.key = i.key)
        /\ i.via = "staff" <=> i.order \in ClientIds
        /\ i.via # "staff" =>
             /\ ~Exists(i.order)
             /\ \A g \in Handlers : tx[g].op = "create" /\ g # h =>
                                      tx[g].intake.order # i.order

(* A conflict was answered because the key, or the id of the device, was   *)
(* already in use.                                                         *)
ConflictReason ==
  \A h \in Handlers : reply[h].kind = "conflict" =>
    LET i == reply[h].intake
    IN  \/ \E j \in intake : j.source = i.source /\ j.key = i.key
        \/ i.via = "staff" /\ Exists(i.order)
=============================================================================
