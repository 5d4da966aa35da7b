-------------------------- MODULE OrderStore_proofs --------------------------
(* Theorems about OrderStore, for any number of orders, handlers and keys, *)
(* and about DailySequence, for any number of requests.                    *)
EXTENDS OrderStore, DailySequence, TLAPS

-----------------------------------------------------------------------------
(* The three create endpoints begin alike, with an intake row of the table. *)
LEMMA HandleCases ==
  ASSUME NEW h \in Handlers, Handle(h)
  PROVE  \/ \E i \in IntakeRow : BeginCreate(h, i)
         \/ \E total \in Totals : CommitCreate(h, total)
         \/ RefuseCart(h)
         \/ \E o \in Orders, p \in Payloads, key \in Keys, actor \in Actors :
              BeginTransition(h, o, p, key, actor)
         \/ CommitTransition(h)
         \/ \E o \in Orders, key \in Keys, amount \in Amounts, actor \in Actors :
              BeginCash(h, o, key, amount, actor)
         \/ CommitCash(h)
         \/ Rollback(h)
<1>1. ASSUME NEW o \in Orders, NEW src \in Sources, NEW key \in Keys, NEW cart \in Carts,
             StaffCreate(h, o, src, key, cart)
      PROVE  \E i \in IntakeRow : BeginCreate(h, i)
  <2> DEFINE i == [order |-> o, source |-> src, key |-> key, via |-> "staff", cart |-> cart]
  <2>1. i \in IntakeRow
    BY DEF IntakeRow, Endpoints
  <2>2. BeginCreate(h, i)
    BY <1>1 DEF StaffCreate
  <2> QED BY <2>1, <2>2
<1>2. ASSUME NEW o \in Orders, NEW key \in Keys, NEW cart \in Carts, WebCreate(h, o, key, cart)
      PROVE  \E i \in IntakeRow : BeginCreate(h, i)
  <2> DEFINE i == [order |-> o, source |-> "CUSTOMER_WEB", key |-> key, via |-> "web", cart |-> cart]
  <2>1. i \in IntakeRow
    BY <1>2 DEF IntakeRow, Endpoints, WebCreate
  <2>2. BeginCreate(h, i)
    BY <1>2 DEF WebCreate
  <2> QED BY <2>1, <2>2
<1>3. ASSUME NEW o \in Orders, NEW key \in Keys, NEW cart \in Carts, AgentCreate(h, o, key, cart)
      PROVE  \E i \in IntakeRow : BeginCreate(h, i)
  <2> DEFINE i == [order |-> o, source |-> "WHATSAPP", key |-> key, via |-> "agent", cart |-> cart]
  <2>1. i \in IntakeRow
    BY <1>3 DEF IntakeRow, Endpoints, AgentCreate
  <2>2. BeginCreate(h, i)
    BY <1>3 DEF AgentCreate
  <2> QED BY <2>1, <2>2
<1> QED BY <1>1, <1>2, <1>3 DEF Handle

(* A handler writes the tables at its commit and at no other step.         *)
LEMMA CommitsWrite ==
  ASSUME NEW h \in Handlers, Handle(h)
  PROVE  \/ UNCHANGED tables
         \/ \E total \in Totals : CommitCreate(h, total)
         \/ CommitTransition(h)
         \/ CommitCash(h)
<1>1. ASSUME NEW i \in IntakeRow, BeginCreate(h, i)
      PROVE  UNCHANGED tables
  BY <1>1 DEF BeginCreate
<1>2. ASSUME RefuseCart(h) \/ Rollback(h)
      PROVE  UNCHANGED tables
  BY <1>2 DEF RefuseCart, Rollback
<1>3. ASSUME NEW o \in Orders, NEW p \in Payloads, NEW key \in Keys, NEW actor \in Actors,
             BeginTransition(h, o, p, key, actor)
      PROVE  UNCHANGED tables
  BY <1>3 DEF BeginTransition
<1>4. ASSUME NEW o \in Orders, NEW key \in Keys, NEW amount \in Amounts, NEW actor \in Actors,
             BeginCash(h, o, key, amount, actor)
      PROVE  UNCHANGED tables
  BY <1>4 DEF BeginCash
<1> HIDE DEF tables
<1> QED BY <1>1, <1>2, <1>3, <1>4, HandleCases

-----------------------------------------------------------------------------
(* Type correctness.                                                       *)
Transactions == {Idle} \cup CreateTx \cup TransitionTx \cup CashTx
Replies == {NoReply} \cup Result \cup Refusal \cup Conflict

LEMMA OpenType ==
  ASSUME NEW h \in Handlers, NEW t \in Transactions, Open(h, t), TypeOK
  PROVE  /\ tx' \in [Handlers -> Transactions] /\ reply' \in [Handlers -> Replies]
         /\ tx'[h] = t
         /\ \A g \in Handlers \ {h} : tx'[g] = tx[g]
<1>1. NoReply \in Replies
  BY DEF Replies
<1> QED BY <1>1 DEF Open, TypeOK, Transactions, Replies

LEMMA AnswerType ==
  ASSUME NEW h \in Handlers, NEW r \in Replies, Answer(h, r), TypeOK
  PROVE  /\ tx' \in [Handlers -> Transactions] /\ reply' \in [Handlers -> Replies]
         /\ reply'[h] = r
         /\ \A g \in Handlers \ {h} : tx'[g] = tx[g]
         /\ \A g \in Handlers : tx'[g] = tx[g] \/ tx'[g].op = "idle"
<1>1. Idle \in Transactions
  BY DEF Transactions
<1> QED BY <1>1 DEF Answer, TypeOK, Transactions, Replies, Idle

LEMMA RefusalType ==
  ASSUME NEW op \in {"create", "transition", "cash"}
  PROVE  Refused(op) \in Replies /\ Duplicate(op) \in Replies
BY DEF Refused, Duplicate, Replies, Refusal

(* The row an existing order is read from.                                 *)
LEMMA ExistingRow ==
  ASSUME TypeOK, NEW o \in Orders, Exists(o)
  PROVE  orders[o] \in OrderRow
BY DEF TypeOK, Exists, NoOrder

LEMMA ReportedType ==
  ASSUME TypeOK, NEW o \in Orders, Exists(o), NEW key \in Keys, NEW kind \in {"replay", "existing"}
  PROVE  Reported(kind, o, key) \in Replies
<1>1. orders[o].status \in Statuses /\ orders[o].version \in Nat \ {0}
  BY ExistingRow DEF OrderRow
<1> QED BY <1>1 DEF Reported, Replies, Result

(* The order of a transaction row is an order, a key a key, and so on.     *)
LEMMA OpenRow ==
  ASSUME TypeOK, NEW h \in Handlers
  PROVE  /\ tx[h].op = "create" => tx[h].intake \in IntakeRow
         /\ tx[h].op = "transition" => tx[h].row \in TransitionRow
         /\ tx[h].op = "cash" => tx[h].payment \in CashRow
BY DEF TypeOK, Idle, CreateTx, TransitionTx, CashTx

TypeInv == TypeOK /\ RowsExist

(* Steps that only read the tables leave both conjuncts alone.             *)
LEMMA ReadOnlyType ==
  ASSUME TypeInv, UNCHANGED tables,
         tx' \in [Handlers -> Transactions], reply' \in [Handlers -> Replies],
         \A g \in Handlers : \/ tx'[g] = tx[g]
                            \/ tx'[g].op # "transition"
                            \/ Exists(tx'[g].row.order)
  PROVE  TypeInv'
BY DEF TypeInv, TypeOK, RowsExist, Exists, tables, Transactions, Replies

LEMMA BeginCreateType ==
  ASSUME TypeInv, NEW h \in Handlers, NEW i \in IntakeRow, BeginCreate(h, i)
  PROVE  TypeInv'
<1> DEFINE known == {j \in intake : j.source = i.source /\ j.key = i.key}
           t == [op |-> "create", intake |-> i]
           r == [kind |-> "conflict", intake |-> i]
<1>1. CASE Open(h, t)
  <2>1. t \in Transactions
    BY DEF Transactions, CreateTx
  <2> QED BY <1>1, <2>1, OpenType, ReadOnlyType DEF TypeInv, BeginCreate
<1>2. ASSUME NEW j \in known, Answer(h, Reported("existing", j.order, j.key))
      PROVE  TypeInv'
  <2>1. j.order \in Orders /\ j.key \in Keys /\ Exists(j.order)
    BY DEF TypeInv, TypeOK, RowsExist, IntakeRow
  <2>2. Reported("existing", j.order, j.key) \in Replies
    BY <2>1, ReportedType DEF TypeInv
  <2> QED BY <1>2, <2>2, AnswerType, ReadOnlyType DEF TypeInv, BeginCreate
<1>3. CASE Answer(h, r)
  <2>1. r \in Replies
    BY DEF Replies, Conflict
  <2> QED BY <1>3, <2>1, AnswerType, ReadOnlyType DEF TypeInv, BeginCreate
<1> QED BY <1>1, <1>2, <1>3 DEF BeginCreate

(* The commit of a create request, with the row it inserts named.          *)
LEMMA CommitCreateRow ==
  ASSUME TypeOK, NEW h \in Handlers, NEW total \in Totals, CommitCreate(h, total)
  PROVE  \E i \in IntakeRow :
           /\ i = tx[h].intake /\ tx[h].op = "create"
           /\ \/ /\ OrderInsertable(i)
                 /\ InsertOrder(i, total)
                 /\ Answer(h, [kind |-> "done", order |-> i.order, key |-> i.key,
                               status |-> "PENDING", version |-> 1])
              \/ /\ ~OrderInsertable(i)
                 /\ Answer(h, [kind |-> "conflict", intake |-> i])
                 /\ UNCHANGED tables
BY OpenRow DEF CommitCreate

LEMMA CommitCreateType ==
  ASSUME TypeInv, NEW h \in Handlers, NEW total \in Totals, CommitCreate(h, total)
  PROVE  TypeInv'
<1>1. PICK i \in IntakeRow :
        \/ /\ InsertOrder(i, total)
           /\ Answer(h, [kind |-> "done", order |-> i.order, key |-> i.key,
                         status |-> "PENDING", version |-> 1])
        \/ Answer(h, [kind |-> "conflict", intake |-> i]) /\ UNCHANGED tables
  BY CommitCreateRow DEF TypeInv
<1> DEFINE done == [kind |-> "done", order |-> i.order, key |-> i.key,
                    status |-> "PENDING", version |-> 1]
           r == [kind |-> "conflict", intake |-> i]
<1>2. CASE InsertOrder(i, total) /\ Answer(h, done)
  <2>1. done \in Replies
    BY DEF Replies, Result, IntakeRow, Statuses
  <2>2. tx' \in [Handlers -> Transactions] /\ reply' \in [Handlers -> Replies]
    BY <1>2, <2>1, AnswerType DEF TypeInv
  <2>3. orders' \in [Orders -> OrderRow \cup {NoOrder}]
    BY <1>2 DEF TypeInv, TypeOK, InsertOrder, OrderRow, IntakeRow, Statuses
  <2>4. history' \subseteq HistoryRow
    BY <1>2 DEF TypeInv, TypeOK, InsertOrder, HistoryRow, CreationRow, IntakeRow, Statuses
  <2>5. outbox' \subseteq EventRow
    BY <1>2 DEF TypeInv, TypeOK, InsertOrder, EventRow, IntakeRow, Statuses
  <2>6. intake' \subseteq IntakeRow /\ UNCHANGED <<cash, qris>>
    BY <1>2 DEF TypeInv, TypeOK, InsertOrder
  <2>7. TypeOK'
    BY <2>2, <2>3, <2>4, <2>5, <2>6 DEF TypeInv, TypeOK, Transactions, Replies
  <2>8. \A o \in Orders : Exists(o) \/ o = i.order => Exists(o)'
    BY <1>2 DEF InsertOrder, Exists, TypeInv, TypeOK, IntakeRow
  <2>9. RowsExist'
    <3>1. \A x \in intake' : Exists(x.order)'
      BY <1>2, <2>8 DEF InsertOrder, RowsExist, TypeInv, TypeOK, IntakeRow
    <3>2. \A x \in history' : Exists(x.order)'
      <4> DEFINE first == [order |-> i.order, from |-> "NONE", to |-> "PENDING", version |-> 1,
                           key |-> NoKey, payload |-> NoKey, actor |-> NoKey]
      <4>1. history' = history \cup {first} /\ first.order = i.order
        BY <1>2 DEF InsertOrder
      <4>2. \A x \in history : x.order \in Orders
        BY DEF TypeInv, TypeOK, HistoryRow, CreationRow, TransitionRow
      <4> QED BY <2>8, <4>1, <4>2 DEF RowsExist, TypeInv, IntakeRow
    <3>3. \A g \in Handlers : tx'[g].op = "transition" => orders'[tx'[g].row.order].status # "NONE"
      <4>1. \A g \in Handlers : tx'[g] = tx[g] \/ tx'[g].op = "idle"
        BY <1>2, <2>1, AnswerType DEF TypeInv
      <4> QED BY <2>8, <4>1, OpenRow DEF TypeInv, RowsExist, Exists, TransitionRow
    <3> QED BY <3>1, <3>2, <3>3 DEF RowsExist, Exists
  <2> QED BY <2>7, <2>9 DEF TypeInv
<1>3. CASE Answer(h, r) /\ UNCHANGED tables
  <2>1. r \in Replies
    BY DEF Replies, Conflict
  <2> QED BY <1>3, <2>1, AnswerType, ReadOnlyType DEF TypeInv
<1> QED BY <1>1, <1>2, <1>3

LEMMA BeginTransitionType ==
  ASSUME TypeInv, NEW h \in Handlers, NEW o \in Orders, NEW p \in Payloads, NEW key \in Keys,
         NEW actor \in Actors, BeginTransition(h, o, p, key, actor)
  PROVE  TypeInv'
<1> DEFINE row == [order |-> o, from |-> orders[o].status, to |-> p.target,
                   version |-> orders[o].version + 1, key |-> key,
                   payload |-> p, actor |-> actor]
           t == [op |-> "transition", row |-> row]
<1>1. CASE Answer(h, Refused("transition"))
  BY <1>1, RefusalType, AnswerType, ReadOnlyType DEF TypeInv, BeginTransition
<1>2. CASE Answer(h, Reported("replay", o, key)) /\ \E r \in Applied(o, key) : TRUE
  <2>1. Exists(o)
    BY <1>2 DEF TypeInv, RowsExist, Applied
  <2> QED BY <1>2, <2>1, ReportedType, AnswerType, ReadOnlyType DEF TypeInv, BeginTransition
<1>3. CASE Exists(o) /\ Open(h, t)
  <2>1. orders[o].status \in Statuses /\ orders[o].version \in Nat \ {0}
    BY <1>3, ExistingRow DEF TypeInv, OrderRow
  <2>2. row \in TransitionRow
    BY <2>1 DEF TransitionRow, Payloads
  <2>3. t \in Transactions
    BY <2>2 DEF Transactions, TransitionTx
  <2> QED BY <1>3, <2>3, OpenType, ReadOnlyType DEF TypeInv, BeginTransition
<1> QED BY <1>1, <1>2, <1>3 DEF BeginTransition

LEMMA CommitTransitionRow ==
  ASSUME TypeOK, NEW h \in Handlers, CommitTransition(h)
  PROVE  \E r \in TransitionRow :
           /\ r = tx[h].row /\ tx[h].op = "transition"
           /\ \/ /\ HistoryInsertable(r)
                 /\ orders' = [orders EXCEPT ![r.order].status = r.to,
                                             ![r.order].version = r.version]
                 /\ history' = history \cup {r}
                 /\ outbox' = outbox \cup
                      {[order |-> r.order, version |-> r.version, status |-> r.to]}
                 /\ Answer(h, [kind |-> "done", order |-> r.order, key |-> r.key,
                               status |-> r.to, version |-> r.version])
                 /\ UNCHANGED <<intake, cash, qris>>
              \/ /\ ~HistoryInsertable(r)
                 /\ Answer(h, Duplicate("transition"))
                 /\ UNCHANGED tables
BY OpenRow DEF CommitTransition

(* The UPDATE of Transition replaces status and version and keeps the total. *)
LEMMA UpdatedRow ==
  ASSUME TypeOK, NEW r \in TransitionRow, Exists(r.order),
         orders' = [orders EXCEPT ![r.order].status = r.to, ![r.order].version = r.version]
  PROVE  \E row \in OrderRow :
           /\ row = [status |-> r.to, version |-> r.version, total |-> orders[r.order].total]
           /\ orders' = [orders EXCEPT ![r.order] = row]
           /\ orders' \in [Orders -> OrderRow \cup {NoOrder}]
<1> DEFINE row == [status |-> r.to, version |-> r.version, total |-> orders[r.order].total]
<1>1. r.order \in Orders /\ orders[r.order] \in OrderRow
  BY ExistingRow DEF TransitionRow
<1>2. row \in OrderRow
  BY <1>1 DEF OrderRow, TransitionRow
<1>3. orders'[r.order] = [orders[r.order] EXCEPT !.status = r.to, !.version = r.version]
  BY <1>1 DEF TypeOK
<1>4. orders'[r.order] = row
  BY <1>1, <1>3 DEF OrderRow
<1>5. orders' = [orders EXCEPT ![r.order] = row]
  BY <1>1, <1>4 DEF TypeOK
<1>6. orders' \in [Orders -> OrderRow \cup {NoOrder}]
  BY <1>1, <1>2, <1>5 DEF TypeOK
<1> HIDE DEF row
<1>7. row = [status |-> r.to, version |-> r.version, total |-> orders[r.order].total]
  BY DEF row
<1> QED BY <1>2, <1>5, <1>6, <1>7

(* An order row that exists goes on existing.                              *)
LEMMA CommitTransitionType ==
  ASSUME TypeInv, NEW h \in Handlers, CommitTransition(h)
  PROVE  TypeInv'
<1>1. PICK r \in TransitionRow :
        /\ r = tx[h].row /\ tx[h].op = "transition"
        /\ \/ /\ HistoryInsertable(r)
              /\ orders' = [orders EXCEPT ![r.order].status = r.to,
                                          ![r.order].version = r.version]
              /\ history' = history \cup {r}
              /\ outbox' = outbox \cup
                   {[order |-> r.order, version |-> r.version, status |-> r.to]}
              /\ Answer(h, [kind |-> "done", order |-> r.order, key |-> r.key,
                            status |-> r.to, version |-> r.version])
              /\ UNCHANGED <<intake, cash, qris>>
           \/ /\ ~HistoryInsertable(r)
              /\ Answer(h, Duplicate("transition"))
              /\ UNCHANGED tables
  BY CommitTransitionRow DEF TypeInv
<1> DEFINE done == [kind |-> "done", order |-> r.order, key |-> r.key,
                    status |-> r.to, version |-> r.version]
<1>2. CASE HistoryInsertable(r)
  <2>1. /\ orders' = [orders EXCEPT ![r.order].status = r.to, ![r.order].version = r.version]
        /\ history' = history \cup {r}
        /\ outbox' = outbox \cup {[order |-> r.order, version |-> r.version, status |-> r.to]}
        /\ Answer(h, done)
        /\ UNCHANGED <<intake, cash, qris>>
    BY <1>1, <1>2
  <2>2. r.order \in Orders /\ orders[r.order] \in OrderRow /\ Exists(r.order)
    BY <1>1, ExistingRow DEF TypeInv, RowsExist, TransitionRow
  <2>3. done \in Replies
    BY DEF Replies, Result, TransitionRow
  <2>4. /\ tx' \in [Handlers -> Transactions] /\ reply' \in [Handlers -> Replies]
        /\ \A g \in Handlers : tx'[g] = tx[g] \/ tx'[g].op = "idle"
    BY <2>1, <2>3, AnswerType DEF TypeInv
  <2>5. orders' \in [Orders -> OrderRow \cup {NoOrder}]
    BY <2>1, <2>2, UpdatedRow DEF TypeInv, TypeOK
  <2>6. history' \subseteq HistoryRow
    BY <2>1 DEF TypeInv, TypeOK, HistoryRow
  <2>7. outbox' \subseteq EventRow
    BY <2>1 DEF TypeInv, TypeOK, EventRow, TransitionRow
  <2>8. TypeOK'
    BY <2>1, <2>4, <2>5, <2>6, <2>7 DEF TypeInv, TypeOK, Transactions, Replies
  <2>9. \A o \in Orders : Exists(o) => orders'[o].status # "NONE"
    BY <2>1, <2>2 DEF Exists, TypeInv, TypeOK, TransitionRow, Statuses
  <2>10. RowsExist'
    <3>1. \A x \in intake' : orders'[x.order].status # "NONE"
      BY <2>1, <2>9 DEF RowsExist, TypeInv, TypeOK, IntakeRow
    <3>2. \A x \in history' : orders'[x.order].status # "NONE"
      BY <1>1, <2>1, <2>9 DEF RowsExist, TypeInv, TypeOK, HistoryRow, CreationRow, TransitionRow
    <3>3. \A g \in Handlers : tx'[g].op = "transition" => orders'[tx'[g].row.order].status # "NONE"
      BY <2>4, <2>9, OpenRow DEF TypeInv, RowsExist, Exists, TransitionRow
    <3> QED BY <3>1, <3>2, <3>3 DEF RowsExist, Exists
  <2> QED BY <2>8, <2>10 DEF TypeInv
<1>3. CASE ~HistoryInsertable(r)
  BY <1>1, <1>3, RefusalType, AnswerType, ReadOnlyType DEF TypeInv
<1> QED BY <1>2, <1>3

LEMMA BeginCashType ==
  ASSUME TypeInv, NEW h \in Handlers, NEW o \in Orders, NEW key \in Keys, NEW amount \in Amounts,
         NEW actor \in Actors, BeginCash(h, o, key, amount, actor)
  PROVE  TypeInv'
<1> DEFINE asked == [order |-> o, key |-> key, amount |-> amount, actor |-> actor]
           t == [op |-> "cash", payment |-> asked]
<1>1. t \in Transactions
  BY DEF Transactions, CashTx, CashRow
<1>2. NoReply \in Replies
  BY DEF Replies
<1>3. CASE Open(h, t)
  BY <1>1, <1>3, OpenType, ReadOnlyType DEF TypeInv, BeginCash
<1>4. CASE Answer(h, NoReply)
  BY <1>2, <1>4, AnswerType, ReadOnlyType DEF TypeInv, BeginCash
<1>5. CASE Answer(h, Refused("cash"))
  BY <1>5, RefusalType, AnswerType, ReadOnlyType DEF TypeInv, BeginCash
<1> QED BY <1>3, <1>4, <1>5 DEF BeginCash

LEMMA CommitCashRow ==
  ASSUME TypeOK, NEW h \in Handlers, CommitCash(h)
  PROVE  \E c \in CashRow :
           /\ c = tx[h].payment /\ tx[h].op = "cash"
           /\ \/ /\ \/ Answer(h, Refused("cash"))
                    \/ Answer(h, Duplicate("cash"))
                 /\ UNCHANGED tables
              \/ /\ Payable(c)
                 /\ \A d \in cash : d.key # c.key
                 /\ cash' = cash \cup {c}
                 /\ Answer(h, NoReply)
                 /\ UNCHANGED <<orders, intake, history, outbox, qris>>
BY OpenRow DEF CommitCash

(* No order row, history row or open transition is lost.                   *)
LEMMA SameRowsExist ==
  ASSUME TypeInv, UNCHANGED <<orders, intake, history>>,
         \A g \in Handlers : tx'[g] = tx[g] \/ tx'[g].op = "idle"
  PROVE  RowsExist'
BY DEF TypeInv, RowsExist, Exists

LEMMA CommitCashType ==
  ASSUME TypeInv, NEW h \in Handlers, CommitCash(h)
  PROVE  TypeInv'
<1>1. PICK c \in CashRow :
           \/ /\ \/ Answer(h, Refused("cash"))
                 \/ Answer(h, Duplicate("cash"))
              /\ UNCHANGED tables
           \/ /\ cash' = cash \cup {c}
              /\ Answer(h, NoReply)
              /\ UNCHANGED <<orders, intake, history, outbox, qris>>
  BY CommitCashRow DEF TypeInv
<1>2. CASE (Answer(h, Refused("cash")) \/ Answer(h, Duplicate("cash"))) /\ UNCHANGED tables
  BY <1>2, RefusalType, AnswerType, ReadOnlyType DEF TypeInv
<1>3. CASE /\ cash' = cash \cup {c}
           /\ Answer(h, NoReply)
           /\ UNCHANGED <<orders, intake, history, outbox, qris>>
  <2>1. NoReply \in Replies
    BY DEF Replies
  <2>2. TypeOK'
    BY <1>3, <2>1, AnswerType DEF TypeInv, TypeOK, Transactions, Replies
  <2>3. RowsExist'
    BY <1>3, <2>1, AnswerType, SameRowsExist DEF TypeInv
  <2> QED BY <2>2, <2>3 DEF TypeInv
<1> QED BY <1>1, <1>2, <1>3

LEMMA GiveUpType ==
  ASSUME TypeInv, NEW h \in Handlers, RefuseCart(h) \/ Rollback(h)
  PROVE  TypeInv'
<1>1. NoReply \in Replies
  BY DEF Replies
<1> QED BY <1>1, RefusalType, AnswerType, ReadOnlyType DEF TypeInv, RefuseCart, Rollback

LEMMA QrisType ==
  ASSUME TypeInv, NEW o \in Orders, PrepareQris(o) \/ QrisWebhook(o)
  PROVE  TypeInv'
<1>1. /\ UNCHANGED <<orders, intake, history, outbox, cash, tx, reply>>
      /\ \E s \in QrisStatuses : qris' = [qris EXCEPT ![o] = s]
  BY DEF PrepareQris, QrisWebhook, QrisStatuses
<1>2. TypeOK'
  BY <1>1 DEF TypeInv, TypeOK
<1>3. RowsExist'
  BY <1>1, SameRowsExist DEF TypeInv
<1> QED BY <1>2, <1>3 DEF TypeInv

LEMMA TypeInvInit == Init => TypeInv
<1> SUFFICES ASSUME Init PROVE TypeInv
  OBVIOUS
<1>1. TypeOK
  BY DEF Init, TypeOK, QrisStatuses
<1>2. RowsExist
  BY DEF Init, RowsExist, Idle
<1> QED BY <1>1, <1>2 DEF TypeInv

LEMMA TypeInvStep == TypeInv /\ [Next]_vars => TypeInv'
<1> SUFFICES ASSUME TypeInv, [Next]_vars PROVE TypeInv'
  OBVIOUS
<1>1. ASSUME NEW h \in Handlers, Handle(h) PROVE TypeInv'
  BY <1>1, HandleCases, BeginCreateType, CommitCreateType, BeginTransitionType,
     CommitTransitionType, BeginCashType, CommitCashType, GiveUpType
<1>2. ASSUME NEW o \in Orders, PrepareQris(o) \/ QrisWebhook(o) PROVE TypeInv'
  BY <1>2, QrisType
<1>3. CASE UNCHANGED vars
  BY <1>3, SameRowsExist DEF vars, TypeInv, TypeOK
<1> QED BY <1>1, <1>2, <1>3 DEF Next

(* Whatever the requests, the rows of every table, the open transactions   *)
(* and the answers keep their types, and no row names an order that is     *)
(* not there.                                                              *)
THEOREM TypeCorrect == Spec => [](TypeOK /\ RowsExist)
<1> QED BY TypeInvInit, TypeInvStep, PTL DEF Spec, TypeInv

-----------------------------------------------------------------------------
(* The history of an order.  What makes HistoryExplainsOrder inductive is  *)
(* the row lock: what Transition read before it decided is still true when *)
(* it writes (TransitionReady), because nobody else touches the order in   *)
(* between (LocksHold).                                                    *)

(* One more row, written with the order row it describes, extends the      *)
(* history of its order by one version.                                    *)
LEMMA AppendRow ==
  ASSUME TypeInv, HistoryExplainsOrder, NEW r \in HistoryRow, NEW row \in OrderRow,
         r.version = orders[r.order].version + 1, row.version = r.version, row.status = r.to,
         \/ r.version = 1 /\ r.from = "NONE" /\ r.to = "PENDING"
         \/ Exists(r.order) /\ r.from = orders[r.order].status /\ ValidTransition(r.from, r.to),
         history' = history \cup {r}, orders' = [orders EXCEPT ![r.order] = row]
  PROVE  HistoryExplainsOrder' /\ \A x \in history : x.order = r.order => x.version # r.version
<1> DEFINE o == r.order
<1>0. o \in Orders /\ orders[o].version \in Nat /\ r.version \in Nat
  BY DEF TypeInv, TypeOK, HistoryRow, CreationRow, TransitionRow, OrderRow, NoOrder
<1>1. \A x \in history : /\ x.order \in Orders /\ x.version \in Nat
                         /\ x.version \in 1 .. orders[x.order].version
  <2>1. \A x \in history : x.order \in Orders /\ x.version \in Nat
    BY DEF TypeInv, TypeOK, HistoryRow, CreationRow, TransitionRow
  <2> QED BY <2>1 DEF HistoryExplainsOrder, OneRowPerVersion, RowsOf
<1>2. \A x \in history : x.order = o => x.version # r.version
  BY <1>0, <1>1
<1>3. \A q \in Orders : orders'[q] = IF q = o THEN row ELSE orders[q]
  BY <1>0 DEF TypeInv, TypeOK
<1>4. OneRowPerVersion'
  <2>1. \A x, y \in history' : x.order = y.order /\ x.version = y.version => x = y
    BY <1>2 DEF HistoryExplainsOrder, OneRowPerVersion
  <2>2. ASSUME NEW q \in Orders, q # o
        PROVE  {x.version : x \in {y \in history' : y.order = q}} = 1 .. orders'[q].version
    <3>1. {y \in history' : y.order = q} = RowsOf(q)
      BY <2>2 DEF RowsOf
    <3> QED BY <2>2, <3>1, <1>3 DEF HistoryExplainsOrder, OneRowPerVersion
  <2>3. {x.version : x \in {y \in history' : y.order = o}} = 1 .. orders'[o].version
    <3>1. {y \in history' : y.order = o} = RowsOf(o) \cup {r}
      BY DEF RowsOf
    <3>2. {x.version : x \in RowsOf(o) \cup {r}} = {x.version : x \in RowsOf(o)} \cup {r.version}
      OBVIOUS
    <3>3. {x.version : x \in RowsOf(o)} = 1 .. orders[o].version
      BY <1>0 DEF HistoryExplainsOrder, OneRowPerVersion
    <3>4. (1 .. orders[o].version) \cup {r.version} = 1 .. r.version
      BY <1>0
    <3>5. orders'[o].version = r.version
      BY <1>0, <1>3
    <3> QED BY <3>1, <3>2, <3>3, <3>4, <3>5
  <2> QED BY <2>1, <2>2, <2>3 DEF OneRowPerVersion, RowsOf
<1>5. RowsChain'
  <2>1. CASE r.version = 1 /\ r.from = "NONE" /\ r.to = "PENDING"
    BY <2>1 DEF HistoryExplainsOrder, RowsChain, RowsOf
  <2>2. CASE Exists(o) /\ r.from = orders[o].status /\ ValidTransition(r.from, r.to)
    <3>1. orders[o].version \in 1 .. orders[o].version
      BY <2>2, <1>0, ExistingRow DEF TypeInv, OrderRow
    <3>2. PICK p \in RowsOf(o) : p.version = orders[o].version
      BY <1>0, <3>1 DEF HistoryExplainsOrder, OneRowPerVersion
    <3>3. p \in history /\ p.order = o /\ p.to = r.from /\ p.version + 1 = r.version
      BY <2>2, <3>2 DEF HistoryExplainsOrder, LastRowIsStatus, RowsOf
    <3>4. \A x \in history :
            \/ x.version = 1 /\ x.from = "NONE" /\ x.to = "PENDING"
            \/ /\ ValidTransition(x.from, x.to)
               /\ \E y \in history : y.order = x.order /\ y.version + 1 = x.version /\ y.to = x.from
      BY DEF HistoryExplainsOrder, RowsChain, RowsOf
    <3> QED BY <2>2, <3>3, <3>4 DEF RowsChain, RowsOf
  <2> QED BY <2>1, <2>2
<1>6. LastRowIsStatus'
  <2>1. ASSUME NEW x \in history, x.version = orders'[x.order].version
        PROVE  x.to = orders'[x.order].status
    <3>1. x.order # o
      BY <2>1, <1>0, <1>2, <1>3
    <3> QED BY <2>1, <3>1, <1>1, <1>3 DEF HistoryExplainsOrder, LastRowIsStatus
  <2>2. r.to = orders'[o].status
    BY <1>0, <1>3
  <2> QED BY <2>1, <2>2 DEF LastRowIsStatus
<1> QED BY <1>2, <1>4, <1>5, <1>6 DEF HistoryExplainsOrder

(* A transaction that ends, or none that begins, keeps the locks apart.    *)
LEMMA LocksKept ==
  ASSUME LocksHold, \A g \in Handlers : tx'[g] = tx[g] \/ tx'[g].op = "idle"
  PROVE  LocksHold'
BY DEF LocksHold

(* A transaction that begins found its lock free.                          *)
LEMMA LocksTaken ==
  ASSUME LocksHold, NEW h \in Handlers, \A g \in Handlers \ {h} : tx'[g] = tx[g],
         \A g \in Handlers \ {h} : tx[g].op = tx'[h].op =>
           /\ tx[g].op = "create" => ~ /\ tx[g].intake.source = tx'[h].intake.source
                                       /\ tx[g].intake.key = tx'[h].intake.key
           /\ tx[g].op = "transition" => tx[g].row.order # tx'[h].row.order
           /\ tx[g].op = "cash" => tx[g].payment.order # tx'[h].payment.order
  PROVE  LocksHold'
BY DEF LocksHold

(* Every answer closes the transaction of its handler.                     *)
LEMMA Answered ==
  ASSUME TypeOK, NEW h \in Handlers, NEW r, Answer(h, r)
  PROVE  /\ \A g \in Handlers : tx'[g] = tx[g] \/ tx'[g].op = "idle"
         /\ \A g \in Handlers \ {h} : tx'[g] = tx[g] /\ reply'[g] = reply[g]
         /\ reply'[h] = r
BY DEF TypeOK, Answer, Idle

LEMMA Opened ==
  ASSUME TypeOK, NEW h \in Handlers, NEW t, Open(h, t)
  PROVE  /\ \A g \in Handlers \ {h} : tx'[g] = tx[g] /\ reply'[g] = reply[g]
         /\ tx'[h] = t /\ reply'[h].kind = "none"
BY DEF TypeOK, Open, NoReply

LEMMA LocksStep ==
  ASSUME TypeInv, LocksHold, [Next]_vars
  PROVE  LocksHold'
<1> USE DEF TypeInv
<1>1. ASSUME NEW h \in Handlers, NEW r, Answer(h, r) PROVE LocksHold'
  BY <1>1, Answered, LocksKept
<1>2. ASSUME NEW h \in Handlers, NEW i \in IntakeRow, BeginCreate(h, i) PROVE LocksHold'
  <2>1. CASE Open(h, [op |-> "create", intake |-> i])
    BY <1>2, <2>1, Opened, LocksTaken DEF BeginCreate, SourceKeyLocked
  <2> QED BY <1>1, <1>2, <2>1 DEF BeginCreate
<1>3. ASSUME NEW h \in Handlers, NEW o \in Orders, NEW p \in Payloads, NEW key \in Keys,
             NEW actor \in Actors, BeginTransition(h, o, p, key, actor)
      PROVE  LocksHold'
  <2>1. ASSUME NEW row, row.order = o, Open(h, [op |-> "transition", row |-> row]) PROVE LocksHold'
    BY <1>3, <2>1, Opened, LocksTaken DEF BeginTransition, OrderRowLocked
  <2> QED BY <1>1, <1>3, <2>1 DEF BeginTransition
<1>4. ASSUME NEW h \in Handlers, NEW o \in Orders, NEW key \in Keys, NEW amount \in Amounts,
             NEW actor \in Actors, BeginCash(h, o, key, amount, actor)
      PROVE  LocksHold'
  <2>1. ASSUME NEW c, c.order = o, Open(h, [op |-> "cash", payment |-> c]) PROVE LocksHold'
    BY <1>4, <2>1, Opened, LocksTaken DEF BeginCash, CashLocked
  <2> QED BY <1>1, <1>4, <2>1 DEF BeginCash
<1>5. ASSUME NEW h \in Handlers, \/ \E total \in Totals : CommitCreate(h, total)
                                 \/ RefuseCart(h) \/ CommitTransition(h)
                                 \/ CommitCash(h) \/ Rollback(h)
      PROVE  LocksHold'
  BY <1>1, <1>5 DEF CommitCreate, RefuseCart, CommitTransition, CommitCash, Rollback
<1>6. CASE UNCHANGED tx
  BY <1>6, LocksKept
<1> QED BY <1>2, <1>3, <1>4, <1>5, <1>6, HandleCases DEF Next, PrepareQris, QrisWebhook, vars

(* A step leaves alone what a transition of order o has read.              *)
Kept(o) ==
  /\ orders'[o] = orders[o]
  /\ \A r \in history' : r.order = o => r \in history
  /\ \A c \in cash : c \in cash'
  /\ qris[o] \in {"PAID", "REFUNDED"} => qris'[o] \in {"PAID", "REFUNDED"}

LEMMA ReadyKept ==
  ASSUME TypeInv, TransitionReady,
         \A g \in Handlers : tx'[g].op = "transition" =>
           tx'[g] = tx[g] /\ \E o \in Orders : o = tx[g].row.order /\ Kept(o)
  PROVE  TransitionReady'
<1> SUFFICES ASSUME NEW g \in Handlers, tx'[g].op = "transition", NEW r, r = tx'[g].row
             PROVE  /\ r.from = orders'[r.order].status
                    /\ r.version = orders'[r.order].version + 1
                    /\ ValidTransition(r.from, r.to)
                    /\ {x \in history' : x.order = r.order /\ x.key = r.key} = {}
                    /\ r.to = "COMPLETED" /\ orders'[r.order].total > 0 =>
                         \/ qris'[r.order] \in {"PAID", "REFUNDED"}
                         \/ \E c \in cash' : c.order = r.order
  BY DEF TransitionReady, Applied, Settled
<1>1. r = tx[g].row /\ tx[g].op = "transition" /\ \E o \in Orders : o = r.order /\ Kept(o)
  OBVIOUS
<1>2. /\ r.from = orders[r.order].status
      /\ r.version = orders[r.order].version + 1
      /\ ValidTransition(r.from, r.to)
      /\ {x \in history : x.order = r.order /\ x.key = r.key} = {}
      /\ r.to = "COMPLETED" /\ orders[r.order].total > 0 =>
           \/ qris[r.order] \in {"PAID", "REFUNDED"}
           \/ \E c \in cash : c.order = r.order
  BY <1>1 DEF TransitionReady, Applied, Settled
<1> QED BY <1>1, <1>2 DEF Kept

LEMMA KeptAll ==
  ASSUME UNCHANGED tables, NEW o
  PROVE  Kept(o)
BY DEF Kept, tables

HistoryParts == TransitionReady /\ HistoryExplainsOrder /\ CompletedIsPaid

HistoryInv ==
  /\ TypeInv
  /\ LocksHold
  /\ TransitionReady
  /\ HistoryExplainsOrder
  /\ CompletedIsPaid

(* Reading steps that open no transition.                                  *)
LEMMA ReadOnlyHistory ==
  ASSUME HistoryInv, UNCHANGED <<orders, history, outbox>>,
         \A o \in Orders : Kept(o),
         \A g \in Handlers : tx'[g] = tx[g] \/ tx'[g].op # "transition"
  PROVE  HistoryParts'
<1>1. TransitionReady'
  <2>1. \A g \in Handlers : tx[g].op = "transition" => tx[g].row.order \in Orders
    BY OpenRow DEF HistoryInv, TypeInv, TransitionRow
  <2>2. \A g \in Handlers : tx'[g].op = "transition" =>
          tx'[g] = tx[g] /\ \E o \in Orders : o = tx[g].row.order /\ Kept(o)
    BY <2>1
  <2> QED BY <2>2, ReadyKept DEF HistoryInv
<1>2. HistoryExplainsOrder'
  BY DEF HistoryInv, HistoryExplainsOrder, OneRowPerVersion, RowsChain, LastRowIsStatus, RowsOf
<1>3. CompletedIsPaid'
  BY DEF HistoryInv, CompletedIsPaid, Settled, Kept
<1> QED BY <1>1, <1>2, <1>3 DEF HistoryParts

LEMMA CommitCreateHistory ==
  ASSUME HistoryInv, NEW h \in Handlers, NEW total \in Totals, CommitCreate(h, total)
  PROVE  HistoryParts'
<1>0. TypeOK
  BY DEF HistoryInv, TypeInv
<1>1. PICK i \in IntakeRow :
           /\ \/ OrderInsertable(i) /\ InsertOrder(i, total)
              \/ UNCHANGED tables
           /\ \E r : Answer(h, r)
  BY <1>0, CommitCreateRow
<1>2. \A g \in Handlers : tx'[g] = tx[g] \/ tx'[g].op = "idle"
  BY <1>0, <1>1, Answered
<1>3. CASE UNCHANGED tables
  BY <1>2, <1>3, KeptAll, ReadOnlyHistory DEF tables
<1>4. CASE OrderInsertable(i) /\ InsertOrder(i, total)
  <2> DEFINE o == i.order
             first == [order |-> o, from |-> "NONE", to |-> "PENDING", version |-> 1,
                       key |-> NoKey, payload |-> NoKey, actor |-> NoKey]
             row == [status |-> "PENDING", version |-> 1, total |-> total]
  <2>1. o \in Orders /\ orders[o] = NoOrder
    BY <1>0, <1>4 DEF OrderInsertable, Exists, IntakeRow, TypeOK, OrderRow, Statuses
  <2>2. first \in HistoryRow /\ row \in OrderRow
    BY <2>1 DEF HistoryRow, CreationRow, OrderRow, Statuses
  <2>3. orders' = [orders EXCEPT ![o] = row] /\ history' = history \cup {first}
        /\ UNCHANGED <<cash, qris>>
    BY <1>4 DEF InsertOrder
  <2>4. HistoryExplainsOrder'
    <3>1. first.order = o /\ first.version = 1 /\ first.from = "NONE" /\ first.to = "PENDING"
          /\ row.version = 1 /\ row.status = "PENDING"
      OBVIOUS
    <3>2. first.version = orders[first.order].version + 1
      BY <2>1 DEF NoOrder
    <3>3. orders' = [orders EXCEPT ![first.order] = row]
      BY <2>3
    <3> HIDE DEF first, row
    <3>4. row.version = first.version /\ row.status = first.to
      BY <3>1
    <3>5. TypeInv /\ HistoryExplainsOrder
      BY DEF HistoryInv
    <3> QED BY <2>2, <2>3, <3>1, <3>2, <3>3, <3>4, <3>5, AppendRow
  <2>5. \A q \in Orders \ {o} : Kept(q)
    BY <2>1, <2>3, <1>0 DEF Kept, TypeOK
  <2>6. \A g \in Handlers : tx[g].op = "transition" => tx[g].row.order \in Orders \ {o}
    BY <1>4, OpenRow DEF HistoryInv, TypeInv, TransitionRow, OrderInsertable, RowsExist
  <2>7. TransitionReady'
    <3>1. \A g \in Handlers : tx'[g].op = "transition" =>
            tx'[g] = tx[g] /\ \E q \in Orders : q = tx[g].row.order /\ Kept(q)
      BY <1>2, <2>5, <2>6
    <3> QED BY <3>1, ReadyKept DEF HistoryInv
  <2>8. CompletedIsPaid'
    BY <1>0, <2>1, <2>3 DEF HistoryInv, CompletedIsPaid, Settled, TypeOK
  <2> QED BY <2>4, <2>7, <2>8 DEF HistoryParts
<1> QED BY <1>1, <1>3, <1>4

LEMMA BeginTransitionHistory ==
  ASSUME HistoryInv, NEW h \in Handlers, NEW o \in Orders, NEW p \in Payloads, NEW key \in Keys,
         NEW actor \in Actors, BeginTransition(h, o, p, key, actor)
  PROVE  HistoryParts'
<1> DEFINE row == [order |-> o, from |-> orders[o].status, to |-> p.target,
                   version |-> orders[o].version + 1, key |-> key,
                   payload |-> p, actor |-> actor]
<1>0. TypeOK /\ UNCHANGED tables
  BY DEF HistoryInv, TypeInv, BeginTransition
<1>1. ASSUME NEW r, Answer(h, r)
      PROVE  HistoryParts'
  BY <1>0, <1>1, Answered, KeptAll, ReadOnlyHistory DEF tables
<1>2. CASE Permitted(o, p) /\ Applied(o, key) = {} /\ Open(h, [op |-> "transition", row |-> row])
  <2>1. TransitionReady'
    <3>1. \A g \in Handlers \ {h} : tx'[g] = tx[g]
      BY <1>0, <1>2, Opened
    <3>2. tx'[h].row = row
      BY <1>0, <1>2, Opened
    <3>3. IsPaid(o) => Settled(o)
      BY DEF IsPaid, Settled
    <3>4. row.version = orders[o].version + 1 /\ ValidTransition(row.from, row.to)
          /\ (row.to = "COMPLETED" /\ orders[o].total > 0 => Settled(o))
      BY <1>2, <3>3 DEF Permitted
    <3>5. ASSUME NEW g \in Handlers \ {h}, tx'[g].op = "transition"
          PROVE  /\ tx[g].row.from = orders[tx[g].row.order].status
                 /\ tx[g].row.version = orders[tx[g].row.order].version + 1
                 /\ ValidTransition(tx[g].row.from, tx[g].row.to)
                 /\ Applied(tx[g].row.order, tx[g].row.key) = {}
                 /\ tx[g].row.to = "COMPLETED" /\ orders[tx[g].row.order].total > 0
                      => Settled(tx[g].row.order)
      BY <3>1, <3>5 DEF HistoryInv, TransitionReady
    <3> HIDE DEF row
    <3>6. row.order = o /\ row.from = orders[o].status /\ row.key = key
      BY DEF row
    <3> QED BY <1>0, <1>2, <3>1, <3>2, <3>4, <3>5, <3>6 DEF TransitionReady, Applied, Settled, tables
  <2>2. HistoryExplainsOrder'
    BY <1>0 DEF tables, HistoryInv, HistoryExplainsOrder, OneRowPerVersion, RowsChain,
                LastRowIsStatus, RowsOf
  <2>3. CompletedIsPaid'
    BY <1>0 DEF tables, HistoryInv, CompletedIsPaid, Settled
  <2> QED BY <2>1, <2>2, <2>3 DEF HistoryParts
<1> QED BY <1>1, <1>2 DEF BeginTransition

LEMMA CommitTransitionHistory ==
  ASSUME HistoryInv, NEW h \in Handlers, CommitTransition(h)
  PROVE  HistoryParts'
<1>0. TypeOK
  BY DEF HistoryInv, TypeInv
<1>1. PICK r \in TransitionRow :
        /\ r = tx[h].row /\ tx[h].op = "transition"
        /\ \E a : Answer(h, a)
        /\ \/ /\ orders' = [orders EXCEPT ![r.order].status = r.to,
                                          ![r.order].version = r.version]
              /\ history' = history \cup {r}
              /\ UNCHANGED <<intake, cash, qris>>
           \/ UNCHANGED tables
  BY <1>0, CommitTransitionRow
<1>2. /\ \A g \in Handlers : tx'[g] = tx[g] \/ tx'[g].op = "idle"
      /\ \A g \in Handlers : tx'[g].op = "transition" => tx'[g] = tx[g]
      /\ tx'[h].op = "idle"
  BY <1>0, <1>1, Answered DEF Answer, TypeOK, Idle
<1>3. CASE UNCHANGED tables
  BY <1>2, <1>3, KeptAll, ReadOnlyHistory DEF tables
<1>4. CASE /\ orders' = [orders EXCEPT ![r.order].status = r.to, ![r.order].version = r.version]
           /\ history' = history \cup {r}
           /\ UNCHANGED <<intake, cash, qris>>
  <2>1. Exists(r.order) /\ r.order \in Orders /\ r \in HistoryRow
    BY <1>1 DEF HistoryInv, TypeInv, RowsExist, TransitionRow, HistoryRow
  <2>2. PICK row \in OrderRow :
          /\ row = [status |-> r.to, version |-> r.version, total |-> orders[r.order].total]
          /\ orders' = [orders EXCEPT ![r.order] = row]
    BY <1>0, <1>4, <2>1, UpdatedRow
  <2>3. /\ r.from = orders[r.order].status
        /\ r.version = orders[r.order].version + 1
        /\ ValidTransition(r.from, r.to)
        /\ r.to = "COMPLETED" /\ orders[r.order].total > 0 => Settled(r.order)
    BY <1>1 DEF HistoryInv, TransitionReady
  <2>4. row.version = r.version /\ row.status = r.to /\ row.total = orders[r.order].total
    BY <2>2
  <2>5. HistoryExplainsOrder'
    BY <1>4, <2>1, <2>2, <2>3, <2>4, AppendRow DEF HistoryInv
  <2>6. \A q \in Orders \ {r.order} : Kept(q)
    BY <1>0, <1>4, <2>1, <2>2 DEF Kept, TypeOK
  <2>7. \A g \in Handlers : tx'[g].op = "transition" =>
          tx'[g] = tx[g] /\ \E q \in Orders : q = tx[g].row.order /\ Kept(q)
    <3> SUFFICES ASSUME NEW g \in Handlers, tx'[g].op = "transition"
                 PROVE  tx'[g] = tx[g] /\ \E q \in Orders : q = tx[g].row.order /\ Kept(q)
      OBVIOUS
    <3>1. tx'[g] = tx[g] /\ g # h
      BY <1>2
    <3>2. tx[g].row.order \in Orders \ {r.order}
      BY <1>0, <1>1, <3>1, OpenRow DEF HistoryInv, LocksHold, TransitionRow
    <3> QED BY <2>6, <3>1, <3>2
  <2>8. TransitionReady'
    BY <2>7, ReadyKept DEF HistoryInv
  <2>9. CompletedIsPaid'
    BY <1>0, <1>4, <2>1, <2>2, <2>3, <2>4 DEF HistoryInv, CompletedIsPaid, Settled, TypeOK
  <2> QED BY <2>5, <2>8, <2>9 DEF HistoryParts
<1> QED BY <1>1, <1>3, <1>4

(* Cash and QRIS steps add payments and leave the orders alone.            *)
LEMMA PaymentHistory ==
  ASSUME HistoryInv, UNCHANGED <<orders, history, outbox>>,
         \A c \in cash : c \in cash',
         \A o \in Orders : qris[o] \in {"PAID", "REFUNDED"} => qris'[o] \in {"PAID", "REFUNDED"},
         \A g \in Handlers : tx'[g] = tx[g] \/ tx'[g].op # "transition"
  PROVE  HistoryParts'
<1>1. \A o \in Orders : Kept(o)
  BY DEF Kept
<1> QED BY <1>1, ReadOnlyHistory

LEMMA HistoryInvStep ==
  ASSUME HistoryInv, [Next]_vars
  PROVE  HistoryInv'
<1>0. TypeOK
  BY DEF HistoryInv, TypeInv
<1>1. ASSUME NEW h \in Handlers, Handle(h) PROVE HistoryParts'
  <2>1. ASSUME NEW i \in IntakeRow, BeginCreate(h, i) PROVE HistoryParts'
    <3>1. \A g \in Handlers : tx'[g] = tx[g] \/ tx'[g].op # "transition"
      <4>1. CASE Open(h, [op |-> "create", intake |-> i])
        BY <1>0, <4>1, Opened
      <4>2. CASE \E r : Answer(h, r)
        BY <1>0, <4>2, Answered
      <4> QED BY <2>1, <4>1, <4>2 DEF BeginCreate
    <3> QED BY <2>1, <3>1, PaymentHistory DEF BeginCreate, tables
  <2>2. ASSUME NEW o \in Orders, NEW key \in Keys, NEW amount \in Amounts, NEW actor \in Actors,
               BeginCash(h, o, key, amount, actor)
        PROVE  HistoryParts'
    <3>1. \A g \in Handlers : tx'[g] = tx[g] \/ tx'[g].op # "transition"
      <4>1. CASE \E c : Open(h, [op |-> "cash", payment |-> c])
        BY <1>0, <4>1, Opened
      <4>2. CASE \E r : Answer(h, r)
        BY <1>0, <4>2, Answered
      <4> QED BY <2>2, <4>1, <4>2 DEF BeginCash
    <3> QED BY <2>2, <3>1, PaymentHistory DEF BeginCash, tables
  <2>3. ASSUME CommitCash(h) PROVE HistoryParts'
    <3>1. \E r : Answer(h, r)
      BY <2>3 DEF CommitCash
    <3>2. UNCHANGED <<orders, history, outbox, qris>> /\ \A c \in cash : c \in cash'
      BY <2>3 DEF CommitCash, tables
    <3> QED BY <1>0, <3>1, <3>2, Answered, PaymentHistory
  <2>4. ASSUME RefuseCart(h) \/ Rollback(h) PROVE HistoryParts'
    <3>1. \E r : Answer(h, r)
      BY <2>4 DEF RefuseCart, Rollback
    <3>2. UNCHANGED tables
      BY <2>4 DEF RefuseCart, Rollback
    <3> QED BY <1>0, <3>1, <3>2, Answered, PaymentHistory DEF tables
  <2> QED BY <1>1, <2>1, <2>2, <2>3, <2>4, HandleCases, CommitCreateHistory,
             BeginTransitionHistory, CommitTransitionHistory
<1>2. ASSUME NEW o \in Orders, PrepareQris(o) \/ QrisWebhook(o) PROVE HistoryParts'
  <2>1. \A q \in Orders : qris[q] \in {"PAID", "REFUNDED"} => qris'[q] \in {"PAID", "REFUNDED"}
    BY <1>0, <1>2 DEF PrepareQris, QrisWebhook, TypeOK
  <2> QED BY <1>2, <2>1, PaymentHistory DEF PrepareQris, QrisWebhook
<1>3. ASSUME UNCHANGED vars PROVE HistoryParts'
  <2>1. /\ UNCHANGED <<orders, history, outbox>> /\ cash' = cash
        /\ qris' = qris /\ tx' = tx
    BY <1>3 DEF vars
  <2> QED BY <2>1, PaymentHistory
<1>4. HistoryParts'
  BY <1>1, <1>2, <1>3 DEF Next
<1> QED BY <1>4, TypeInvStep, LocksStep DEF HistoryInv, HistoryParts

LEMMA HistoryInvInit == Init => HistoryInv
<1> SUFFICES ASSUME Init PROVE HistoryInv
  OBVIOUS
<1>1. LocksHold /\ TransitionReady
  BY DEF Init, LocksHold, TransitionReady, Idle
<1>2. HistoryExplainsOrder
  <2>1. \A o \in Orders : {r.version : r \in RowsOf(o)} = {} /\ 1 .. orders[o].version = {}
    <3>1. \A o \in Orders : RowsOf(o) = {} /\ orders[o].version = 0
      BY DEF Init, RowsOf, NoOrder
    <3>2. 1 .. 0 = {}
      OBVIOUS
    <3> QED BY <3>1, <3>2
  <2> QED BY <2>1 DEF Init, HistoryExplainsOrder, OneRowPerVersion, RowsChain, LastRowIsStatus
<1>3. CompletedIsPaid
  BY DEF Init, CompletedIsPaid, NoOrder
<1> QED BY <1>1, <1>2, <1>3, TypeInvInit DEF HistoryInv

(* The history table tells the whole life of every order, however many     *)
(* requests race on it: Transition decides under the row lock it writes    *)
(* under.                                                                  *)
THEOREM HistoryIsComplete == Spec => []HistoryExplainsOrder
<1>1. HistoryInv => HistoryExplainsOrder
  BY DEF HistoryInv
<1> QED BY <1>1, HistoryInvInit, HistoryInvStep, PTL DEF Spec

(* No order with a price is completed before a payment of it was settled:  *)
(* a settled payment stays settled while Transition holds the order.       *)
THEOREM CompletionIsPaid == Spec => []CompletedIsPaid
<1>1. HistoryInv => CompletedIsPaid
  BY DEF HistoryInv
<1> QED BY <1>1, HistoryInvInit, HistoryInvStep, PTL DEF Spec

(* What a commit does to the order table.                                  *)
LEMMA OrdersStep ==
  ASSUME HistoryInv, [Next]_vars
  PROVE  \/ UNCHANGED orders
         \/ \E o \in Orders, total \in Totals :
              /\ ~Exists(o)
              /\ orders' = [orders EXCEPT ![o] = [status |-> "PENDING", version |-> 1, total |-> total]]
         \/ \E o \in Orders, row \in OrderRow :
              /\ orders' = [orders EXCEPT ![o] = row]
              /\ ValidTransition(orders[o].status, row.status)
              /\ row.version = orders[o].version + 1
              /\ row.total = orders[o].total
              /\ Exists(o)
<1> DEFINE Created == \E o \in Orders, total \in Totals :
                        /\ ~Exists(o)
                        /\ orders' = [orders EXCEPT ![o] =
                             [status |-> "PENDING", version |-> 1, total |-> total]]
           Moved == \E o \in Orders, row \in OrderRow :
                      /\ orders' = [orders EXCEPT ![o] = row]
                      /\ ValidTransition(orders[o].status, row.status)
                      /\ row.version = orders[o].version + 1
                      /\ row.total = orders[o].total
                      /\ Exists(o)
<1>0. TypeOK
  BY DEF HistoryInv, TypeInv
<1>1. ASSUME NEW h \in Handlers, NEW total \in Totals, CommitCreate(h, total)
      PROVE  UNCHANGED orders \/ Created
  <2>1. PICK i \in IntakeRow :
          (OrderInsertable(i) /\ InsertOrder(i, total)) \/ UNCHANGED tables
    BY <1>0, <1>1, CommitCreateRow
  <2>2. CASE UNCHANGED tables
    BY <2>2 DEF tables
  <2>3. CASE OrderInsertable(i) /\ InsertOrder(i, total)
    <3>1. i.order \in Orders /\ ~Exists(i.order)
      BY <2>3 DEF OrderInsertable, IntakeRow
    <3> QED BY <2>3, <3>1 DEF InsertOrder
  <2> QED BY <2>1, <2>2, <2>3
<1>2. ASSUME NEW h \in Handlers, CommitTransition(h)
      PROVE  UNCHANGED orders \/ Moved
  <2>1. PICK r \in TransitionRow :
          /\ r = tx[h].row /\ tx[h].op = "transition"
          /\ \/ orders' = [orders EXCEPT ![r.order].status = r.to, ![r.order].version = r.version]
             \/ UNCHANGED orders
    BY <1>0, <1>2, CommitTransitionRow DEF tables
  <2>2. CASE orders' = [orders EXCEPT ![r.order].status = r.to, ![r.order].version = r.version]
    <3>1. Exists(r.order) /\ r.order \in Orders
      BY <2>1 DEF HistoryInv, TypeInv, RowsExist, TransitionRow
    <3>2. PICK row \in OrderRow :
            /\ row = [status |-> r.to, version |-> r.version, total |-> orders[r.order].total]
            /\ orders' = [orders EXCEPT ![r.order] = row]
      BY <1>0, <2>2, <3>1, UpdatedRow
    <3>3. r.from = orders[r.order].status /\ r.version = orders[r.order].version + 1
          /\ ValidTransition(r.from, r.to)
      BY <2>1 DEF HistoryInv, TransitionReady
    <3> QED BY <3>1, <3>2, <3>3
  <2> QED BY <2>1, <2>2
<1>3. ASSUME NEW h \in Handlers, Handle(h)
      PROVE  UNCHANGED orders \/ Created \/ Moved
  <2>1. \/ UNCHANGED orders \/ CommitTransition(h)
        \/ \E total \in Totals : CommitCreate(h, total)
    <3>1. CommitCash(h) => UNCHANGED orders
      BY DEF CommitCash, tables
    <3>2. UNCHANGED tables => UNCHANGED orders
      BY DEF tables
    <3> QED BY <1>3, <3>1, <3>2, CommitsWrite
  <2> HIDE DEF Created, Moved
  <2> QED BY <1>1, <1>2, <2>1
<1>4. UNCHANGED orders \/ Created \/ Moved
  <2>1. ASSUME NEW o \in Orders, PrepareQris(o) \/ QrisWebhook(o) PROVE UNCHANGED orders
    BY <2>1 DEF PrepareQris, QrisWebhook
  <2>2. CASE UNCHANGED vars
    BY <2>2 DEF vars
  <2> HIDE DEF Created, Moved
  <2> QED BY <1>3, <2>1, <2>2 DEF Next
<1> QED BY <1>4

(* An order only comes into being as PENDING or makes one legal transition *)
(* that adds one to its version and keeps its price.                       *)
THEOREM LifecycleIsRespected == Spec => LifecycleSteps
<1>1. HistoryInv /\ [Next]_vars =>
        [\A o \in Orders : orders'[o] # orders[o] => LifecycleStep(o)]_orders
  <2> SUFFICES ASSUME HistoryInv, [Next]_vars, NEW o \in Orders, orders'[o] # orders[o]
               PROVE  LifecycleStep(o)
    OBVIOUS
  <2>1. orders \in [Orders -> OrderRow \cup {NoOrder}]
    BY DEF HistoryInv, TypeInv, TypeOK
  <2>2. CASE \E q \in Orders, total \in Totals :
              /\ ~Exists(q)
              /\ orders' = [orders EXCEPT ![q] = [status |-> "PENDING", version |-> 1, total |-> total]]
    BY <2>1, <2>2 DEF LifecycleStep, Exists
  <2>3. CASE \E q \in Orders, row \in OrderRow :
              /\ orders' = [orders EXCEPT ![q] = row]
              /\ ValidTransition(orders[q].status, row.status)
              /\ row.version = orders[q].version + 1
              /\ row.total = orders[q].total
    BY <2>1, <2>3 DEF LifecycleStep
  <2> QED BY <2>2, <2>3, OrdersStep
<1> QED BY <1>1, HistoryInvInit, HistoryInvStep, PTL DEF Spec, LifecycleSteps

(* A transition that passed its checks is never stopped by a unique key of *)
(* the history table: the row lock already keeps its version and key free. *)
THEOREM TransitionsInsert == Spec => []TransitionNeverDuplicates
<1>1. Init => TransitionNeverDuplicates
  BY DEF Init, TransitionNeverDuplicates, NoReply, Duplicate
<1>2. HistoryInv /\ TransitionNeverDuplicates /\ [Next]_vars => TransitionNeverDuplicates'
  <2> SUFFICES ASSUME HistoryInv, TransitionNeverDuplicates, [Next]_vars
               PROVE  TransitionNeverDuplicates'
    OBVIOUS
  <2>0. TypeOK
    BY DEF HistoryInv, TypeInv
  <2>1. ASSUME NEW h \in Handlers, NEW r, Answer(h, r), r.kind # "duplicate" \/ r.op # "transition"
        PROVE  TransitionNeverDuplicates'
    BY <2>0, <2>1, Answered DEF TransitionNeverDuplicates, Duplicate
  <2>2. ASSUME NEW h \in Handlers, NEW t, Open(h, t) PROVE TransitionNeverDuplicates'
    <3>1. reply' = [reply EXCEPT ![h] = NoReply]
      BY <2>2 DEF Open
    <3> QED BY <2>0, <3>1 DEF TransitionNeverDuplicates, Duplicate, NoReply, TypeOK
  <2>3. ASSUME NEW h \in Handlers, CommitTransition(h) PROVE TransitionNeverDuplicates'
    <3>1. PICK r \in TransitionRow :
            /\ r = tx[h].row /\ tx[h].op = "transition"
            /\ \/ Answer(h, [kind |-> "done", order |-> r.order, key |-> r.key,
                             status |-> r.to, version |-> r.version])
               \/ ~HistoryInsertable(r)
      BY <2>0, <2>3, CommitTransitionRow
    <3>2. HistoryInsertable(r)
      <4>1. r.version = orders[r.order].version + 1 /\ Applied(r.order, r.key) = {}
        BY <3>1 DEF HistoryInv, TransitionReady
      <4>2. \A x \in history : x.order = r.order => x.version \in 1 .. orders[r.order].version
        BY DEF HistoryInv, HistoryExplainsOrder, OneRowPerVersion, RowsOf, TransitionRow
      <4>3. orders[r.order].version \in Nat
        BY <2>0 DEF TypeOK, TransitionRow, OrderRow, NoOrder
      <4> QED BY <4>1, <4>2, <4>3 DEF HistoryInsertable, Applied
    <3> QED BY <2>1, <3>1, <3>2
  <2>4. ASSUME NEW h \in Handlers, Handle(h) PROVE TransitionNeverDuplicates'
    <3>1. ASSUME NEW i \in IntakeRow, BeginCreate(h, i) PROVE TransitionNeverDuplicates'
      BY <2>1, <2>2, <3>1 DEF BeginCreate, Reported
    <3>2. ASSUME NEW total \in Totals, CommitCreate(h, total) PROVE TransitionNeverDuplicates'
      BY <2>1, <3>2 DEF CommitCreate
    <3>3. ASSUME NEW o \in Orders, NEW p \in Payloads, NEW key \in Keys, NEW actor \in Actors,
                 BeginTransition(h, o, p, key, actor)
          PROVE  TransitionNeverDuplicates'
      BY <2>1, <2>2, <3>3 DEF BeginTransition, Reported, Refused
    <3>4. ASSUME NEW o \in Orders, NEW key \in Keys, NEW amount \in Amounts, NEW actor \in Actors,
                 BeginCash(h, o, key, amount, actor)
          PROVE  TransitionNeverDuplicates'
      BY <2>1, <2>2, <3>4 DEF BeginCash, Refused, NoReply
    <3>5. ASSUME CommitCash(h) \/ RefuseCart(h) \/ Rollback(h) PROVE TransitionNeverDuplicates'
      BY <2>1, <3>5 DEF CommitCash, RefuseCart, Rollback, Refused, Duplicate, NoReply
    <3> QED BY <2>3, <2>4, <3>1, <3>2, <3>3, <3>4, <3>5, HandleCases
  <2>5. CASE UNCHANGED reply
    BY <2>5 DEF TransitionNeverDuplicates
  <2> QED BY <2>4, <2>5 DEF Next, PrepareQris, QrisWebhook, vars
<1> QED BY <1>1, <1>2, HistoryInvInit, HistoryInvStep, PTL DEF Spec

-----------------------------------------------------------------------------
(* The till.  RecordCash prices the payment against the order row it has   *)
(* locked, and neither a transition nor a creation changes the total of an *)
(* order that exists.                                                      *)
LEMMA CashStep ==
  ASSUME TypeInv, [Next]_vars
  PROVE  \/ UNCHANGED cash
         \/ \E c \in CashRow : Payable(c) /\ cash' = cash \cup {c} /\ UNCHANGED orders
<1>0. TypeOK
  BY DEF TypeInv
<1>1. ASSUME NEW h \in Handlers, Handle(h)
      PROVE  UNCHANGED cash \/ CommitCash(h)
  <2>1. ASSUME NEW total \in Totals, CommitCreate(h, total)
        PROVE  UNCHANGED cash
    BY <2>1 DEF CommitCreate, InsertOrder, tables
  <2>2. CommitTransition(h) => UNCHANGED cash
    BY DEF CommitTransition, tables
  <2>3. UNCHANGED tables => UNCHANGED cash
    BY DEF tables
  <2> QED BY <1>1, <2>1, <2>2, <2>3, CommitsWrite
<1>2. ASSUME NEW h \in Handlers, CommitCash(h)
      PROVE  \/ UNCHANGED cash
             \/ \E c \in CashRow : Payable(c) /\ cash' = cash \cup {c} /\ UNCHANGED orders
  BY <1>0, <1>2, CommitCashRow DEF tables
<1>3. UNCHANGED cash \/ \E h \in Handlers : CommitCash(h)
  BY <1>1 DEF Next, PrepareQris, QrisWebhook, vars
<1> QED BY <1>2, <1>3

(* At most one cash payment per order, of exactly its total.               *)
THEOREM CashIsExact == Spec => []CashIsSound
<1>1. Init => CashIsSound
  BY DEF Init, CashIsSound
<1>2. HistoryInv /\ CashIsSound /\ [Next]_vars => CashIsSound'
  <2> SUFFICES ASSUME HistoryInv, CashIsSound, [Next]_vars PROVE CashIsSound'
    OBVIOUS
  <2>0. TypeInv /\ TypeOK
    BY DEF HistoryInv, TypeInv
  <2>1. \A c \in cash : c.order \in Orders
    BY <2>0 DEF TypeOK, CashRow
  <2>2. CASE UNCHANGED orders
    BY <2>0, <2>2, CashStep DEF CashIsSound, Payable, Exists
  <2>3. CASE ~UNCHANGED orders
    <3>1. UNCHANGED cash
      BY <2>0, <2>3, CashStep
    <3>2. \A o \in Orders : Exists(o) => /\ orders'[o].status # "NONE"
                                        /\ orders'[o].total = orders[o].total
      BY <2>0, <2>3, OrdersStep DEF Exists, TypeOK, OrderRow, Statuses
    <3> QED BY <2>1, <3>1, <3>2 DEF CashIsSound, Exists
  <2> QED BY <2>2, <2>3
<1> QED BY <1>1, <1>2, HistoryInvInit, HistoryInvStep, PTL DEF Spec

(***************************************************************************)
(* The creation of orders, their events and the replay of transitions;     *)
(* these rest on the invariant HistoryInv.                                 *)
(***************************************************************************)
-----------------------------------------------------------------------------
(* The three create endpoints: whose ids an order may carry.               *)
Origin(i) ==
  /\ i.via = "staff" <=> i.order \in ClientIds
  /\ i.via # "staff" => FreshId(i.order)

LEMMA CreateOrigin ==
  ASSUME NEW h \in Handlers, Handle(h)
  PROVE  \/ \E i \in IntakeRow : Origin(i) /\ BeginCreate(h, i)
         \/ \E total \in Totals : CommitCreate(h, total)
         \/ RefuseCart(h)
         \/ \E o \in Orders, p \in Payloads, key \in Keys, actor \in Actors :
              BeginTransition(h, o, p, key, actor)
         \/ CommitTransition(h)
         \/ \E o \in Orders, key \in Keys, amount \in Amounts, actor \in Actors :
              BeginCash(h, o, key, amount, actor)
         \/ CommitCash(h)
         \/ Rollback(h)
<1>1. ASSUME NEW o \in Orders, NEW src \in Sources, NEW key \in Keys, NEW cart \in Carts,
             StaffCreate(h, o, src, key, cart)
      PROVE  \E i \in IntakeRow : Origin(i) /\ BeginCreate(h, i)
  <2> DEFINE i == [order |-> o, source |-> src, key |-> key, via |-> "staff", cart |-> cart]
  <2>1. i \in IntakeRow
    BY DEF IntakeRow, Endpoints
  <2>2. Origin(i) /\ BeginCreate(h, i)
    BY <1>1 DEF StaffCreate, Origin
  <2> QED BY <2>1, <2>2
<1>2. ASSUME NEW o \in Orders, NEW key \in Keys, NEW cart \in Carts, WebCreate(h, o, key, cart)
      PROVE  \E i \in IntakeRow : Origin(i) /\ BeginCreate(h, i)
  <2> DEFINE i == [order |-> o, source |-> "CUSTOMER_WEB", key |-> key, via |-> "web", cart |-> cart]
  <2>1. i \in IntakeRow
    BY <1>2 DEF IntakeRow, Endpoints, WebCreate
  <2>2. Origin(i) /\ BeginCreate(h, i)
    BY <1>2 DEF WebCreate, Origin, FreshId
  <2> QED BY <2>1, <2>2
<1>3. ASSUME NEW o \in Orders, NEW key \in Keys, NEW cart \in Carts, AgentCreate(h, o, key, cart)
      PROVE  \E i \in IntakeRow : Origin(i) /\ BeginCreate(h, i)
  <2> DEFINE i == [order |-> o, source |-> "WHATSAPP", key |-> key, via |-> "agent", cart |-> cart]
  <2>1. i \in IntakeRow
    BY <1>3 DEF IntakeRow, Endpoints, AgentCreate
  <2>2. Origin(i) /\ BeginCreate(h, i)
    BY <1>3 DEF AgentCreate, Origin, FreshId
  <2> QED BY <2>1, <2>2
<1> QED BY <1>1, <1>2, <1>3 DEF Handle

(* What a step does to the orders that exist.                              *)
LEMMA ExistsStep ==
  ASSUME HistoryInv, [Next]_vars, UNCHANGED intake
  PROVE  \A o \in Orders : Exists(o)' <=> Exists(o)
<1>0. TypeOK
  BY DEF HistoryInv, TypeInv
<1>1. ASSUME NEW h \in Handlers, NEW total \in Totals, CommitCreate(h, total)
      PROVE  UNCHANGED orders
  <2>1. PICK i \in IntakeRow : (OrderInsertable(i) /\ InsertOrder(i, total)) \/ UNCHANGED tables
    BY <1>0, <1>1, CommitCreateRow
  <2>2. ~(OrderInsertable(i) /\ InsertOrder(i, total))
    BY DEF OrderInsertable, InsertOrder
  <2> QED BY <2>1, <2>2 DEF tables
<1>2. ASSUME NEW h \in Handlers, CommitTransition(h)
      PROVE  \A o \in Orders : Exists(o)' <=> Exists(o)
  <2>1. PICK r \in TransitionRow :
          /\ r = tx[h].row /\ tx[h].op = "transition"
          /\ \/ orders' = [orders EXCEPT ![r.order].status = r.to, ![r.order].version = r.version]
             \/ UNCHANGED orders
    BY <1>0, <1>2, CommitTransitionRow DEF tables
  <2>2. CASE orders' = [orders EXCEPT ![r.order].status = r.to, ![r.order].version = r.version]
    <3>1. Exists(r.order) /\ r.order \in Orders
      BY <2>1 DEF HistoryInv, TypeInv, RowsExist, TransitionRow
    <3>2. PICK row \in OrderRow : orders' = [orders EXCEPT ![r.order] = row]
      BY <1>0, <2>2, <3>1, UpdatedRow
    <3> QED BY <1>0, <3>1, <3>2 DEF Exists, OrderRow, Statuses, TypeOK
  <2> QED BY <2>1, <2>2 DEF Exists
<1>3. ASSUME NEW h \in Handlers, Handle(h)
      PROVE  UNCHANGED orders \/ \A o \in Orders : Exists(o)' <=> Exists(o)
  <2>1. \/ UNCHANGED orders \/ CommitTransition(h)
        \/ \E total \in Totals : CommitCreate(h, total)
    <3>1. CommitCash(h) => UNCHANGED orders
      BY DEF CommitCash, tables
    <3>2. UNCHANGED tables => UNCHANGED orders
      BY DEF tables
    <3> QED BY <1>3, <3>1, <3>2, CommitsWrite
  <2> QED BY <1>1, <1>2, <2>1
<1>4. UNCHANGED orders \/ \A o \in Orders : Exists(o)' <=> Exists(o)
  <2>1. ASSUME NEW o \in Orders, PrepareQris(o) \/ QrisWebhook(o) PROVE UNCHANGED orders
    BY <2>1 DEF PrepareQris, QrisWebhook
  <2>2. CASE UNCHANGED vars
    BY <2>2 DEF vars
  <2> QED BY <1>3, <2>1, <2>2 DEF Next
<1> QED BY <1>4 DEF Exists

-----------------------------------------------------------------------------
(* Requests that create orders.                                            *)
IntakeParts == CreateReady /\ ConflictReason /\ OneOrderPerRequest /\ RetryGetsItsOrder

(* Steps that neither open nor commit a creation nor refuse one as a       *)
(* conflict.                                                               *)
LEMMA OtherIntake ==
  ASSUME HistoryInv, IntakeParts, [Next]_vars, UNCHANGED intake,
         \A g \in Handlers : tx'[g] = tx[g] \/ tx'[g].op # "create",
         \A g \in Handlers : reply'[g] = reply[g] \/ reply'[g].kind # "conflict"
  PROVE  IntakeParts'
<1>1. \A o \in Orders : Exists(o)' <=> Exists(o)
  BY ExistsStep
<1>0. TypeOK
  BY DEF HistoryInv, TypeInv
<1>2. CreateReady'
  <2> SUFFICES ASSUME NEW h \in Handlers, tx'[h].op = "create"
               PROVE  LET i == tx'[h].intake
                      IN  /\ \A j \in intake' : ~(j.source = i.source /\ j.key = i.key)
                          /\ i.via = "staff" <=> i.order \in ClientIds
                          /\ i.via # "staff" =>
                               /\ orders'[i.order].status = "NONE"
                               /\ \A g \in Handlers : tx'[g].op = "create" /\ g # h =>
                                                        tx'[g].intake.order # i.order
    BY DEF CreateReady, Exists
  <2>1. tx'[h] = tx[h] /\ tx[h].intake \in IntakeRow
    BY <1>0, OpenRow
  <2>2. tx[h].intake.order \in Orders
    BY <2>1 DEF IntakeRow
  <2>3. \A g \in Handlers : tx'[g].op = "create" => tx'[g] = tx[g]
    OBVIOUS
  <2> QED BY <1>1, <2>1, <2>2, <2>3 DEF IntakeParts, CreateReady, Exists
<1>3. \A h \in Handlers : reply'[h].kind = "conflict" =>
         reply'[h] = reply[h] /\ reply[h].intake \in IntakeRow
  BY <1>0 DEF TypeOK, NoReply, Result, Refusal, Conflict
<1>4. ConflictReason'
  BY <1>1, <1>3 DEF IntakeParts, ConflictReason, Exists, IntakeRow
<1>5. OneOrderPerRequest'
  BY <1>1 DEF IntakeParts, OneOrderPerRequest, Exists
<1>6. RetryGetsItsOrder'
  BY <1>3 DEF IntakeParts, RetryGetsItsOrder, SameBody
<1> QED BY <1>2, <1>4, <1>5, <1>6 DEF IntakeParts

LEMMA BeginCreateIntake ==
  ASSUME HistoryInv, IntakeParts, NEW h \in Handlers, NEW i \in IntakeRow, Origin(i),
         BeginCreate(h, i), [Next]_vars
  PROVE  IntakeParts'
<1> DEFINE known == {j \in intake : j.source = i.source /\ j.key = i.key}
<1>0. TypeOK /\ UNCHANGED intake
  BY DEF HistoryInv, TypeInv, BeginCreate, tables
<1>u. UNCHANGED orders
  BY DEF BeginCreate, tables
<1>1. CASE known = {} /\ Open(h, [op |-> "create", intake |-> i])
  <2>1. /\ tx'[h] = [op |-> "create", intake |-> i] /\ reply'[h].kind = "none"
        /\ \A g \in Handlers \ {h} : tx'[g] = tx[g] /\ reply'[g] = reply[g]
    BY <1>0, <1>1, Opened
  <2>2. CreateReady'
    <3> SUFFICES ASSUME NEW g \in Handlers, tx'[g].op = "create"
                 PROVE  LET j == tx'[g].intake
                        IN  /\ \A k \in intake' : ~(k.source = j.source /\ k.key = j.key)
                            /\ j.via = "staff" <=> j.order \in ClientIds
                            /\ j.via # "staff" =>
                                 /\ ~Exists(j.order)
                                 /\ \A k \in Handlers : tx'[k].op = "create" /\ k # g =>
                                                          tx'[k].intake.order # j.order
      BY <1>u DEF CreateReady, Exists
    <3>1. CASE g = h
      <4>1. \A k \in Handlers : tx'[k].op = "create" /\ k # g /\ i.via # "staff" =>
               tx'[k].intake.order # i.order
        BY <2>1, <3>1 DEF Origin, FreshId
      <4> QED BY <1>0, <1>1, <2>1, <3>1, <4>1 DEF Origin, FreshId
    <3>2. CASE g # h
      <4>1. tx'[g] = tx[g]
        BY <2>1, <3>2
      <4>2. tx[g].intake.via # "staff" => tx[g].intake.order # i.order
        <5>1. CASE i.via = "staff"
          BY <4>1, <5>1 DEF IntakeParts, CreateReady, Origin
        <5>2. CASE i.via # "staff"
          BY <4>1, <5>2 DEF Origin, FreshId
        <5> QED BY <5>1, <5>2
      <4> QED BY <1>0, <2>1, <3>2, <4>1, <4>2 DEF IntakeParts, CreateReady
    <3> QED BY <3>1, <3>2
  <2>3. \A g \in Handlers : reply'[g].kind = "conflict" => reply'[g] = reply[g]
    BY <2>1
  <2>4. ConflictReason' /\ RetryGetsItsOrder'
    BY <1>0, <1>u, <2>3 DEF IntakeParts, ConflictReason, RetryGetsItsOrder, SameBody, Exists
  <2>5. OneOrderPerRequest'
    BY <1>0, <1>u DEF IntakeParts, OneOrderPerRequest, Exists
  <2> QED BY <2>2, <2>4, <2>5 DEF IntakeParts
<1>2. ASSUME NEW j \in known, Answer(h, Reported("existing", j.order, j.key))
      PROVE  IntakeParts'
  <2>1. Reported("existing", j.order, j.key).kind # "conflict"
    BY DEF Reported
  <2> HIDE DEF known
  <2>2. /\ \A g \in Handlers : tx'[g] = tx[g] \/ tx'[g].op = "idle"
        /\ \A g \in Handlers \ {h} : reply'[g] = reply[g]
        /\ reply'[h].kind # "conflict"
    BY <1>0, <1>2, <2>1, Answered
  <2> QED BY <1>0, <2>2, OtherIntake
<1>3. ASSUME NEW j \in known, ~SameBody(j, i), Answer(h, [kind |-> "conflict", intake |-> i])
      PROVE  IntakeParts'
  <2>1. /\ \A g \in Handlers : tx'[g] = tx[g] \/ tx'[g].op = "idle"
        /\ \A g \in Handlers \ {h} : tx'[g] = tx[g] /\ reply'[g] = reply[g]
        /\ reply'[h] = [kind |-> "conflict", intake |-> i]
    BY <1>0, <1>3, Answered
  <2>2. CreateReady'
    BY <1>0, <1>u, <2>1 DEF IntakeParts, CreateReady, Exists
  <2>3. ConflictReason'
    BY <1>0, <1>u, <2>1, <1>3 DEF IntakeParts, ConflictReason, Exists
  <2>4. OneOrderPerRequest'
    BY <1>0, <1>u DEF IntakeParts, OneOrderPerRequest, Exists
  <2>5. \A k \in intake : k.source = i.source /\ k.key = i.key => k = j
    BY <1>3 DEF IntakeParts, OneOrderPerRequest
  <2>6. RetryGetsItsOrder'
    BY <1>0, <2>1, <2>5, <1>3 DEF IntakeParts, RetryGetsItsOrder, SameBody
  <2> QED BY <2>2, <2>3, <2>4, <2>6 DEF IntakeParts
<1> QED BY <1>1, <1>2, <1>3 DEF BeginCreate

LEMMA CommitCreateIntake ==
  ASSUME HistoryInv, IntakeParts, NEW h \in Handlers, NEW total \in Totals,
         CommitCreate(h, total), [Next]_vars
  PROVE  IntakeParts'
<1>0. TypeOK
  BY DEF HistoryInv, TypeInv
<1>1. PICK i \in IntakeRow :
        /\ i = tx[h].intake /\ tx[h].op = "create"
        /\ \/ /\ OrderInsertable(i)
              /\ InsertOrder(i, total)
              /\ Answer(h, [kind |-> "done", order |-> i.order, key |-> i.key,
                            status |-> "PENDING", version |-> 1])
           \/ /\ ~OrderInsertable(i)
              /\ Answer(h, [kind |-> "conflict", intake |-> i])
              /\ UNCHANGED tables
  BY <1>0, CommitCreateRow
<1> DEFINE done == [kind |-> "done", order |-> i.order, key |-> i.key,
                    status |-> "PENDING", version |-> 1]
<1>2. CASE OrderInsertable(i) /\ InsertOrder(i, total) /\ Answer(h, done)
  <2>1. /\ \A g \in Handlers \ {h} : tx'[g] = tx[g] /\ reply'[g] = reply[g]
        /\ tx'[h].op = "idle" /\ reply'[h].kind = "done"
    <3>1. tx' = [tx EXCEPT ![h] = Idle]
      BY <1>2 DEF Answer
    <3> QED BY <1>0, <1>2, <3>1, Answered DEF TypeOK, Idle
  <2>2. /\ intake' = intake \cup {i} /\ i.order \in Orders
        /\ \A j \in intake : ~(j.source = i.source /\ j.key = i.key)
        /\ ~Exists(i.order)
    BY <1>2 DEF InsertOrder, OrderInsertable, IntakeRow
  <2>3. \A o \in Orders : Exists(o)' <=> (Exists(o) \/ o = i.order)
    BY <1>0, <1>2, <2>2 DEF InsertOrder, Exists, TypeOK
  <2>4. CreateReady'
    <3> SUFFICES ASSUME NEW g \in Handlers, tx'[g].op = "create"
                 PROVE  LET j == tx'[g].intake
                        IN  /\ \A k \in intake' : ~(k.source = j.source /\ k.key = j.key)
                            /\ j.via = "staff" <=> j.order \in ClientIds
                            /\ j.via # "staff" =>
                                 /\ orders'[j.order].status = "NONE"
                                 /\ \A k \in Handlers : tx'[k].op = "create" /\ k # g =>
                                                          tx'[k].intake.order # j.order
      BY DEF CreateReady, Exists
    <3>1. g # h /\ tx'[g] = tx[g] /\ tx[g].intake \in IntakeRow
      BY <1>0, <2>1, OpenRow
    <3>2. tx[g].intake.order \in Orders
      BY <3>1 DEF IntakeRow
    <3>3. ~(i.source = tx[g].intake.source /\ i.key = tx[g].intake.key)
      BY <1>1, <3>1 DEF HistoryInv, LocksHold
    <3>4. tx[g].intake.via # "staff" => tx[g].intake.order # i.order
      BY <1>1, <3>1 DEF IntakeParts, CreateReady
    <3>5. \A k \in Handlers : tx'[k].op = "create" => tx'[k] = tx[k]
      BY <2>1
    <3> QED BY <2>2, <2>3, <3>1, <3>2, <3>3, <3>4, <3>5 DEF IntakeParts, CreateReady, Exists
  <2>5. \A g \in Handlers : reply'[g].kind = "conflict" =>
           reply'[g] = reply[g] /\ reply[g].intake \in IntakeRow
    BY <1>0, <2>1 DEF TypeOK, NoReply, Result, Refusal, Conflict
  <2>6. ConflictReason'
    BY <2>2, <2>3, <2>5 DEF IntakeParts, ConflictReason, IntakeRow
  <2>7. OneOrderPerRequest'
    <3>1. \A j \in intake : j.order \in Orders /\ j.order # i.order
      BY <1>0, <2>2 DEF TypeOK, IntakeRow, HistoryInv, TypeInv, RowsExist
    <3>2. \A j, k \in intake' : j.order = k.order \/ (j.source = k.source /\ j.key = k.key) => j = k
      BY <2>2, <3>1 DEF IntakeParts, OneOrderPerRequest
    <3>3. \A o \in Orders : Exists(o)' <=> \E j \in intake' : j.order = o
      BY <2>2, <2>3 DEF IntakeParts, OneOrderPerRequest
    <3> QED BY <3>2, <3>3 DEF OneOrderPerRequest
  <2>8. RetryGetsItsOrder'
    <3> SUFFICES ASSUME NEW g \in Handlers, reply'[g].kind = "conflict", NEW j \in intake',
                        j.source = reply'[g].intake.source, j.key = reply'[g].intake.key,
                        SameBody(j, reply'[g].intake)
                 PROVE  FALSE
      BY DEF RetryGetsItsOrder, SameBody
    <3>1. reply'[g] = reply[g] /\ reply[g].kind = "conflict"
      BY <2>5
    <3>2. CASE j \in intake
      BY <3>1, <3>2 DEF IntakeParts, RetryGetsItsOrder
    <3>3. CASE j = i
      BY <2>2, <3>1, <3>3 DEF IntakeParts, ConflictReason, SameBody
    <3> QED BY <2>2, <3>2, <3>3
  <2> QED BY <2>4, <2>6, <2>7, <2>8 DEF IntakeParts
<1>3. CASE ~OrderInsertable(i) /\ Answer(h, [kind |-> "conflict", intake |-> i]) /\ UNCHANGED tables
  <2>1. /\ \A g \in Handlers : tx'[g] = tx[g] \/ tx'[g].op = "idle"
        /\ \A g \in Handlers \ {h} : tx'[g] = tx[g] /\ reply'[g] = reply[g]
        /\ reply'[h] = [kind |-> "conflict", intake |-> i]
    BY <1>0, <1>3, Answered
  <2>2. UNCHANGED <<orders, intake>>
    BY <1>3 DEF tables
  <2>3. \A j \in intake : ~(j.source = i.source /\ j.key = i.key)
    BY <1>1 DEF IntakeParts, CreateReady
  <2>4. i.via = "staff" /\ Exists(i.order)
    BY <1>1, <1>3, <2>3 DEF IntakeParts, CreateReady, OrderInsertable
  <2>5. CreateReady'
    BY <2>1, <2>2 DEF IntakeParts, CreateReady, Exists
  <2>6. ConflictReason'
    BY <2>1, <2>2, <2>4 DEF IntakeParts, ConflictReason, Exists
  <2>7. OneOrderPerRequest'
    BY <2>2 DEF IntakeParts, OneOrderPerRequest, Exists
  <2>8. RetryGetsItsOrder'
    BY <2>1, <2>2, <2>3 DEF IntakeParts, RetryGetsItsOrder, SameBody
  <2> QED BY <2>5, <2>6, <2>7, <2>8 DEF IntakeParts
<1> QED BY <1>1, <1>2, <1>3

(* The other steps: who answers is idle again and gets no conflict.        *)
LEMMA AnsweredIntake ==
  ASSUME HistoryInv, IntakeParts, [Next]_vars, UNCHANGED intake,
         NEW h \in Handlers, NEW r, Answer(h, r), r.kind # "conflict"
  PROVE  IntakeParts'
<1>1. TypeOK
  BY DEF HistoryInv, TypeInv
<1> QED BY <1>1, Answered, OtherIntake

LEMMA OpenedIntake ==
  ASSUME HistoryInv, IntakeParts, [Next]_vars, UNCHANGED intake,
         NEW h \in Handlers, NEW t, Open(h, t), t.op # "create"
  PROVE  IntakeParts'
<1>1. TypeOK
  BY DEF HistoryInv, TypeInv
<1> QED BY <1>1, Opened, OtherIntake

LEMMA IntakeStep ==
  ASSUME HistoryInv, IntakeParts, [Next]_vars
  PROVE  IntakeParts'
<1>1. ASSUME NEW h \in Handlers, Handle(h) PROVE IntakeParts'
  <2>1. ASSUME NEW o \in Orders, NEW p \in Payloads, NEW key \in Keys, NEW actor \in Actors,
               BeginTransition(h, o, p, key, actor)
        PROVE  IntakeParts'
    <3>1. Refused("transition").kind # "conflict" /\ Reported("replay", o, key).kind # "conflict"
      BY DEF Refused, Reported
    <3> DEFINE t == [op |-> "transition",
                     row |-> [order |-> o, from |-> orders[o].status, to |-> p.target,
                              version |-> orders[o].version + 1, key |-> key,
                              payload |-> p, actor |-> actor]]
    <3>2. t.op # "create"
      OBVIOUS
    <3>3. \/ Answer(h, Refused("transition")) \/ Answer(h, Reported("replay", o, key))
          \/ Open(h, t)
      BY <2>1 DEF BeginTransition
    <3>4. UNCHANGED intake
      BY <2>1 DEF BeginTransition, tables
    <3> HIDE DEF t
    <3> QED BY <3>1, <3>2, <3>3, <3>4, AnsweredIntake, OpenedIntake
  <2>2. ASSUME NEW o \in Orders, NEW key \in Keys, NEW amount \in Amounts, NEW actor \in Actors,
               BeginCash(h, o, key, amount, actor)
        PROVE  IntakeParts'
    <3> DEFINE t == [op |-> "cash", payment |->
                      [order |-> o, key |-> key, amount |-> amount, actor |-> actor]]
    <3>1. t.op # "create" /\ Refused("cash").kind # "conflict" /\ NoReply.kind # "conflict"
      BY DEF Refused, NoReply
    <3>2. Answer(h, Refused("cash")) \/ Answer(h, NoReply) \/ Open(h, t)
      BY <2>2 DEF BeginCash
    <3>3. UNCHANGED intake
      BY <2>2 DEF BeginCash, tables
    <3> HIDE DEF t
    <3> QED BY <3>1, <3>2, <3>3, AnsweredIntake, OpenedIntake
  <2>3. ASSUME CommitTransition(h) \/ CommitCash(h) \/ RefuseCart(h) \/ Rollback(h)
        PROVE  IntakeParts'
    <3>1. \E r : Answer(h, r) /\ r.kind # "conflict"
      BY <2>3 DEF CommitTransition, CommitCash, RefuseCart, Rollback, Refused, Duplicate, NoReply
    <3>2. UNCHANGED intake
      BY <2>3 DEF CommitTransition, CommitCash, RefuseCart, Rollback, tables
    <3> QED BY <3>1, <3>2, AnsweredIntake
  <2> QED BY <1>1, <2>1, <2>2, <2>3, CreateOrigin, BeginCreateIntake, CommitCreateIntake
<1>2. ASSUME NEW o \in Orders, PrepareQris(o) \/ QrisWebhook(o) PROVE IntakeParts'
  <2>1. UNCHANGED <<intake, tx, reply>>
    BY <1>2 DEF PrepareQris, QrisWebhook
  <2> QED BY <2>1, OtherIntake
<1>3. ASSUME UNCHANGED vars PROVE IntakeParts'
  <2>1. UNCHANGED <<intake, tx, reply>>
    BY <1>3 DEF vars
  <2> QED BY <2>1, OtherIntake
<1> QED BY <1>1, <1>2, <1>3 DEF Next

LEMMA IntakeInit == Init => IntakeParts
BY DEF Init, IntakeParts, CreateReady, ConflictReason, OneOrderPerRequest, RetryGetsItsOrder,
       Idle, NoReply, Exists, NoOrder

(* A source and key name one order whatever the interleaving: the unique   *)
(* keys of the orders table and the ids the server draws see to it.        *)
THEOREM OneOrderEach == Spec => []OneOrderPerRequest
<1>1. IntakeParts => OneOrderPerRequest
  BY DEF IntakeParts
<1> QED BY <1>1, HistoryInvInit, HistoryInvStep, IntakeInit, IntakeStep, PTL DEF Spec

(* A request sent again is answered with its order and never with a        *)
(* conflict: the advisory lock is held from the look-up to the commit.     *)
THEOREM RetriesGetTheirOrder == Spec => []RetryGetsItsOrder
<1>1. IntakeParts => RetryGetsItsOrder
  BY DEF IntakeParts
<1> QED BY <1>1, HistoryInvInit, HistoryInvStep, IntakeInit, IntakeStep, PTL DEF Spec

-----------------------------------------------------------------------------
(* History rows and their events.                                          *)
EventOf(r) == [order |-> r.order, version |-> r.version, status |-> r.to]

LEMMA HistoryStep ==
  ASSUME HistoryInv, [Next]_vars
  PROVE  \/ UNCHANGED <<history, outbox>>
         \/ \E r : history' = history \cup {r} /\ outbox' = outbox \cup {EventOf(r)}
<1> DEFINE Grows == \E r : history' = history \cup {r} /\ outbox' = outbox \cup {EventOf(r)}
           Stays == UNCHANGED <<history, outbox>>
<1>1. ASSUME NEW h \in Handlers, NEW total \in Totals, CommitCreate(h, total)
      PROVE  Stays \/ Grows
  <2>1. PICK i : InsertOrder(i, total) \/ UNCHANGED tables
    BY <1>1 DEF CommitCreate
  <2>2. CASE UNCHANGED tables
    BY <2>2 DEF tables
  <2>3. CASE InsertOrder(i, total)
    <3> DEFINE first == [order |-> i.order, from |-> "NONE", to |-> "PENDING", version |-> 1,
                         key |-> NoKey, payload |-> NoKey, actor |-> NoKey]
    <3>1. history' = history \cup {first}
      BY <2>3 DEF InsertOrder
    <3>2. outbox' = outbox \cup {EventOf(first)}
      BY <2>3 DEF InsertOrder, EventOf
    <3> QED BY <3>1, <3>2
  <2> QED BY <2>1, <2>2, <2>3
<1>2. ASSUME NEW h \in Handlers, CommitTransition(h) PROVE Stays \/ Grows
  BY <1>2 DEF CommitTransition, EventOf, tables
<1>3. ASSUME NEW h \in Handlers, Handle(h) PROVE Stays \/ Grows
  <2>1. ASSUME NEW i, BeginCreate(h, i) PROVE Stays
    BY <2>1 DEF BeginCreate, tables
  <2>2. ASSUME NEW o, NEW p, NEW key, NEW actor, BeginTransition(h, o, p, key, actor)
        PROVE  Stays
    BY <2>2 DEF BeginTransition, tables
  <2>3. ASSUME NEW o, NEW key, NEW amount, NEW actor, BeginCash(h, o, key, amount, actor)
        PROVE  Stays
    BY <2>3 DEF BeginCash, tables
  <2>4. ASSUME RefuseCart(h) \/ CommitCash(h) \/ Rollback(h) PROVE Stays
    BY <2>4 DEF RefuseCart, CommitCash, Rollback, tables
  <2> HIDE DEF Stays, Grows
  <2> QED BY <1>1, <1>2, <1>3, <2>1, <2>2, <2>3, <2>4, HandleCases
<1>4. Stays \/ Grows
  <2>1. ASSUME NEW o \in Orders, PrepareQris(o) \/ QrisWebhook(o) PROVE Stays
    BY <2>1 DEF PrepareQris, QrisWebhook
  <2>2. CASE UNCHANGED vars
    BY <2>2 DEF vars
  <2> HIDE DEF Stays, Grows
  <2> QED BY <1>3, <2>1, <2>2 DEF Next
<1> QED BY <1>4

(* The displays can learn of every version: a history row and its event    *)
(* are written by the same commit.                                         *)
THEOREM EveryVersionHasItsEvent == Spec => []EventPerVersion
<1>1. EventPerVersion <=> outbox = {EventOf(r) : r \in history}
  BY DEF EventPerVersion, EventOf
<1>2. Init => EventPerVersion
  BY DEF Init, EventPerVersion
<1>3. HistoryInv /\ EventPerVersion /\ [Next]_vars => EventPerVersion'
  <2> SUFFICES ASSUME HistoryInv, outbox = {EventOf(r) : r \in history}, [Next]_vars
               PROVE  outbox' = {EventOf(r) : r \in history'}
    BY <1>1 DEF EventPerVersion, EventOf
  <2> QED BY HistoryStep
<1> QED BY <1>2, <1>3, HistoryInvInit, HistoryInvStep, PTL DEF Spec

(* The rows behind an answer stay in the history.                          *)
NotOlder(a, rows) ==
  \E r, s \in rows : /\ r.order = a.order /\ r.key = a.key /\ s.order = a.order
                    /\ s.version >= r.version
                    /\ s.version = a.version /\ s.to = a.status

LEMMA ReplayRows ==
  ASSUME HistoryInv, NEW o \in Orders, NEW key \in Keys, NEW r \in Applied(o, key)
  PROVE  NotOlder(Reported("replay", o, key), history)
<1>1. r \in history /\ r.order = o /\ r.key = key
  BY DEF Applied
<1>2. Exists(o) /\ orders[o].version \in Nat \ {0}
  BY <1>1, ExistingRow DEF HistoryInv, TypeInv, RowsExist, OrderRow
<1>3. \A v : v \in {x.version : x \in RowsOf(o)} <=> v \in 1 .. orders[o].version
  BY DEF HistoryInv, HistoryExplainsOrder, OneRowPerVersion
<1>4. PICK s \in RowsOf(o) : s.version = orders[o].version
  <2>1. orders[o].version \in 1 .. orders[o].version
    BY <1>2
  <2> QED BY <1>3, <2>1
<1>5. s \in history /\ s.order = o /\ s.to = orders[o].status
  BY <1>4 DEF RowsOf, HistoryInv, HistoryExplainsOrder, LastRowIsStatus
<1>6. r.version \in 1 .. orders[o].version
  BY <1>1, <1>3 DEF RowsOf
<1>7. s.version >= r.version
  BY <1>2, <1>4, <1>6
<1> QED BY <1>1, <1>4, <1>5, <1>7 DEF NotOlder, Reported

(* A replayed transition is answered with a state the order has been in    *)
(* since its first result: the history only grows and tells them all.      *)
THEOREM ReplaysAreNotOlder == Spec => []ReplayIsNotOlder
<1> DEFINE Inv == \A h \in Handlers : reply[h].kind = "replay" => NotOlder(reply[h], history)
<1>1. Inv => ReplayIsNotOlder
  BY DEF NotOlder, ReplayIsNotOlder, Applied, RowsOf
<1>2. Init => Inv
  BY DEF Init, NoReply
<1>3. HistoryInv /\ Inv /\ [Next]_vars => Inv'
  <2> SUFFICES ASSUME HistoryInv, Inv, [Next]_vars, NEW h \in Handlers, reply'[h].kind = "replay"
               PROVE  NotOlder(reply'[h], history')
    BY DEF NotOlder
  <2>0. TypeOK
    BY DEF HistoryInv, TypeInv
  <2>1. \A r \in history : r \in history'
    BY HistoryStep
  <2>2. ASSUME reply'[h] = reply[h] PROVE NotOlder(reply'[h], history')
    BY <2>1, <2>2 DEF NotOlder
  <2>3. ASSUME NEW g \in Handlers, NEW r, Answer(g, r), r.kind # "replay"
        PROVE  NotOlder(reply'[h], history')
    BY <2>0, <2>2, <2>3, Answered
  <2>4. ASSUME NEW g \in Handlers, NEW t, Open(g, t) PROVE NotOlder(reply'[h], history')
    BY <2>0, <2>2, <2>4, Opened
  <2>5. ASSUME NEW g \in Handlers, NEW o \in Orders, NEW p \in Payloads, NEW key \in Keys,
               NEW actor \in Actors, BeginTransition(g, o, p, key, actor)
        PROVE  NotOlder(reply'[h], history')
    <3>1. CASE Answer(g, Refused("transition"))
      BY <2>3, <3>1 DEF Refused
    <3>2. CASE \E r \in Applied(o, key) : Answer(g, Reported("replay", o, key))
      <4>1. NotOlder(Reported("replay", o, key), history)
        BY <3>2, ReplayRows
      <4>2. CASE g = h
        <5>1. reply'[h] = Reported("replay", o, key)
          BY <2>0, <3>2, <4>2, Answered
        <5> QED BY <2>1, <4>1, <5>1 DEF NotOlder
      <4>3. CASE g # h
        BY <2>0, <2>2, <3>2, <4>3, Answered
      <4> QED BY <4>2, <4>3
    <3> QED BY <2>4, <2>5, <3>1, <3>2 DEF BeginTransition
  <2>6. ASSUME NEW g \in Handlers, Handle(g) PROVE NotOlder(reply'[h], history')
    <3>1. ASSUME NEW i \in IntakeRow, BeginCreate(g, i) PROVE NotOlder(reply'[h], history')
      BY <2>3, <2>4, <3>1 DEF BeginCreate, Reported
    <3>2. ASSUME NEW total \in Totals, CommitCreate(g, total) PROVE NotOlder(reply'[h], history')
      BY <2>3, <3>2 DEF CommitCreate
    <3>3. ASSUME NEW o \in Orders, NEW key \in Keys, NEW amount \in Amounts, NEW actor \in Actors,
                 BeginCash(g, o, key, amount, actor)
          PROVE  NotOlder(reply'[h], history')
      BY <2>3, <2>4, <3>3 DEF BeginCash, Refused, NoReply
    <3>4. ASSUME CommitTransition(g) \/ CommitCash(g) \/ RefuseCart(g) \/ Rollback(g)
          PROVE  NotOlder(reply'[h], history')
      BY <2>3, <3>4 DEF CommitTransition, CommitCash, RefuseCart, Rollback, Refused, Duplicate, NoReply
    <3> QED BY <2>5, <2>6, <3>1, <3>2, <3>3, <3>4, HandleCases
  <2>7. CASE UNCHANGED reply
    BY <2>2, <2>7
  <2> QED BY <2>6, <2>7 DEF Next, PrepareQris, QrisWebhook, vars
<1> QED BY <1>1, <1>2, <1>3, HistoryInvInit, HistoryInvStep, PTL DEF Spec

(***************************************************************************)
(* The numbers of a day (DailySequence).                                   *)
(***************************************************************************)
Active == Parts \cup {"commit"}

(* The lock of the row passes from hand to hand with the next number; while *)
(* the day has no row, who inserts it is alone in the gap.                 *)
LockInv ==
  /\ last > 0 => gap = {}
  /\ holder # None /\ last = 0 => gap = {holder}
  /\ \A r \in Requests :
       /\ pc[r] = "insert" => r \in gap
       /\ holder = r => pc[r] \in Active
       /\ pc[r] \in {"select", "insert"} => number[r] = 0
       /\ pc[r] \in Active /\ number[r] > 0 => holder = r /\ number[r] = last + 1

(* How much of the order is written, and how much of that is committed.    *)
StatementInv ==
  \A r \in Requests :
    /\ pc[r] \in {"select", "insert"} => open[r]
    /\ pc[r] \in {"select", "insert", "order"} => written[r] = {}
    /\ pc[r] = "items" => written[r] = {"order"}
    /\ pc[r] = "history" => written[r] = {"order", "items"}
    /\ pc[r] = "outbox" => written[r] = {"order", "items", "history"}
    /\ pc[r] = "commit" => written[r] = Parts
    /\ open[r] => stored[r] = {} \/ (pc[r] = "done" /\ stored[r] = Parts)
    /\ ~open[r] => number[r] = 0

-----------------------------------------------------------------------------
LEMMA SequenceInitInv == SequenceInit => SequenceTypeOK /\ LockInv /\ StatementInv
<1> SUFFICES ASSUME SequenceInit PROVE SequenceTypeOK /\ LockInv /\ StatementInv
  OBVIOUS
<1>1. SequenceTypeOK
  BY DEF SequenceInit, SequenceTypeOK
<1>2. LockInv
  BY RequestsAssumption DEF SequenceInit, LockInv, Active, Parts
<1>3. StatementInv
  BY DEF SequenceInit, StatementInv, Parts
<1> QED BY <1>1, <1>2, <1>3

LEMMA SequenceTypeStep == SequenceTypeOK /\ [SequenceNext]_sequenceVars => SequenceTypeOK'
<1> SUFFICES ASSUME SequenceTypeOK, [SequenceNext]_sequenceVars PROVE SequenceTypeOK'
  OBVIOUS
<1> USE DEF SequenceTypeOK, Goto, Draw
<1>1. ASSUME NEW r \in Requests, Increment(r) PROVE SequenceTypeOK'
  BY <1>1 DEF Increment, Parts
<1>2. ASSUME NEW r \in Requests, LockGap(r) PROVE SequenceTypeOK'
  BY <1>2 DEF LockGap
<1>3. ASSUME NEW r \in Requests, InsertFirst(r) PROVE SequenceTypeOK'
  BY <1>3 DEF InsertFirst, Parts
<1>4. ASSUME NEW r \in Requests, Deadlock(r) PROVE SequenceTypeOK'
  BY <1>4 DEF Deadlock, Parts
<1>5. ASSUME NEW r \in Requests, WaitTimeout(r) PROVE SequenceTypeOK'
  BY <1>5 DEF WaitTimeout, Parts
<1>6. ASSUME NEW r \in Requests, Write(r) PROVE SequenceTypeOK'
  <2>1. NextStep(pc[r]) \in {"commit"} \cup Parts
    BY <1>6 DEF Write, NextStep, Parts
  <2> QED BY <1>6, <2>1 DEF Write
<1>7. ASSUME NEW r \in Requests, Commit(r) PROVE SequenceTypeOK'
  BY <1>7 DEF Commit, Unlock
<1>8. ASSUME NEW r \in Requests, Fail(r) PROVE SequenceTypeOK'
  BY <1>8 DEF Fail, Unlock
<1>9. CASE UNCHANGED sequenceVars
  BY <1>9 DEF sequenceVars
<1> QED BY <1>1, <1>2, <1>3, <1>4, <1>5, <1>6, <1>7, <1>8, <1>9 DEF SequenceNext, Create

LEMMA LockStep == SequenceTypeOK /\ LockInv /\ [SequenceNext]_sequenceVars => LockInv'
<1> SUFFICES ASSUME SequenceTypeOK, LockInv, [SequenceNext]_sequenceVars PROVE LockInv'
  OBVIOUS
<1> USE RequestsAssumption DEF SequenceTypeOK, LockInv, Goto, Draw, Active, Parts
<1>1. ASSUME NEW r \in Requests, Increment(r) PROVE LockInv'
  BY <1>1 DEF Increment, SequenceFree
<1>2. ASSUME NEW r \in Requests, LockGap(r) PROVE LockInv'
  BY <1>2 DEF LockGap, SequenceFree
<1>3. ASSUME NEW r \in Requests, InsertFirst(r) PROVE LockInv'
  BY <1>3 DEF InsertFirst
<1>4. ASSUME NEW r \in Requests, Deadlock(r) PROVE LockInv'
  BY <1>4 DEF Deadlock
<1>5. ASSUME NEW r \in Requests, WaitTimeout(r) PROVE LockInv'
  BY <1>5 DEF WaitTimeout, SequenceFree
<1>6. ASSUME NEW r \in Requests, Write(r) PROVE LockInv'
  <2>1. NextStep(pc[r]) \in {"commit"} \cup Parts
    BY <1>6 DEF Write, NextStep
  <2> QED BY <1>6, <2>1 DEF Write
<1>7. ASSUME NEW r \in Requests, Commit(r) PROVE LockInv'
  BY <1>7 DEF Commit, Unlock
<1>8. ASSUME NEW r \in Requests, Fail(r) PROVE LockInv'
  BY <1>8 DEF Fail, Unlock
<1>9. CASE UNCHANGED sequenceVars
  BY <1>9 DEF sequenceVars
<1> QED BY <1>1, <1>2, <1>3, <1>4, <1>5, <1>6, <1>7, <1>8, <1>9 DEF SequenceNext, Create

LEMMA StatementStep == SequenceTypeOK /\ StatementInv /\ [SequenceNext]_sequenceVars => StatementInv'
<1> SUFFICES ASSUME SequenceTypeOK, StatementInv, [SequenceNext]_sequenceVars PROVE StatementInv'
  OBVIOUS
<1> USE DEF SequenceTypeOK, StatementInv, Goto, Draw, Parts
<1>1. ASSUME NEW r \in Requests, Increment(r) PROVE StatementInv'
  BY <1>1 DEF Increment
<1>2. ASSUME NEW r \in Requests, LockGap(r) PROVE StatementInv'
  BY <1>2 DEF LockGap
<1>3. ASSUME NEW r \in Requests, InsertFirst(r) PROVE StatementInv'
  BY <1>3 DEF InsertFirst
<1>4. ASSUME NEW r \in Requests, Deadlock(r) PROVE StatementInv'
  BY <1>4 DEF Deadlock
<1>5. ASSUME NEW r \in Requests, WaitTimeout(r) PROVE StatementInv'
  BY <1>5 DEF WaitTimeout
<1>6. ASSUME NEW r \in Requests, Write(r) PROVE StatementInv'
  BY <1>6 DEF Write, NextStep
<1>7. ASSUME NEW r \in Requests, Commit(r) PROVE StatementInv'
  BY <1>7 DEF Commit
<1>8. ASSUME NEW r \in Requests, Fail(r) PROVE StatementInv'
  BY <1>8 DEF Fail
<1>9. CASE UNCHANGED sequenceVars
  BY <1>9 DEF sequenceVars
<1> QED BY <1>1, <1>2, <1>3, <1>4, <1>5, <1>6, <1>7, <1>8, <1>9 DEF SequenceNext, Create

SequenceInv == SequenceTypeOK /\ LockInv /\ StatementInv

LEMMA SequenceInvStep == SequenceInv /\ [SequenceNext]_sequenceVars => SequenceInv'
BY SequenceTypeStep, LockStep, StatementStep DEF SequenceInv

(* Whatever the interleaving and whoever fails, the variables keep their   *)
(* types.                                                                  *)
THEOREM SequenceTypeCorrect == SequenceSpec => []SequenceTypeOK
BY SequenceInitInv, SequenceInvStep, PTL DEF SequenceSpec, SequenceInv

(* The numbers of a day are given out one by one and in full, for any      *)
(* number of creations: the next number is in the hands of the one request *)
(* that holds the row, until it commits.                                   *)
THEOREM NumbersHaveNoGap == SequenceSpec => []NumbersAreGapless
<1>1. SequenceInit => NumbersAreGapless
  <2>1. SequenceInit => Numbered = {} /\ 1 .. last = {}
    BY DEF SequenceInit, Numbered
  <2> QED BY <2>1 DEF SequenceInit, NumbersAreGapless
<1>2. SequenceInv /\ NumbersAreGapless /\ [SequenceNext]_sequenceVars => NumbersAreGapless'
  <2> SUFFICES ASSUME SequenceInv, SequenceInv', NumbersAreGapless, [SequenceNext]_sequenceVars PROVE NumbersAreGapless'
    BY SequenceInvStep
  <2>1. \A r \in Requests : stored'[r] \notin {{}, Parts} => number'[r] = 0 /\ ~open'[r]
    BY DEF SequenceInv, StatementInv, SequenceTypeOK
  <2>2. ASSUME NEW r \in Requests, Commit(r), number[r] > 0 PROVE NumbersAreGapless'
    <3>1. /\ holder = r /\ number[r] = last + 1 /\ open[r]
          /\ last \in Nat /\ number' = number /\ pc' = [pc EXCEPT ![r] = "done"]
      BY <2>2 DEF Commit, Goto, SequenceInv, SequenceTypeOK, LockInv, StatementInv, Active
    <3>2. last' = last + 1
      BY <2>2, <3>1 DEF Commit
    <3>3. Numbered' = Numbered \cup {r} /\ r \notin Numbered
      BY <2>2, <3>1 DEF Numbered, Commit, SequenceInv, SequenceTypeOK
    <3>4. \A n : n \in {number[q] : q \in Numbered} <=> n \in 1 .. last
      BY DEF NumbersAreGapless
    <3>5. \A q \in Numbered : number[q] # last + 1
      BY <3>1, <3>4
    <3>6. {number'[q] : q \in Numbered'} = {number[q] : q \in Numbered} \cup {last + 1}
      BY <3>1, <3>3
    <3>7. 1 .. last' = (1 .. last) \cup {last + 1}
      BY <3>1, <3>2
    <3>8. {number'[q] : q \in Numbered'} = 1 .. last'
      BY <3>4, <3>6, <3>7
    <3>9. \A q, s \in Numbered' : number'[q] = number'[s] => q = s
      BY <3>1, <3>3, <3>5 DEF NumbersAreGapless
    <3> QED BY <2>1, <3>8, <3>9 DEF NumbersAreGapless
  <2>3. ASSUME last' = last, Numbered' = Numbered, \A q \in Numbered : number'[q] = number[q]
        PROVE  NumbersAreGapless'
    BY <2>1, <2>3 DEF NumbersAreGapless
  <2>4. ASSUME NEW r \in Requests, Commit(r), ~(number[r] > 0) PROVE NumbersAreGapless'
    BY <2>3, <2>4 DEF Commit, Goto, Numbered, SequenceInv, SequenceTypeOK
  <2>5. ASSUME NEW r \in Requests, Increment(r) \/ InsertFirst(r) \/ Deadlock(r) \/ WaitTimeout(r)
        PROVE  NumbersAreGapless'
    <3>1. pc[r] # "done" /\ pc' = [pc EXCEPT ![r] = "order"] /\ last' = last
      BY <2>5 DEF Increment, InsertFirst, Deadlock, WaitTimeout, Draw, Goto
    <3>2. \A q \in Requests \ {r} : number'[q] = number[q]
      BY <2>5 DEF Increment, InsertFirst, Deadlock, WaitTimeout, Draw, SequenceInv, SequenceTypeOK
    <3> QED BY <2>3, <3>1, <3>2 DEF Numbered, SequenceInv, SequenceTypeOK
  <2>6. ASSUME NEW r \in Requests, LockGap(r) \/ Write(r) \/ Fail(r) PROVE NumbersAreGapless'
    <3>1. pc[r] # "done" /\ pc'[r] # "done"
      BY <2>6 DEF LockGap, Write, Fail, Goto, NextStep, Parts, SequenceInv, SequenceTypeOK
    <3>2. last' = last /\ number' = number /\ \A q \in Requests \ {r} : pc'[q] = pc[q]
      BY <2>6 DEF LockGap, Write, Fail, Goto, SequenceInv, SequenceTypeOK
    <3> QED BY <2>3, <3>1, <3>2 DEF Numbered
  <2>7. CASE UNCHANGED sequenceVars
    BY <2>3, <2>7 DEF sequenceVars, Numbered
  <2> QED BY <2>2, <2>4, <2>5, <2>6, <2>7 DEF SequenceNext, Create
<1> QED BY <1>1, <1>2, SequenceInitInv, SequenceInvStep, PTL DEF SequenceSpec, SequenceInv
=============================================================================
