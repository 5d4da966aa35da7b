------------------------------ MODULE OrderFeed ------------------------------
(***************************************************************************)
(* The way of an order event from the transaction that commits it to the   *)
(* displays: the outbox table, the publisher that drains it                *)
(* (internal/order/publisher.go) and the hub with its client buffers       *)
(* (internal/ws).  Orders and payments are written by modules of their own;*)
(* here an order is the version its last transaction left.                 *)
(***************************************************************************)
EXTENDS Naturals, Sequences, FiniteSets, SequencesExt

CONSTANTS
  Orders,
  Clients,      \* WebSocket connections of displays
  MaxVersion,   \* bound: versions of an order
  MaxPayments,  \* bound: payment events
  BatchSize,    \* 50: rows a publisher takes in one transaction
  BufferSize,   \* 256: messages that wait for one client
  MaxFaults     \* bound: failed commits, restarts and lost connections

ASSUME OrderFeedAssumption ==
  /\ MaxVersion \in Nat /\ MaxPayments \in Nat /\ MaxFaults \in Nat
  /\ BatchSize \in Nat \ {0} /\ BufferSize \in Nat \ {0}

VARIABLES
  version,     \* version[o]: orders.version, 0 before the order exists
  outbox,      \* outbox_events, in the order of created_at
  published,   \* rows whose status is PUBLISHED
  batch,       \* rows the publisher's transaction has locked
  sent,        \* those of the batch it has broadcast
  out,         \* history: rows broadcast at least once
  registered,  \* clients the hub knows
  slow,        \* those among them that are being cut off
  buffer,      \* buffer[c]: messages that wait to be written to the client
  faults       \* faults so far

storeVars == <<version, outbox>>
publisherVars == <<published, batch, sent, out>>
hubVars == <<registered, slow, buffer>>
vars == <<storeVars, publisherVars, hubVars, faults>>

OrderEvent(o, v) == [kind |-> "ORDER", order |-> o, version |-> v]
PaymentEvent(o) == [kind |-> "PAYMENT", order |-> o, version |-> 1]
Events == {OrderEvent(o, v) : o \in Orders, v \in 1 .. MaxVersion}
          \cup {PaymentEvent(o) : o \in Orders}

Rows == 1 .. Len(outbox)
Payments == {i \in Rows : outbox[i].kind = "PAYMENT"}

Init ==
  /\ version = [o \in Orders |-> 0]
  /\ outbox = << >> /\ published = {} /\ batch = {} /\ sent = {} /\ out = {}
  /\ registered = {} /\ slow = {} /\ buffer = [c \in Clients |-> << >>]
  /\ faults = 0

Fault == faults < MaxFaults /\ faults' = faults + 1

-----------------------------------------------------------------------------
(* The transactions that write to the outbox.  One of an order holds the   *)
(* lock of its row, so the rows of an order are in the order of versions.  *)

CommitOrder(o) ==
  /\ version[o] < MaxVersion
  /\ version' = [version EXCEPT ![o] = @ + 1]
  /\ outbox' = Append(outbox, OrderEvent(o, version[o] + 1))
  /\ UNCHANGED <<publisherVars, hubVars, faults>>

(* Payments write to the same table; their payload has a version of its    *)
(* own or none, which the publisher takes for 1.                           *)
CommitPayment(o) ==
  /\ version[o] > 0 /\ Cardinality(Payments) < MaxPayments
  /\ outbox' = Append(outbox, PaymentEvent(o))
  /\ UNCHANGED <<version, publisherVars, hubVars, faults>>

-----------------------------------------------------------------------------
(* OutboxPublisher.ProcessBatch: lock the oldest rows, broadcast each, mark*)
(* them and commit.  It is called on a timer and on every notification.    *)

Unpublished == Rows \ published

SelectBatch ==
  /\ batch = {} /\ Unpublished # {}
  /\ batch' = {i \in Unpublished : Cardinality({j \in Unpublished : j < i}) < BatchSize}
  /\ sent' = {}
  /\ UNCHANGED <<storeVars, published, out, hubVars, faults>>

(* Variant: the rows are taken newest first.                               *)
IsNewest(i) == i \in batch \ sent /\ \A j \in batch \ sent : j <= i

IsNext(i) == i \in batch \ sent /\ \A j \in batch \ sent : i <= j

HasRoom(c) == Len(buffer[c]) < BufferSize

(* Variant: the message is dropped and the client kept.                    *)
BroadcastDropping(e) ==
  /\ buffer' = [c \in Clients |->
                  IF c \in registered /\ HasRoom(c) THEN Append(buffer[c], e) ELSE buffer[c]]
  /\ UNCHANGED <<registered, slow>>

(* Hub.Broadcast: a client without room is cut off, by a goroutine that    *)
(* runs when the broadcast has let go of the lock.                         *)
Broadcast(e) ==
  /\ buffer' = [c \in Clients |->
                  IF c \in registered /\ HasRoom(c) THEN Append(buffer[c], e) ELSE buffer[c]]
  /\ slow' = slow \cup {c \in registered : ~HasRoom(c)}
  /\ UNCHANGED registered

BroadcastNext ==
  \E i \in batch :
    /\ IsNext(i)
    /\ Broadcast(outbox[i])
    /\ out' = out \cup {i}
    /\ sent' = sent \cup {i}
    /\ UNCHANGED <<storeVars, published, batch, faults>>

BatchEnds == batch' = {} /\ sent' = {}

MarkPublished ==
  /\ batch # {} /\ sent = batch
  /\ published' = published \cup batch
  /\ BatchEnds
  /\ UNCHANGED <<storeVars, out, hubVars, faults>>

(* The UPDATE or the commit fails after the broadcasts, or a row cannot be *)
(* read before them: the transaction is rolled back and its rows, sent or  *)
(* not, are taken again.                                                   *)
BatchFails ==
  /\ batch # {} /\ Fault
  /\ BatchEnds
  /\ UNCHANGED <<storeVars, published, out, hubVars>>

-----------------------------------------------------------------------------
(* The hub.                                                                *)

Register(c) ==
  /\ c \notin registered
  /\ registered' = registered \cup {c}
  /\ UNCHANGED <<storeVars, publisherVars, slow, buffer, faults>>

(* Client.WritePump.                                                       *)
WriteNext(c) ==
  /\ c \in registered /\ buffer[c] # << >>
  /\ buffer' = [buffer EXCEPT ![c] = Tail(@)]
  /\ UNCHANGED <<storeVars, publisherVars, registered, slow, faults>>

(* Hub.Unregister and Client.Close: what the client has not read is lost.  *)
Forget(c) ==
  /\ registered' = registered \ {c}
  /\ slow' = slow \ {c}
  /\ buffer' = [buffer EXCEPT ![c] = << >>]

CutOff(c) == c \in slow /\ Forget(c) /\ UNCHANGED <<storeVars, publisherVars, faults>>

(* The client goes away or the network drops the connection.               *)
Disconnect(c) ==
  c \in registered /\ Fault /\ Forget(c) /\ UNCHANGED <<storeVars, publisherVars>>

(* The server stops: the transaction is rolled back, every connection ends.*)
ServerStops ==
  /\ Fault
  /\ BatchEnds
  /\ registered' = {} /\ slow' = {} /\ buffer' = [c \in Clients |-> << >>]
  /\ UNCHANGED <<storeVars, published, out>>

-----------------------------------------------------------------------------
Store == \E o \in Orders : CommitOrder(o) \/ CommitPayment(o)
Publisher == SelectBatch \/ BroadcastNext \/ MarkPublished
Hub == \E c \in Clients : Register(c) \/ WriteNext(c) \/ CutOff(c)
Faults == BatchFails \/ ServerStops \/ \E c \in Clients : Disconnect(c)

Next == Store \/ Publisher \/ Hub \/ Faults
Spec == Init /\ [][Next]_vars

(* The publisher runs as long as the server does: its timer fires every    *)
(* 500 ms.                                                                 *)
LiveSpec == Spec /\ WF_vars(Publisher)

-----------------------------------------------------------------------------
(* The type of every variable, with the two bounds the code states: the    *)
(* rows of a batch and the messages that wait for a client.                *)
TypeOK ==
  /\ version \in [Orders -> 0 .. MaxVersion]
  /\ outbox \in Seq(Events)
  /\ published \subseteq Rows /\ out \subseteq Rows
  /\ batch \subseteq Unpublished /\ Cardinality(batch) <= BatchSize
  /\ sent \subseteq batch
  /\ registered \subseteq Clients /\ slow \subseteq registered
  /\ \A c \in Clients : buffer[c] \in Seq(Events) /\ Len(buffer[c]) <= BufferSize
  /\ faults \in 0 .. MaxFaults

(* What waits for a client never jumps: an order's event is followed by    *)
(* the next one of that order or, after a batch was sent again, by one     *)
(* that is not newer.                                                      *)
NoGapInBuffer ==
  \A c \in Clients \ slow : \A i, j \in 1 .. Len(buffer[c]) :
    LET b == buffer[c] IN
    ( /\ i < j /\ b[i].kind = "ORDER" /\ b[j].kind = "ORDER" /\ b[i].order = b[j].order
      /\ \A k \in i + 1 .. j - 1 : b[k].kind # "ORDER" \/ b[k].order # b[i].order )
    => b[j].version <= b[i].version + 1

(* The feed keeps the promise of EventFeed: an order's events go out in    *)
(* the order of their versions, and all of them in the end (ProcessBatch   *)
(* under the publisher's timer, through failed commits and restarts).      *)
SentUpTo(o) ==
  Max({0} \cup {v \in 1 .. version[o] :
    \A w \in 1 .. v : \E i \in out : outbox[i] = OrderEvent(o, w)})
Passed == [o \in Orders |-> SentUpTo(o)]
Promise == INSTANCE EventFeed WITH out <- Passed
KeepsPromise == Promise!Spec
=============================================================================
