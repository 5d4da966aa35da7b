--------------------------- MODULE OrderFeed_proofs ---------------------------
(* Theorems about OrderFeed and about QueueDisplay, which it feeds, for any *)
(* number of orders, clients, rows, faults and taps.                       *)
EXTENDS QueueDisplay, FiniteSetTheorems, WellFoundedInduction, TLAPS

-----------------------------------------------------------------------------
(* The inductive invariant of the feed.                                    *)

Typed ==
  /\ version \in [Orders -> 0 .. MaxVersion]
  /\ outbox \in Seq(Events)
  /\ published \subseteq Rows /\ out \subseteq Rows
  /\ batch \subseteq Unpublished /\ sent \subseteq batch
  /\ registered \subseteq Clients /\ slow \subseteq registered
  /\ buffer \in [Clients -> Seq(Events)]

About(e, o) == e.kind = "ORDER" /\ e.order = o

(* The rows of an order are its versions, each once and in their order.    *)
RowsInv ==
  /\ \A i \in Rows : \A o \in Orders : About(outbox[i], o) => outbox[i].version <= version[o]
  /\ \A i, j \in Rows : \A o \in Orders :
       i < j /\ About(outbox[i], o) /\ About(outbox[j], o) =>
         outbox[i].version < outbox[j].version
  /\ \A o \in Orders : \A v \in 1 .. version[o] :
       \E i \in Rows : outbox[i] = OrderEvent(o, v)

(* Rows are published, taken and sent from the oldest on, also when a batch*)
(* is taken again.                                                         *)
PassedInv ==
  /\ \A i \in published : \A j \in Unpublished : i < j
  /\ \A i \in batch : \A j \in Unpublished \ batch : i < j
  /\ \A i \in sent : \A j \in batch \ sent : i < j
  /\ published \cup sent \subseteq out
  /\ \A i \in out : \A j \in Rows : j < i => j \in out

(* The last event of the order in b is of version v or a newer one.        *)
LastIsFrom(b, o, v) ==
  \A k \in 1 .. Len(b) :
    About(b[k], o) /\ (\A l \in k + 1 .. Len(b) : ~About(b[l], o)) => v <= b[k].version

(* A client is sent nothing it was not there for; one that is not cut off  *)
(* was sent, if anything of an order, the newest the publisher has passed. *)
BufferInv ==
  /\ \A c \in Clients \ registered : buffer[c] = << >>
  /\ \A c \in Clients : \A k \in 1 .. Len(buffer[c]) : \A o \in Orders :
       About(buffer[c][k], o) => buffer[c][k].version <= version[o]
  /\ \A c \in Clients \ slow : \A o \in Orders : \A i \in published \cup sent :
       About(outbox[i], o) => LastIsFrom(buffer[c], o, outbox[i].version)

FeedInv == Typed /\ RowsInv /\ PassedInv /\ BufferInv /\ NoGapInBuffer

-----------------------------------------------------------------------------
(* Events, rows and what waits for a client.                               *)

LEMMA EventForms ==
  ASSUME NEW e \in Events
  PROVE  /\ e.order \in Orders /\ e.version \in Nat
         /\ \/ e.kind = "ORDER" /\ e.version \in 1 .. MaxVersion
               /\ e = OrderEvent(e.order, e.version)
            \/ e.kind = "PAYMENT"
<1>1. CASE e \in {OrderEvent(o, v) : o \in Orders, v \in 1 .. MaxVersion}
  BY <1>1, OrderFeedAssumption DEF OrderEvent
<1>2. CASE e \in {PaymentEvent(o) : o \in Orders}
  BY <1>2 DEF PaymentEvent
<1> QED BY <1>1, <1>2 DEF Events

LEMMA OrderEventIs ==
  ASSUME NEW o \in Orders, NEW v \in 1 .. MaxVersion
  PROVE  /\ OrderEvent(o, v) \in Events
         /\ OrderEvent(o, v).kind = "ORDER"
         /\ OrderEvent(o, v).order = o /\ OrderEvent(o, v).version = v
BY DEF OrderEvent, Events

LEMMA RowTypes ==
  ASSUME Typed
  PROVE  /\ Rows \subseteq Nat /\ \A i \in Rows : outbox[i] \in Events
         /\ \A i \in Rows : outbox[i].version \in Nat
<1>1. \A i \in Rows : outbox[i] \in Events
  BY DEF Typed, Rows
<1>2. Rows \subseteq Nat
  BY DEF Typed, Rows
<1> QED BY <1>1, <1>2, EventForms

LEMMA RowAppended ==
  ASSUME Typed, NEW e \in Events, outbox' = Append(outbox, e)
  PROVE  /\ outbox' \in Seq(Events)
         /\ Len(outbox) + 1 \notin Rows
         /\ Rows' = Rows \cup {Len(outbox) + 1}
         /\ \A i \in Rows : outbox'[i] = outbox[i] /\ i < Len(outbox) + 1
         /\ outbox'[Len(outbox) + 1] = e
<1>1. Len(outbox) \in Nat /\ Len(outbox') = Len(outbox) + 1 /\ outbox' \in Seq(Events)
  BY DEF Typed
<1>2. \A i \in Rows : outbox'[i] = outbox[i] /\ i < Len(outbox) + 1
  BY <1>1 DEF Typed, Rows
<1>3. outbox'[Len(outbox) + 1] = e
  BY <1>1 DEF Typed
<1> QED BY <1>1, <1>2, <1>3 DEF Rows

(* An order's event in b is followed by no newer one than the next.        *)
Smooth(b) ==
  \A i, j \in 1 .. Len(b) :
    ( /\ i < j /\ b[i].kind = "ORDER" /\ b[j].kind = "ORDER" /\ b[i].order = b[j].order
      /\ \A k \in i + 1 .. j - 1 : b[k].kind # "ORDER" \/ b[k].order # b[i].order )
    => b[j].version <= b[i].version + 1

LEMMA GapIsSmooth == NoGapInBuffer <=> \A c \in Clients \ slow : Smooth(buffer[c])
BY DEF NoGapInBuffer, Smooth

LEMMA NothingIsSmooth ==
  ASSUME NEW b, b = << >>
  PROVE  /\ b \in Seq(Events) /\ Smooth(b) /\ Len(b) = 0
         /\ \A o, v : LastIsFrom(b, o, v)
<1>1. Len(b) = 0 /\ b \in Seq(Events)
  OBVIOUS
<1>2. 1 .. Len(b) = {}
  BY <1>1
<1> QED BY <1>1, <1>2 DEF Smooth, LastIsFrom

LEMMA TailIs ==
  ASSUME NEW b \in Seq(Events), b # << >>
  PROVE  /\ Tail(b) \in Seq(Events) /\ Len(b) \in Nat /\ Len(Tail(b)) = Len(b) - 1
         /\ \A i \in 1 .. Len(Tail(b)) : i + 1 \in 1 .. Len(b) /\ Tail(b)[i] = b[i + 1]
<1>1. Tail(b) \in Seq(Events) /\ Len(b) \in Nat /\ Len(Tail(b)) = Len(b) - 1
  OBVIOUS
<1>2. \A i \in 1 .. Len(Tail(b)) : i + 1 \in 1 .. Len(b) /\ Tail(b)[i] = b[i + 1]
  BY <1>1
<1> QED BY <1>1, <1>2

LEMMA TailKeeps ==
  ASSUME NEW b \in Seq(Events), b # << >>
  PROVE  /\ Smooth(b) => Smooth(Tail(b))
         /\ \A o, v : LastIsFrom(b, o, v) => LastIsFrom(Tail(b), o, v)
<1> DEFINE t == Tail(b)
<1>0. /\ Len(b) \in Nat /\ Len(t) = Len(b) - 1
      /\ \A i \in 1 .. Len(t) : i + 1 \in 1 .. Len(b) /\ t[i] = b[i + 1]
  BY TailIs
<1>1. \A i \in 2 .. Len(b) : i - 1 \in 1 .. Len(t) /\ t[i - 1] = b[i]
  BY <1>0
<1> HIDE DEF t
<1>2. ASSUME Smooth(b), NEW i \in 1 .. Len(t), NEW j \in 1 .. Len(t),
             i < j, t[i].kind = "ORDER", t[j].kind = "ORDER", t[i].order = t[j].order,
             \A k \in i + 1 .. j - 1 : t[k].kind # "ORDER" \/ t[k].order # t[i].order
      PROVE  t[j].version <= t[i].version + 1
  <2>1. i + 1 \in 1 .. Len(b) /\ j + 1 \in 1 .. Len(b) /\ t[i] = b[i + 1] /\ t[j] = b[j + 1]
        /\ i + 1 < j + 1
    BY <1>0, <1>2
  <2>2. ASSUME NEW k \in (i + 1) + 1 .. (j + 1) - 1
        PROVE  b[k].kind # "ORDER" \/ b[k].order # b[i + 1].order
    <3>1. k - 1 \in i + 1 .. j - 1 /\ k \in 2 .. Len(b)
      BY <1>0
    <3> QED BY <1>1, <1>2, <2>1, <3>1
  <2> QED BY <1>2, <2>1, <2>2 DEF Smooth
<1>3. ASSUME NEW o, NEW v, LastIsFrom(b, o, v), NEW k \in 1 .. Len(t), About(t[k], o),
             \A l \in k + 1 .. Len(t) : ~About(t[l], o)
      PROVE  v <= t[k].version
  <2>1. k + 1 \in 1 .. Len(b) /\ t[k] = b[k + 1]
    BY <1>0
  <2>2. ASSUME NEW l \in (k + 1) + 1 .. Len(b)
        PROVE  ~About(b[l], o)
    <3>1. l - 1 \in k + 1 .. Len(t) /\ l \in 2 .. Len(b)
      BY <1>0
    <3> QED BY <1>1, <1>3, <3>1
  <2> QED BY <1>3, <2>1, <2>2 DEF LastIsFrom
<1> QED BY <1>2, <1>3 DEF Smooth, LastIsFrom, t

LEMMA AppendIs ==
  ASSUME NEW b \in Seq(Events), NEW e \in Events
  PROVE  /\ Append(b, e) \in Seq(Events) /\ Len(b) \in Nat /\ Len(Append(b, e)) = Len(b) + 1
         /\ \A i \in 1 .. Len(b) : Append(b, e)[i] = b[i]
         /\ Append(b, e)[Len(b) + 1] = e
OBVIOUS

(* An event can follow what waits, when of its order nothing waits or the  *)
(* last that waits is its predecessor or a newer one.                      *)
LEMMA AppendKeeps ==
  ASSUME NEW b \in Seq(Events), NEW e \in Events
  PROVE  /\ Smooth(b) /\ (e.kind = "ORDER" => LastIsFrom(b, e.order, e.version - 1))
            => Smooth(Append(b, e))
         /\ \A o : \A v \in Nat : /\ LastIsFrom(b, o, v)
                                  /\ About(e, o) => v <= e.version
                                  => LastIsFrom(Append(b, e), o, v)
<1> DEFINE t == Append(b, e)
<1>0. /\ Len(b) \in Nat /\ Len(t) = Len(b) + 1 /\ t[Len(b) + 1] = e
      /\ \A i \in 1 .. Len(b) : t[i] = b[i]
  BY AppendIs
<1>a. \A i \in 1 .. Len(b) : b[i].version \in Nat
  BY EventForms
<1>b. e.version \in Nat
  BY EventForms
<1> HIDE DEF t
<1>2. ASSUME Smooth(b), e.kind = "ORDER" => LastIsFrom(b, e.order, e.version - 1),
             NEW i \in 1 .. Len(t), NEW j \in 1 .. Len(t),
             i < j, t[i].kind = "ORDER", t[j].kind = "ORDER", t[i].order = t[j].order,
             \A k \in i + 1 .. j - 1 : t[k].kind # "ORDER" \/ t[k].order # t[i].order
      PROVE  t[j].version <= t[i].version + 1
  <2>0. i \in 1 .. Len(b) /\ t[i] = b[i]
    BY <1>0, <1>2
  <2>1. CASE j \in 1 .. Len(b)
    <3>1. t[j] = b[j] /\ \A k \in i + 1 .. j - 1 : t[k] = b[k]
      BY <1>0, <2>1
    <3> QED BY <1>2, <2>0, <2>1, <3>1 DEF Smooth
  <2>2. CASE j = Len(b) + 1
    <3>1. t[j] = e /\ \A k \in i + 1 .. Len(b) : t[k] = b[k] /\ k \in i + 1 .. j - 1
      BY <1>0, <2>2
    <3>2. About(b[i], e.order) /\ \A k \in i + 1 .. Len(b) : ~About(b[k], e.order)
      BY <1>2, <2>0, <3>1 DEF About
    <3>3. e.version - 1 <= b[i].version
      BY <1>2, <2>0, <3>1, <3>2 DEF LastIsFrom
    <3> QED BY <1>a, <1>b, <2>0, <3>1, <3>3
  <2> QED BY <1>0, <2>1, <2>2
<1>3. ASSUME NEW o, NEW v \in Nat, LastIsFrom(b, o, v), About(e, o) => v <= e.version,
             NEW k \in 1 .. Len(t), About(t[k], o),
             \A l \in k + 1 .. Len(t) : ~About(t[l], o)
      PROVE  v <= t[k].version
  <2>1. CASE k \in 1 .. Len(b)
    <3>1. t[k] = b[k] /\ \A l \in k + 1 .. Len(b) : t[l] = b[l] /\ l \in k + 1 .. Len(t)
      BY <1>0, <2>1
    <3> QED BY <1>3, <2>1, <3>1 DEF LastIsFrom
  <2>2. CASE k = Len(b) + 1
    BY <1>0, <1>3, <2>2
  <2> QED BY <1>0, <2>1, <2>2
<1> QED BY <1>2, <1>3 DEF Smooth, LastIsFrom, t

-----------------------------------------------------------------------------
(* Every step keeps the feed's invariant.                                  *)

LEMMA FeedStart == Init => FeedInv
<1> SUFFICES ASSUME Init PROVE FeedInv
  OBVIOUS
<1>1. Rows = {} /\ \A c \in Clients : buffer[c] = << >>
  BY DEF Init, Rows
<1>2. Typed
  <2>1. version \in [Orders -> 0 .. MaxVersion] /\ buffer \in [Clients -> Seq(Events)]
    BY OrderFeedAssumption DEF Init
  <2> QED BY <1>1, <2>1 DEF Init, Typed, Unpublished
<1>3. RowsInv
  BY <1>1 DEF Init, RowsInv
<1>4. PassedInv
  BY <1>1 DEF Init, PassedInv, Unpublished
<1>5. BufferInv
  BY <1>1, NothingIsSmooth DEF Init, BufferInv
<1>6. NoGapInBuffer
  BY <1>1, NothingIsSmooth, GapIsSmooth
<1> QED BY <1>2, <1>3, <1>4, <1>5, <1>6 DEF FeedInv

(* A new row is unpublished and follows the others.                        *)
LEMMA NewRowPasses ==
  ASSUME FeedInv, NEW e \in Events, outbox' = Append(outbox, e),
         UNCHANGED <<publisherVars, hubVars>>
  PROVE  /\ PassedInv' /\ NoGapInBuffer'
         /\ outbox' \in Seq(Events) /\ published' \subseteq Rows' /\ out' \subseteq Rows'
         /\ batch' \subseteq Unpublished' /\ sent' \subseteq batch'
         /\ registered' \subseteq Clients /\ slow' \subseteq registered'
         /\ buffer' \in [Clients -> Seq(Events)]
         /\ \A i \in published' \cup sent' : i \in Rows /\ outbox'[i] = outbox[i]
<1>1. /\ outbox' \in Seq(Events) /\ Rows' = Rows \cup {Len(outbox) + 1}
      /\ \A i \in Rows : outbox'[i] = outbox[i] /\ i < Len(outbox) + 1
      /\ Len(outbox) + 1 \notin Rows
  BY RowAppended DEF FeedInv
<1>2. /\ published' = published /\ batch' = batch /\ sent' = sent /\ out' = out
      /\ registered' = registered /\ slow' = slow /\ buffer' = buffer
  BY DEF publisherVars, hubVars
<1>3. Unpublished' = Unpublished \cup {Len(outbox) + 1}
  BY <1>1, <1>2 DEF Unpublished, FeedInv, Typed
<1>4. Rows \subseteq Nat /\ Len(outbox) + 1 \in Nat
  BY RowTypes DEF FeedInv, Typed
<1>5. PassedInv'
  BY <1>1, <1>2, <1>3, <1>4 DEF FeedInv, PassedInv, Typed, Unpublished
<1>6. NoGapInBuffer'
  <2>1. \A c \in Clients \ slow : Smooth(buffer[c])
    BY GapIsSmooth DEF FeedInv
  <2>2. (\A c \in Clients \ slow : Smooth(buffer[c]))'
    BY <1>2, <2>1
  <2> QED BY <2>2, GapIsSmooth, PTL
<1> QED BY <1>1, <1>2, <1>3, <1>5, <1>6 DEF FeedInv, Typed, Unpublished

LEMMA CommitOrderKeeps ==
  ASSUME FeedInv, NEW o \in Orders, CommitOrder(o)
  PROVE  FeedInv'
<1> DEFINE n == version[o] + 1
           e == OrderEvent(o, n)
<1>0. Typed /\ RowsInv /\ version \in [Orders -> 0 .. MaxVersion] /\ MaxVersion \in Nat
  BY OrderFeedAssumption DEF FeedInv, Typed
<1>1. n \in 1 .. MaxVersion
  BY <1>0 DEF CommitOrder
<1>2. e \in Events /\ e.kind = "ORDER" /\ e.order = o /\ e.version = n
  BY <1>1, OrderEventIs
<1>3. /\ version' \in [Orders -> 0 .. MaxVersion]
      /\ version'[o] = n /\ version[o] \in Nat
      /\ \A q \in Orders : q # o => version'[q] = version[q]
      /\ \A q \in Orders : version[q] <= version'[q] /\ version[q] \in Nat
  BY <1>0, <1>1 DEF CommitOrder
<1>4. outbox' = Append(outbox, e) /\ UNCHANGED <<publisherVars, hubVars>>
  BY DEF CommitOrder
<1> HIDE DEF e
<1>5. /\ PassedInv' /\ NoGapInBuffer' /\ Typed'
      /\ \A i \in published' \cup sent' : i \in Rows /\ outbox'[i] = outbox[i]
  BY <1>2, <1>3, <1>4, NewRowPasses DEF Typed
<1>6. /\ Rows' = Rows \cup {Len(outbox) + 1} /\ outbox'[Len(outbox) + 1] = e
      /\ \A i \in Rows : outbox'[i] = outbox[i] /\ i < Len(outbox) + 1
      /\ Len(outbox) + 1 \notin Rows
  BY <1>0, <1>2, <1>4, RowAppended
<1>7. Rows \subseteq Nat /\ Len(outbox) + 1 \in Nat /\ \A i \in Rows : outbox[i].version \in Nat
  BY <1>0, RowTypes DEF Typed
<1>8. RowsInv'
  <2>1. ASSUME NEW i \in Rows', NEW q \in Orders, About(outbox'[i], q)
        PROVE  outbox'[i].version <= version'[q]
    <3>1. CASE i \in Rows
      <4>1. outbox'[i] = outbox[i] /\ outbox[i].version \in Nat
        BY <1>6, <1>7, <3>1
      <4>2. outbox[i].version <= version[q]
        BY <1>0, <2>1, <3>1, <4>1 DEF RowsInv
      <4> QED BY <1>3, <4>1, <4>2
    <3>2. CASE i = Len(outbox) + 1
      <4>1. q = o /\ outbox'[i].version = n
        BY <1>2, <1>6, <2>1, <3>2 DEF About
      <4> QED BY <1>3, <4>1
    <3> QED BY <1>6, <3>1, <3>2
  <2>2. ASSUME NEW i \in Rows', NEW j \in Rows', NEW q \in Orders,
               i < j, About(outbox'[i], q), About(outbox'[j], q)
        PROVE  outbox'[i].version < outbox'[j].version
    <3>1. i \in Rows
      BY <1>6, <1>7, <2>2
    <3>2. CASE j \in Rows
      BY <1>0, <1>6, <2>2, <3>1, <3>2 DEF RowsInv
    <3>3. CASE j = Len(outbox) + 1
      <4>1. q = o /\ outbox'[j].version = n
        BY <1>2, <1>6, <2>2, <3>3 DEF About
      <4>2. outbox[i].version <= version[o]
        BY <1>0, <1>6, <2>2, <3>1, <4>1 DEF RowsInv
      <4> QED BY <1>3, <1>6, <1>7, <3>1, <4>1, <4>2
    <3> QED BY <1>6, <3>2, <3>3
  <2>3. ASSUME NEW q \in Orders, NEW v \in 1 .. version'[q]
        PROVE  \E i \in Rows' : outbox'[i] = OrderEvent(q, v)
    <3>1. CASE v \in 1 .. version[q]
      <4>1. PICK i \in Rows : outbox[i] = OrderEvent(q, v)
        BY <1>0, <3>1 DEF RowsInv
      <4> QED BY <1>6, <4>1
    <3>2. CASE v \notin 1 .. version[q]
      <4>1. q = o /\ v = n
        BY <1>3, <3>2
      <4> QED BY <1>6, <4>1 DEF e
    <3> QED BY <3>1, <3>2
  <2> QED BY <2>1, <2>2, <2>3 DEF RowsInv
<1>9. BufferInv'
  <2>1. registered' = registered /\ slow' = slow /\ buffer' = buffer
        /\ published' = published /\ sent' = sent
    BY <1>4 DEF hubVars, publisherVars
  <2>2. ASSUME NEW c \in Clients, NEW k \in 1 .. Len(buffer[c]), NEW q \in Orders,
               About(buffer[c][k], q)
        PROVE  buffer[c][k].version <= version'[q]
    <3>1. buffer[c][k] \in Events
      BY <1>0 DEF Typed
    <3>2. buffer[c][k].version \in Nat
      BY <3>1, EventForms
    <3>3. buffer[c][k].version <= version[q]
      BY <2>2 DEF FeedInv, BufferInv
    <3> QED BY <1>3, <3>2, <3>3
  <2>3. \A i \in published \cup sent : outbox'[i] = outbox[i]
    BY <1>5, <2>1
  <2> QED BY <2>1, <2>2, <2>3 DEF FeedInv, BufferInv
<1> QED BY <1>5, <1>8, <1>9 DEF FeedInv

LEMMA CommitPaymentKeeps ==
  ASSUME FeedInv, NEW o \in Orders, CommitPayment(o)
  PROVE  FeedInv'
<1> DEFINE e == PaymentEvent(o)
<1>0. Typed /\ RowsInv
  BY DEF FeedInv
<1>2. e \in Events /\ e.kind = "PAYMENT"
  BY DEF Events, PaymentEvent
<1>4. outbox' = Append(outbox, e) /\ UNCHANGED <<publisherVars, hubVars, version>>
  BY DEF CommitPayment
<1> HIDE DEF e
<1>5. /\ PassedInv' /\ NoGapInBuffer'
      /\ \A i \in published' \cup sent' : i \in Rows /\ outbox'[i] = outbox[i]
  BY <1>2, <1>4, NewRowPasses
<1>t. Typed'
  BY <1>0, <1>2, <1>4, NewRowPasses DEF Typed
<1>6. /\ Rows' = Rows \cup {Len(outbox) + 1} /\ outbox'[Len(outbox) + 1] = e
      /\ \A i \in Rows : outbox'[i] = outbox[i] /\ i < Len(outbox) + 1
  BY <1>0, <1>2, <1>4, RowAppended
<1>7. \A q : ~About(outbox'[Len(outbox) + 1], q)
  BY <1>2, <1>6 DEF About
<1>8. RowsInv'
  BY <1>0, <1>4, <1>6, <1>7 DEF RowsInv
<1>9. BufferInv'
  BY <1>4, <1>5 DEF FeedInv, BufferInv, hubVars, publisherVars
<1> QED BY <1>5, <1>t, <1>8, <1>9 DEF FeedInv

(* A batch holds the oldest rows that are not published, as many as fit.   *)
Oldest == {i \in Unpublished : Cardinality({j \in Unpublished : j < i}) < BatchSize}

LEMMA OldestComeFirst ==
  ASSUME Typed
  PROVE  \A i \in Oldest : \A j \in Unpublished \ Oldest : i < j
<1> SUFFICES ASSUME NEW i \in Oldest, NEW j \in Unpublished, j \notin Oldest, ~(i < j)
             PROVE  FALSE
  OBVIOUS
<1> DEFINE Below(k) == {u \in Unpublished : u < k}
<1>1. IsFiniteSet(Unpublished) /\ Unpublished \subseteq Nat
  <2>1. IsFiniteSet(Rows)
    BY FS_Interval DEF Rows, Typed
  <2>2. Unpublished \in SUBSET Rows
    BY DEF Unpublished
  <2> QED BY <2>1, <2>2, FS_Subset, RowTypes
<1>2. i \in Unpublished /\ i \in Nat /\ j \in Nat
  BY <1>1 DEF Oldest
<1>3. Below(i) \in SUBSET Unpublished /\ Below(j) \in SUBSET Below(i)
  <2>1. ASSUME NEW u \in Unpublished, u < j PROVE u < i
    BY <1>1, <1>2, <2>1
  <2> QED BY <2>1
<1>4. IsFiniteSet(Below(i)) /\ IsFiniteSet(Below(j))
  BY <1>1, <1>3, FS_Subset
<1>5. Cardinality(Below(j)) <= Cardinality(Below(i))
  BY <1>3, <1>4, FS_Subset
<1>6. Cardinality(Below(i)) \in Nat /\ Cardinality(Below(j)) \in Nat
  BY <1>4, FS_CardinalityType
<1>7. Cardinality(Below(i)) < BatchSize
  BY DEF Oldest
<1>8. Cardinality(Below(j)) < BatchSize
  BY <1>5, <1>6, <1>7, OrderFeedAssumption
<1> QED BY <1>8 DEF Oldest

LEMMA SelectBatchKeeps ==
  ASSUME FeedInv, SelectBatch
  PROVE  FeedInv'
<1>1. /\ batch' = Oldest /\ sent' = {} /\ batch = {} /\ published' = published /\ out' = out
      /\ version' = version /\ outbox' = outbox
      /\ registered' = registered /\ slow' = slow /\ buffer' = buffer
  BY DEF SelectBatch, Oldest, storeVars, hubVars
<1>2. Typed /\ RowsInv /\ PassedInv /\ BufferInv /\ sent = {}
  BY <1>1 DEF FeedInv, Typed
<1>3. Rows' = Rows /\ Unpublished' = Unpublished
  BY <1>1 DEF Rows, Unpublished
<1>4. Typed'
  BY <1>1, <1>2, <1>3 DEF Typed, Oldest
<1>5. RowsInv'
  BY <1>1, <1>2, <1>3 DEF RowsInv
<1>6. PassedInv'
  BY <1>1, <1>2, <1>3, OldestComeFirst DEF PassedInv
<1>7. BufferInv'
  BY <1>1, <1>2 DEF BufferInv
<1>8. NoGapInBuffer'
  BY <1>1 DEF FeedInv, NoGapInBuffer
<1> QED BY <1>4, <1>5, <1>6, <1>7, <1>8 DEF FeedInv

(* What is broadcast next is the oldest row that was not passed, so its    *)
(* predecessor in the order has been sent before.                          *)
LEMMA NextRow ==
  ASSUME FeedInv, NEW i \in batch, IsNext(i)
  PROVE  /\ i \in Rows /\ i \notin published \cup sent
         /\ \A j \in Rows : j < i => j \in published \cup sent
         /\ \A j \in published \cup sent : j \in Rows /\ j < i
         /\ \A o \in Orders : About(outbox[i], o) =>
              /\ \A j \in published \cup sent :
                   About(outbox[j], o) => outbox[j].version < outbox[i].version
              /\ outbox[i].version > 1 =>
                   \E j \in published \cup sent :
                     outbox[j] = OrderEvent(o, outbox[i].version - 1)
<1>0. Typed /\ RowsInv /\ PassedInv /\ Rows \subseteq Nat
  BY RowTypes DEF FeedInv
<1>1. i \in Rows /\ i \in Unpublished /\ i \in batch \ sent
  BY <1>0 DEF Typed, Unpublished, IsNext
<1>2. ASSUME NEW j \in Rows, j < i PROVE j \in published \cup sent
  <2>1. CASE j \in batch
    <3>1. j \in sent \/ i <= j
      BY <2>1 DEF IsNext
    <3> QED BY <1>0, <1>1, <1>2, <3>1
  <2>2. CASE j \in Unpublished \ batch
    <3>1. i < j
      BY <1>0, <2>2 DEF PassedInv
    <3> QED BY <1>0, <1>1, <1>2, <3>1
  <2> QED BY <2>1, <2>2 DEF Unpublished
<1>3. ASSUME NEW j \in published \cup sent PROVE j \in Rows /\ j < i
  <2>1. j \in Rows
    BY <1>0, <1>3 DEF Typed, Unpublished
  <2> QED BY <1>0, <1>1, <1>3, <2>1 DEF PassedInv
<1>4. ASSUME NEW o \in Orders, About(outbox[i], o), NEW j \in published \cup sent,
             About(outbox[j], o)
      PROVE  outbox[j].version < outbox[i].version
  BY <1>0, <1>1, <1>3, <1>4 DEF RowsInv
<1>5. ASSUME NEW o \in Orders, About(outbox[i], o), outbox[i].version > 1
      PROVE  \E j \in published \cup sent : outbox[j] = OrderEvent(o, outbox[i].version - 1)
  <2> DEFINE v == outbox[i].version
  <2>1. outbox[i] \in Events
    BY <1>0, <1>1, RowTypes
  <2>2. v \in 1 .. MaxVersion /\ MaxVersion \in Nat
    BY <1>5, <2>1, EventForms, OrderFeedAssumption DEF About
  <2>3. v <= version[o] /\ version[o] \in Nat
    BY <1>0, <1>1, <1>5 DEF RowsInv, Typed
  <2>4. v - 1 \in 1 .. version[o] /\ v - 1 \in 1 .. MaxVersion
    BY <1>5, <2>2, <2>3
  <2>5. PICK j \in Rows : outbox[j] = OrderEvent(o, v - 1)
    BY <1>0, <2>4 DEF RowsInv
  <2>6. About(outbox[j], o) /\ outbox[j].version = v - 1
    BY <2>4, <2>5, OrderEventIs DEF About
  <2>7. ~(i < j) /\ j # i
    <3>1. ~(v < v - 1) /\ v # v - 1
      BY <2>2
    <3> QED BY <1>0, <1>1, <1>5, <2>6, <3>1 DEF RowsInv
  <2>8. j < i
    BY <1>0, <1>1, <2>7
  <2> QED BY <1>2, <2>5, <2>8
<1> QED BY <1>1, <1>2, <1>3, <1>4, <1>5 DEF Unpublished

LEMMA BroadcastNextKeeps ==
  ASSUME FeedInv, NEW i \in batch, IsNext(i), Broadcast(outbox[i]),
         out' = out \cup {i}, sent' = sent \cup {i},
         UNCHANGED <<storeVars, published, batch>>
  PROVE  FeedInv'
<1> DEFINE e == outbox[i]
           Sent(c) == Append(buffer[c], e)
<1>0. Typed /\ RowsInv /\ PassedInv /\ BufferInv /\ NoGapInBuffer
  BY DEF FeedInv
<1>1. /\ version' = version /\ outbox' = outbox /\ published' = published /\ batch' = batch
      /\ Rows' = Rows /\ Unpublished' = Unpublished
  BY DEF storeVars, Rows, Unpublished
<1>2. /\ i \in Rows /\ i \notin published \cup sent
      /\ \A j \in Rows : j < i => j \in published \cup sent
      /\ \A j \in published \cup sent : j \in Rows /\ j < i
  BY NextRow
<1>3. e \in Events /\ e.version \in Nat /\ Rows \subseteq Nat
      /\ \A j \in Rows : outbox[j] \in Events /\ outbox[j].version \in Nat
  BY <1>0, <1>2, RowTypes
<1>4. registered' = registered /\ registered \subseteq Clients /\ slow \subseteq slow'
      /\ slow' \subseteq registered
      /\ \A c \in registered : ~HasRoom(c) => c \in slow'
  BY <1>0 DEF Broadcast, Typed
<1>5. /\ buffer' \in [Clients -> Seq(Events)]
      /\ \A c \in Clients : buffer[c] \in Seq(Events)
      /\ \A c \in Clients : buffer'[c] = IF c \in registered /\ HasRoom(c) THEN Sent(c)
                                         ELSE buffer[c]
  <2>1. \A c \in Clients : buffer[c] \in Seq(Events) /\ Sent(c) \in Seq(Events)
    BY <1>0, <1>3, AppendIs DEF Typed
  <2>2. buffer' = [c \in Clients |-> IF c \in registered /\ HasRoom(c) THEN Sent(c)
                                     ELSE buffer[c]]
    BY DEF Broadcast
  <2> QED BY <2>1, <2>2
<1>6. ASSUME NEW c \in Clients PROVE buffer'[c] = buffer[c] \/ buffer'[c] = Sent(c)
  BY <1>5
<1>7. ASSUME NEW c \in Clients \ slow'
      PROVE  (buffer[c] = << >> /\ buffer'[c] = << >>) \/ buffer'[c] = Sent(c)
  <2>1. CASE c \in registered
    BY <1>4, <1>5, <1>7, <2>1
  <2>2. CASE c \notin registered
    BY <1>0, <1>5, <2>2 DEF BufferInv
  <2> QED BY <2>1, <2>2
<1> HIDE DEF Sent, e
<1>8. Typed'
  BY <1>0, <1>1, <1>2, <1>4, <1>5 DEF Typed
<1>9. RowsInv'
  BY <1>0, <1>1 DEF RowsInv
<1>10. PassedInv'
  <2>1. \A j \in sent \cup {i} : \A k \in batch \ (sent \cup {i}) : j < k
    <3>1. \A k \in batch \ sent : i <= k /\ k \in Nat
      BY <1>0, <1>3 DEF IsNext, Typed, Unpublished
    <3> QED BY <1>0, <1>2, <1>3, <3>1 DEF PassedInv
  <2>2. \A j \in out \cup {i} : \A k \in Rows : k < j => k \in out \cup {i}
    BY <1>0, <1>2 DEF PassedInv
  <2> QED BY <1>0, <1>1, <2>1, <2>2 DEF PassedInv
<1>11. NoGapInBuffer'
  <2>1. ASSUME NEW c \in Clients \ slow' PROVE Smooth(buffer'[c])
    <3>1. CASE buffer'[c] = << >>
      BY <3>1, NothingIsSmooth
    <3>2. CASE buffer'[c] = Sent(c)
      <4>1. Smooth(buffer[c]) /\ buffer[c] \in Seq(Events)
        BY <1>0, <1>4, <1>5, <2>1, GapIsSmooth
      <4>2. ASSUME e.kind = "ORDER" PROVE LastIsFrom(buffer[c], e.order, e.version - 1)
        <5>1. e.order \in Orders /\ About(e, e.order) /\ e.version \in Nat \ {0}
          BY <1>3, <4>2, EventForms, OrderFeedAssumption DEF About
        <5>2. CASE e.version > 1
          <6>1. PICK j \in published \cup sent : outbox[j] = OrderEvent(e.order, e.version - 1)
            BY <5>1, <5>2, NextRow DEF e
          <6>2. e.version - 1 \in 1 .. MaxVersion
            BY <1>3, <4>2, <5>1, <5>2, EventForms, OrderFeedAssumption
          <6>3. About(outbox[j], e.order) /\ outbox[j].version = e.version - 1
            BY <5>1, <6>1, <6>2, OrderEventIs DEF About
          <6> QED BY <1>0, <1>4, <2>1, <5>1, <6>3 DEF BufferInv
        <5>3. CASE e.version = 1
          <6>1. \A k \in 1 .. Len(buffer[c]) : buffer[c][k].version \in Nat
            BY <4>1, EventForms
          <6> QED BY <5>3, <6>1 DEF LastIsFrom
        <5> QED BY <5>1, <5>2, <5>3
      <4> QED BY <1>3, <3>2, <4>1, <4>2, AppendKeeps DEF Sent
    <3> QED BY <1>7, <2>1, <3>1, <3>2
  <2>2. \A c \in Clients \ slow' : Smooth(buffer'[c])
    BY <2>1
  <2>3. (\A c \in Clients \ slow : Smooth(buffer[c]))'
    BY <2>2
  <2> QED BY <2>3, GapIsSmooth, PTL
<1>12. BufferInv'
  <2>1. \A c \in Clients \ registered : buffer'[c] = << >>
    BY <1>0, <1>5 DEF BufferInv
  <2>2. ASSUME NEW c \in Clients, NEW k \in 1 .. Len(buffer'[c]), NEW o \in Orders,
               About(buffer'[c][k], o)
        PROVE  buffer'[c][k].version <= version[o]
    <3>1. CASE buffer'[c] = buffer[c]
      BY <1>0, <2>2, <3>1 DEF BufferInv
    <3>2. CASE buffer'[c] = Sent(c)
      <4>1. /\ Len(buffer[c]) \in Nat /\ Len(buffer'[c]) = Len(buffer[c]) + 1
            /\ \A l \in 1 .. Len(buffer[c]) : buffer'[c][l] = buffer[c][l]
            /\ buffer'[c][Len(buffer[c]) + 1] = e
        BY <1>3, <1>5, <3>2, AppendIs DEF Sent
      <4>2. CASE k \in 1 .. Len(buffer[c])
        BY <1>0, <2>2, <4>1, <4>2 DEF BufferInv
      <4>3. CASE k = Len(buffer[c]) + 1
        BY <1>0, <1>2, <2>2, <4>1, <4>3 DEF RowsInv, e
      <4> QED BY <4>1, <4>2, <4>3
    <3> QED BY <1>6, <3>1, <3>2
  <2>3. ASSUME NEW c \in Clients \ slow', NEW o \in Orders, NEW j \in published \cup sent \cup {i},
               About(outbox[j], o)
        PROVE  LastIsFrom(buffer'[c], o, outbox[j].version)
    <3>1. CASE buffer'[c] = << >>
      BY <3>1, NothingIsSmooth
    <3>2. CASE buffer'[c] = Sent(c)
      <4>1. buffer[c] \in Seq(Events) /\ outbox[j].version \in Nat
        BY <1>2, <1>3, <1>5, <2>3
      <4>2. CASE j \in published \cup sent
        <5>1. LastIsFrom(buffer[c], o, outbox[j].version)
          BY <1>0, <1>4, <2>3, <4>2 DEF BufferInv
        <5>2. About(e, o) => outbox[j].version <= e.version
          <6>1. About(e, o) => outbox[j].version < e.version
            BY <2>3, <4>2, NextRow DEF e
          <6> QED BY <1>3, <4>1, <6>1
        <5> QED BY <1>3, <3>2, <4>1, <5>1, <5>2, AppendKeeps DEF Sent
      <4>3. CASE j = i
        <5>1. About(e, o) /\ outbox[j].version = e.version
          BY <2>3, <4>3 DEF e
        <5>2. /\ Len(buffer[c]) \in Nat /\ Len(buffer'[c]) = Len(buffer[c]) + 1
              /\ buffer'[c][Len(buffer[c]) + 1] = e
          BY <1>3, <3>2, <4>1, AppendIs DEF Sent
        <5>3. ASSUME NEW k \in 1 .. Len(buffer'[c]),
                     \A l \in k + 1 .. Len(buffer'[c]) : ~About(buffer'[c][l], o)
              PROVE  buffer'[c][k] = e
          <6>1. Len(buffer[c]) + 1 \notin k + 1 .. Len(buffer'[c])
            BY <5>1, <5>2, <5>3
          <6>2. k = Len(buffer[c]) + 1
            BY <5>2, <6>1
          <6> QED BY <5>2, <6>2
        <5> QED BY <1>3, <5>1, <5>3 DEF LastIsFrom
      <4> QED BY <2>3, <4>2, <4>3
    <3> QED BY <1>7, <2>3, <3>1, <3>2
  <2> QED BY <1>1, <1>4, <2>1, <2>2, <2>3 DEF BufferInv
<1> QED BY <1>8, <1>9, <1>10, <1>11, <1>12 DEF FeedInv

LEMMA MarkPublishedKeeps ==
  ASSUME FeedInv, MarkPublished
  PROVE  FeedInv'
<1>0. Typed /\ RowsInv /\ PassedInv /\ BufferInv /\ NoGapInBuffer
  BY DEF FeedInv
<1>1. /\ batch' = {} /\ sent' = {} /\ published' = published \cup batch /\ out' = out
      /\ sent = batch /\ version' = version /\ outbox' = outbox
      /\ registered' = registered /\ slow' = slow /\ buffer' = buffer
  BY DEF MarkPublished, BatchEnds, storeVars, hubVars
<1>2. Rows' = Rows /\ Unpublished' = Unpublished \ batch
  BY <1>1 DEF Rows, Unpublished
<1>3. Typed'
  BY <1>0, <1>1, <1>2 DEF Typed, Unpublished
<1>4. RowsInv'
  BY <1>0, <1>1, <1>2 DEF RowsInv
<1>5. PassedInv'
  BY <1>0, <1>1, <1>2 DEF PassedInv
<1>6. BufferInv'
  BY <1>0, <1>1 DEF BufferInv
<1>7. NoGapInBuffer'
  BY <1>0, <1>1 DEF NoGapInBuffer
<1> QED BY <1>3, <1>4, <1>5, <1>6, <1>7 DEF FeedInv

(* What the hub does, whatever becomes of the batch: clients come, read or *)
(* are forgotten, and the batch stays or ends.                             *)
LEMMA HubKeeps ==
  ASSUME FeedInv, UNCHANGED <<storeVars, published, out>>,
         UNCHANGED <<batch, sent>> \/ BatchEnds,
         registered' \subseteq Clients, slow' \subseteq registered',
         buffer' \in [Clients -> Seq(Events)],
         \A c \in Clients : \/ buffer'[c] = << >>
                            \/ /\ buffer'[c] = buffer[c] \/ (buffer[c] # << >> /\ buffer'[c] = Tail(buffer[c]))
                               /\ c \in registered => c \in registered'
                               /\ c \in slow => c \in slow'
  PROVE  FeedInv'
<1>0. Typed /\ RowsInv /\ PassedInv /\ BufferInv /\ NoGapInBuffer
  BY DEF FeedInv
<1>1. /\ published' = published /\ out' = out /\ version' = version /\ outbox' = outbox
      /\ Rows' = Rows /\ Unpublished' = Unpublished
  BY DEF storeVars, Rows, Unpublished
<1>2. (batch' = batch /\ sent' = sent) \/ (batch' = {} /\ sent' = {})
  BY DEF BatchEnds
<1>3. Typed'
  BY <1>0, <1>1, <1>2 DEF Typed
<1>4. RowsInv'
  BY <1>0, <1>1 DEF RowsInv
<1>5. PassedInv'
  BY <1>0, <1>1, <1>2 DEF PassedInv
<1>6. BufferInv'
  <2>1. ASSUME NEW c \in Clients \ registered' PROVE buffer'[c] = << >>
    BY <1>0, <2>1 DEF BufferInv
  <2>2. ASSUME NEW c \in Clients, NEW k \in 1 .. Len(buffer'[c]), NEW o \in Orders,
               About(buffer'[c][k], o)
        PROVE  buffer'[c][k].version <= version[o]
    <3>0. buffer[c] \in Seq(Events)
      BY <1>0 DEF Typed
    <3>1. CASE buffer'[c] = << >>
      BY <3>1, NothingIsSmooth
    <3>2. CASE buffer'[c] = buffer[c]
      BY <1>0, <2>2, <3>2 DEF BufferInv
    <3>3. CASE buffer[c] # << >> /\ buffer'[c] = Tail(buffer[c])
      <4>1. k + 1 \in 1 .. Len(buffer[c]) /\ buffer'[c][k] = buffer[c][k + 1]
        BY <3>0, <3>3, TailIs
      <4> QED BY <1>0, <2>2, <4>1 DEF BufferInv
    <3> QED BY <3>1, <3>2, <3>3
  <2>3. ASSUME NEW c \in Clients \ slow', NEW o \in Orders, NEW j \in published' \cup sent',
               About(outbox[j], o)
        PROVE  LastIsFrom(buffer'[c], o, outbox[j].version)
    <3>0. buffer[c] \in Seq(Events) /\ j \in published \cup sent
      BY <1>0, <1>1, <1>2 DEF Typed
    <3>1. CASE buffer'[c] = << >>
      BY <3>1, NothingIsSmooth
    <3>2. CASE buffer'[c] # << >>
      <4>1. c \notin slow
        BY <2>3, <3>2
      <4>2. LastIsFrom(buffer[c], o, outbox[j].version)
        BY <1>0, <2>3, <3>0, <4>1 DEF BufferInv
      <4>3. CASE buffer'[c] = buffer[c]
        BY <4>2, <4>3
      <4>4. CASE buffer[c] # << >> /\ buffer'[c] = Tail(buffer[c])
        <5> DEFINE v == outbox[j].version
        <5>1. LastIsFrom(buffer[c], o, v) => LastIsFrom(Tail(buffer[c]), o, v)
          <6> HIDE DEF v
          <6> QED BY <3>0, <4>4, TailKeeps
        <5> QED BY <4>2, <4>4, <5>1
      <4> QED BY <2>3, <3>2, <4>3, <4>4
    <3> QED BY <3>1, <3>2
  <2> QED BY <1>1, <2>1, <2>2, <2>3 DEF BufferInv
<1>7. NoGapInBuffer'
  <2>1. ASSUME NEW c \in Clients \ slow' PROVE Smooth(buffer'[c])
    <3>0. buffer[c] \in Seq(Events)
      BY <1>0 DEF Typed
    <3>1. CASE buffer'[c] = << >>
      BY <3>1, NothingIsSmooth
    <3>2. CASE buffer'[c] # << >>
      <4>1. Smooth(buffer[c])
        BY <1>0, <2>1, <3>2, GapIsSmooth
      <4> QED BY <3>0, <3>2, <4>1, TailKeeps
    <3> QED BY <3>1, <3>2
  <2>2. (\A c \in Clients \ slow : Smooth(buffer[c]))'
    BY <2>1
  <2> QED BY <2>2, GapIsSmooth, PTL
<1> QED BY <1>3, <1>4, <1>5, <1>6, <1>7 DEF FeedInv

LEMMA RegisterKeeps ==
  ASSUME FeedInv, NEW c \in Clients, Register(c)
  PROVE  FeedInv'
<1>1. /\ registered' = registered \cup {c} /\ slow' = slow /\ buffer' = buffer
      /\ UNCHANGED <<storeVars, published, out>> /\ UNCHANGED <<batch, sent>>
  BY DEF Register, publisherVars
<1>2. Typed
  BY DEF FeedInv
<1>3. registered' \subseteq Clients /\ slow' \subseteq registered'
      /\ buffer' \in [Clients -> Seq(Events)]
  BY <1>1, <1>2 DEF Typed
<1> QED BY <1>1, <1>3, HubKeeps

LEMMA WriteNextKeeps ==
  ASSUME FeedInv, NEW c \in Clients, WriteNext(c)
  PROVE  FeedInv'
<1>1. /\ registered' = registered /\ slow' = slow
      /\ buffer[c] # << >> /\ buffer' = [buffer EXCEPT ![c] = Tail(@)]
      /\ UNCHANGED <<storeVars, published, out>> /\ UNCHANGED <<batch, sent>>
  BY DEF WriteNext, publisherVars
<1>2. Typed
  BY DEF FeedInv
<1>3. Tail(buffer[c]) \in Seq(Events)
  BY <1>1, <1>2, TailIs DEF Typed
<1>4. /\ buffer' \in [Clients -> Seq(Events)]
      /\ buffer'[c] = Tail(buffer[c])
      /\ \A d \in Clients : d # c => buffer'[d] = buffer[d]
  BY <1>1, <1>2, <1>3 DEF Typed
<1>5. registered' \subseteq Clients /\ slow' \subseteq registered'
  BY <1>1, <1>2 DEF Typed
<1>6. \A d \in Clients : buffer'[d] = buffer[d] \/ (buffer[d] # << >> /\ buffer'[d] = Tail(buffer[d]))
  BY <1>1, <1>4
<1> QED BY <1>1, <1>4, <1>5, <1>6, HubKeeps

LEMMA ForgetKeeps ==
  ASSUME FeedInv, NEW c \in Clients, Forget(c), UNCHANGED <<storeVars, publisherVars>>
  PROVE  FeedInv'
<1>1. /\ registered' = registered \ {c} /\ slow' = slow \ {c}
      /\ buffer' = [buffer EXCEPT ![c] = << >>]
      /\ UNCHANGED <<storeVars, published, out>> /\ UNCHANGED <<batch, sent>>
  BY DEF Forget, publisherVars
<1>2. Typed
  BY DEF FeedInv
<1>3. /\ buffer' \in [Clients -> Seq(Events)]
      /\ buffer'[c] = << >>
      /\ \A d \in Clients : d # c => buffer'[d] = buffer[d]
  BY <1>1, <1>2, NothingIsSmooth DEF Typed
<1>4. registered' \subseteq Clients /\ slow' \subseteq registered'
  BY <1>1, <1>2 DEF Typed
<1> QED BY <1>1, <1>3, <1>4, HubKeeps

LEMMA BatchFailsKeeps ==
  ASSUME FeedInv, BatchFails
  PROVE  FeedInv'
<1>1. /\ registered' = registered /\ slow' = slow /\ buffer' = buffer
      /\ UNCHANGED <<storeVars, published, out>> /\ BatchEnds
  BY DEF BatchFails, hubVars
<1>2. registered' \subseteq Clients /\ slow' \subseteq registered'
      /\ buffer' \in [Clients -> Seq(Events)]
  BY <1>1 DEF FeedInv, Typed
<1> QED BY <1>1, <1>2, HubKeeps

LEMMA ServerStopsKeeps ==
  ASSUME FeedInv, ServerStops
  PROVE  FeedInv'
<1>1. /\ registered' = {} /\ slow' = {} /\ buffer' = [c \in Clients |-> << >>]
      /\ UNCHANGED <<storeVars, published, out>> /\ BatchEnds
  BY DEF ServerStops
<1>2. buffer' \in [Clients -> Seq(Events)] /\ \A c \in Clients : buffer'[c] = << >>
  BY <1>1, NothingIsSmooth
<1>3. registered' \subseteq Clients /\ slow' \subseteq registered'
  BY <1>1
<1> QED BY <1>1, <1>2, <1>3, HubKeeps

(* What can happen to the feed, whoever does it: a step of its own, a      *)
(* client forgotten for a reason of its own, or nothing.                   *)
FeedMoves ==
  \/ Next
  \/ \E c \in Clients : Forget(c) /\ UNCHANGED <<storeVars, publisherVars>>
  \/ UNCHANGED <<storeVars, publisherVars, hubVars>>

LEMMA FeedStep == FeedInv /\ FeedMoves => FeedInv'
<1> SUFFICES ASSUME FeedInv, FeedMoves PROVE FeedInv'
  OBVIOUS
<1>1. CASE Store
  BY <1>1, CommitOrderKeeps, CommitPaymentKeeps DEF Store
<1>2. CASE Publisher
  <2>1. CASE BroadcastNext
    BY <2>1, BroadcastNextKeeps DEF BroadcastNext
  <2> QED BY <1>2, <2>1, SelectBatchKeeps, MarkPublishedKeeps DEF Publisher
<1>3. CASE \E c \in Clients : Forget(c) /\ UNCHANGED <<storeVars, publisherVars>>
  BY <1>3, ForgetKeeps
<1>4. CASE Hub
  <2>1. ASSUME NEW c \in Clients, CutOff(c) PROVE FeedInv'
    BY <2>1, ForgetKeeps DEF CutOff
  <2> QED BY <1>4, <2>1, RegisterKeeps, WriteNextKeeps DEF Hub
<1>5. CASE Faults
  <2>1. ASSUME NEW c \in Clients, Disconnect(c) PROVE FeedInv'
    BY <2>1, ForgetKeeps DEF Disconnect
  <2> QED BY <1>5, <2>1, BatchFailsKeeps, ServerStopsKeeps DEF Faults
<1>6. CASE UNCHANGED <<storeVars, publisherVars, hubVars>>
  <2>1. /\ version' = version /\ outbox' = outbox /\ published' = published /\ batch' = batch
        /\ sent' = sent /\ out' = out /\ registered' = registered /\ slow' = slow
        /\ buffer' = buffer
    BY <1>6 DEF storeVars, publisherVars, hubVars
  <2> QED BY <2>1 DEF FeedInv, Typed, RowsInv, PassedInv, BufferInv, NoGapInBuffer, Rows,
                      Unpublished
<1> QED BY <1>1, <1>2, <1>3, <1>4, <1>5, <1>6 DEF FeedMoves, Next

LEMMA FeedIsSound == Spec => []FeedInv
<1>1. FeedInv /\ [Next]_vars => FeedInv'
  BY FeedStep DEF FeedMoves, vars
<1> QED BY FeedStart, <1>1, PTL DEF Spec

(* What waits for a client never jumps a version of an order, through      *)
(* failed batches sent again, slow clients and restarts.                   *)
THEOREM NothingIsSkipped == Spec => []NoGapInBuffer
BY FeedIsSound, PTL DEF FeedInv

-----------------------------------------------------------------------------
(* The feed keeps the promise of EventFeed, but for its fairness.          *)

LEMMA HasGreatest ==
  ASSUME NEW n \in Nat, NEW S \in SUBSET (0 .. n), S # {}
  PROVE  \E m \in S : \A x \in S : x <= m
<1> DEFINE T == {n - x : x \in S}
<1>1. T \subseteq Nat /\ T # {}
  <2>1. PICK x \in S : TRUE
    OBVIOUS
  <2>2. n - x \in T
    BY <2>1
  <2>3. \A z \in S : n - z \in Nat
    OBVIOUS
  <2> QED BY <2>2, <2>3
<1>2. IsWellFoundedOn(OpToRel(<, Nat), Nat)
  BY NatLessThanWellFounded
<1>3. PICK y \in T : \A z \in T : ~(<<z, y>> \in OpToRel(<, Nat))
  <2> HIDE DEF T
  <2> QED BY <1>1, <1>2, WFMin
<1>4. \A z \in T : z >= y
  <2> SUFFICES ASSUME NEW z \in T PROVE z >= y
    OBVIOUS
  <2>1. y \in Nat /\ z \in Nat
    BY <1>1
  <2>2. ~(z < y)
    BY <1>3, <2>1 DEF OpToRel
  <2> QED BY <2>1, <2>2
<1>5. PICK m \in S : y = n - m
  OBVIOUS
<1>6. \A x \in S : n - x >= n - m
  BY <1>4, <1>5
<1> QED BY <1>5, <1>6

(* Versions 1 .. n of the order have been broadcast.                       *)
AllSent(o, n) == \A w \in 1 .. n : \E i \in out : outbox[i] = OrderEvent(o, w)

Reached(o, n) ==
  /\ n \in 0 .. version[o] /\ AllSent(o, n)
  /\ \A m \in 0 .. version[o] : AllSent(o, m) => m <= n

LEMMA PassedIsReached ==
  Typed => /\ Passed = [o \in Orders |-> Passed[o]]
           /\ \A o \in Orders : Reached(o, Passed[o])
<1> SUFFICES ASSUME Typed, NEW o \in Orders
             PROVE  Reached(o, Passed[o])
  BY DEF Passed
<1> DEFINE S == {0} \cup {v \in 1 .. version[o] :
                    \A w \in 1 .. v : \E i \in out : outbox[i] = OrderEvent(o, w)}
<1>1. version[o] \in Nat
  BY OrderFeedAssumption DEF Typed
<1>2. \A n \in 0 .. version[o] : n \in S <=> AllSent(o, n)
  BY <1>1 DEF AllSent
<1>3. S \in SUBSET (0 .. version[o]) /\ S # {}
  BY <1>1
<1>4. Passed[o] = Max(S)
  BY DEF Passed, SentUpTo
<1> HIDE DEF S
<1>5. \E m \in S : \A x \in S : x <= m
  BY <1>1, <1>3, HasGreatest
<1>6. \E m \in S : \A x \in S : m >= x
  BY <1>1, <1>3, <1>5
<1>7. Max(S) \in S /\ \A x \in S : Max(S) >= x
  BY <1>6 DEF Max
<1>8. Passed[o] \in S /\ \A x \in S : x <= Passed[o]
  BY <1>1, <1>3, <1>4, <1>7
<1> QED BY <1>2, <1>3, <1>8 DEF Reached

LEMMA ReachedIsOne ==
  ASSUME Typed, NEW o \in Orders, NEW n, NEW m, Reached(o, n), Reached(o, m)
  PROVE  n = m
<1>1. version[o] \in Nat
  BY OrderFeedAssumption DEF Typed
<1> QED BY <1>1 DEF Reached

(* Of a row of version v nothing later can have been sent before it.       *)
LEMMA RowsAreOrdered ==
  ASSUME Typed, RowsInv, NEW o \in Orders, NEW u \in 1 .. MaxVersion, NEW v \in 1 .. MaxVersion,
         NEW i \in Rows, NEW j \in Rows,
         outbox[i] = OrderEvent(o, u), outbox[j] = OrderEvent(o, v)
  PROVE  u < v <=> i < j
<1>1. About(outbox[i], o) /\ outbox[i].version = u /\ About(outbox[j], o) /\ outbox[j].version = v
  BY OrderEventIs DEF About
<1>2. i \in Nat /\ j \in Nat /\ u \in Nat /\ v \in Nat
  BY RowTypes, OrderFeedAssumption
<1>3. (i < j => u < v) /\ (j < i => v < u)
  BY <1>1 DEF RowsInv
<1>4. i = j => u = v
  BY <1>1
<1> QED BY <1>2, <1>3, <1>4

(* What was sent of an order stays what it was while only rows are added.  *)
LEMMA PassedStays ==
  ASSUME FeedInv, FeedInv', out' = out, \A i \in Rows : outbox'[i] = outbox[i],
         NEW q \in Orders, version[q] <= version'[q]
  PROVE  Passed'[q] = Passed[q]
<1> DEFINE p == Passed[q]
<1>1. Typed /\ RowsInv /\ Reached(q, p)
  BY PassedIsReached DEF FeedInv
<1>2. Typed' /\ (\A o \in Orders : Reached(o, Passed[o]))'
  <2>1. Typed'
    BY DEF FeedInv
  <2> QED BY <2>1, PassedIsReached, PTL
<1>3. /\ Passed'[q] \in 0 .. version'[q]
      /\ \A w \in 1 .. Passed'[q] : \E i \in out' : outbox'[i] = OrderEvent(q, w)
      /\ \A m \in 0 .. version'[q] :
           (\A w \in 1 .. m : \E i \in out' : outbox'[i] = OrderEvent(q, w)) => m <= Passed'[q]
  BY <1>2 DEF Reached, AllSent
<1>4. \A i \in out : i \in Rows /\ outbox'[i] = outbox[i]
  BY <1>1 DEF Typed
<1>5. version[q] \in Nat /\ version'[q] \in Nat /\ version'[q] <= MaxVersion /\ MaxVersion \in Nat
  BY <1>1, <1>2, OrderFeedAssumption DEF Typed
<1>6. ASSUME NEW m \in 0 .. version'[q], AllSent(q, m)
      PROVE  m \in 0 .. version[q]
  <2>1. CASE m = 0
    BY <1>5, <2>1
  <2>2. CASE m # 0
    <3>1. m \in 1 .. m /\ m \in 1 .. MaxVersion
      BY <1>5, <2>2
    <3>2. PICK i \in out : outbox[i] = OrderEvent(q, m)
      BY <1>6, <3>1 DEF AllSent
    <3>3. i \in Rows /\ About(outbox[i], q) /\ outbox[i].version = m
      BY <1>4, <3>1, <3>2, OrderEventIs DEF About
    <3>4. m <= version[q]
      BY <1>1, <3>3 DEF RowsInv
    <3> QED BY <1>5, <3>4
  <2> QED BY <2>1, <2>2
<1>7. \A m : AllSent(q, m) <=> \A w \in 1 .. m : \E i \in out' : outbox'[i] = OrderEvent(q, w)
  BY <1>4 DEF AllSent
<1>8. Reached(q, Passed'[q])
  <2>1. AllSent(q, Passed'[q])
    BY <1>3, <1>7
  <2>2. Passed'[q] \in 0 .. version[q]
    BY <1>3, <1>6, <2>1
  <2>3. \A m \in 0 .. version[q] : m \in 0 .. version'[q]
    BY <1>5
  <2> QED BY <1>3, <1>7, <2>1, <2>2, <2>3 DEF Reached
<1> QED BY <1>1, <1>8, ReachedIsOne

(* A row broadcast for the first time is the next version of its order.    *)
LEMMA BroadcastSends ==
  ASSUME FeedInv, FeedInv', NEW i \in batch, IsNext(i), out' = out \cup {i},
         version' = version, outbox' = outbox
  PROVE  \/ \A q \in Orders : Passed'[q] = Passed[q]
         \/ \E o \in Orders : /\ Passed[o] \in Nat /\ version[o] \in Nat /\ Passed[o] < version[o]
                              /\ Passed'[o] = Passed[o] + 1
                              /\ \A q \in Orders \ {o} : Passed'[q] = Passed[q]
<1>0. Typed /\ RowsInv /\ PassedInv /\ MaxVersion \in Nat /\ Rows \subseteq Nat
  BY RowTypes, OrderFeedAssumption DEF FeedInv
<1>1. Typed' /\ \A o \in Orders : Reached(o, Passed[o])
  BY <1>0, PassedIsReached DEF FeedInv
<1>2. (\A o \in Orders : Reached(o, Passed[o]))'
  BY <1>1, PassedIsReached, PTL
<1>3. /\ \A q \in Orders : Passed'[q] \in 0 .. version[q]
      /\ \A q \in Orders : \A w \in 1 .. Passed'[q] :
           \E j \in out \cup {i} : outbox[j] = OrderEvent(q, w)
      /\ \A q \in Orders : \A m \in 0 .. version[q] :
           (\A w \in 1 .. m : \E j \in out \cup {i} : outbox[j] = OrderEvent(q, w))
             => m <= Passed'[q]
  BY <1>2 DEF Reached, AllSent
<1>4. \A q \in Orders : version[q] \in Nat /\ version[q] <= MaxVersion
  BY <1>0 DEF Typed
<1>5. ASSUME NEW q \in Orders, ~About(outbox[i], q)
      PROVE  Passed'[q] = Passed[q]
  <2>1. ASSUME NEW m \in 0 .. version[q]
        PROVE  AllSent(q, m) <=> \A w \in 1 .. m :
                                   \E j \in out \cup {i} : outbox[j] = OrderEvent(q, w)
    <3>1. \A w \in 1 .. m : w \in 1 .. MaxVersion
      BY <1>0, <1>4
    <3>2. \A w \in 1 .. m : outbox[i] # OrderEvent(q, w)
      BY <1>5, <3>1, OrderEventIs DEF About
    <3> QED BY <3>2 DEF AllSent
  <2>2. Reached(q, Passed'[q])
    BY <1>3, <2>1 DEF Reached
  <2> QED BY <1>0, <1>1, <2>2, ReachedIsOne
<1>6. CASE i \in out
  <2>1. out' = out /\ \A q \in Orders : version[q] <= version'[q]
    BY <1>4, <1>6
  <2> QED BY <2>1, PassedStays
<1>7. CASE i \notin out /\ \E o \in Orders : About(outbox[i], o)
  <2>1. PICK o \in Orders : About(outbox[i], o)
    BY <1>7
  <2> DEFINE v == outbox[i].version
             p == Passed[o]
             p1 == Passed'[o]
  <2>2. i \in Rows /\ outbox[i] = OrderEvent(o, v) /\ v \in 1 .. MaxVersion /\ v <= version[o]
    <3>1. i \in Rows /\ outbox[i] \in Events
      BY <1>0, NextRow, RowTypes
    <3>2. v <= version[o]
      BY <1>0, <2>1, <3>1 DEF RowsInv
    <3> QED BY <2>1, <3>1, <3>2, EventForms DEF About
  <2>3. ASSUME NEW w \in 1 .. version[o], w < v
        PROVE  \E j \in out : outbox[j] = OrderEvent(o, w)
    <3>1. PICK j \in Rows : outbox[j] = OrderEvent(o, w)
      BY <1>0 DEF RowsInv
    <3>2. w \in 1 .. MaxVersion
      BY <1>0, <1>4
    <3>3. w < v <=> j < i
      <4> HIDE DEF v
      <4> QED BY <1>0, <2>2, <3>1, <3>2, RowsAreOrdered
    <3>4. j \in published \cup sent
      BY <2>3, <3>3, NextRow
    <3> QED BY <1>0, <3>1, <3>4 DEF PassedInv
  <2>4. ASSUME NEW j \in out, NEW w \in 1 .. MaxVersion, outbox[j] = OrderEvent(o, w)
        PROVE  w < v
    <3>1. j \in Rows /\ ~(i < j) /\ j # i
      BY <1>0, <1>7, <2>2 DEF Typed, PassedInv
    <3>2. j < i
      BY <1>0, <2>2, <3>1
    <3>3. w < v <=> j < i
      <4> HIDE DEF v
      <4> QED BY <1>0, <2>2, <2>4, <3>1, RowsAreOrdered
    <3> QED BY <3>2, <3>3
  <2>5. p \in 0 .. version[o] /\ p1 \in 0 .. version[o] /\ version[o] \in Nat
    BY <1>1, <1>3, <1>4 DEF Reached
  <2> HIDE DEF p, p1
  <2>6. p = v - 1
    <3>1. v - 1 \in 0 .. version[o] /\ AllSent(o, v - 1)
      <4>1. v - 1 \in 0 .. version[o]
        BY <1>0, <1>4, <2>2
      <4>2. \A w \in 1 .. v - 1 : w \in 1 .. version[o] /\ w < v
        BY <1>0, <1>4, <2>2
      <4> QED BY <2>3, <4>1, <4>2 DEF AllSent
    <3>2. v - 1 <= p
      BY <1>1, <3>1 DEF Reached, p
    <3>3. p < v
      <4>1. CASE p = 0
        BY <1>0, <2>2, <4>1
      <4>2. CASE p # 0
        <5>1. p \in 1 .. p /\ p \in 1 .. MaxVersion
          BY <1>0, <1>4, <2>5, <4>2
        <5>2. PICK j \in out : outbox[j] = OrderEvent(o, p)
          BY <1>1, <5>1 DEF Reached, AllSent, p
        <5> QED BY <2>4, <5>1, <5>2
      <4> QED BY <4>1, <4>2
    <3> QED BY <1>0, <2>2, <2>5, <3>2, <3>3
  <2>7. p1 = v
    <3>1. v \in 0 .. version[o]
      BY <1>0, <1>4, <2>2
    <3>2. \A w \in 1 .. v : \E j \in out \cup {i} : outbox[j] = OrderEvent(o, w)
      <4>1. ASSUME NEW w \in 1 .. v
            PROVE  \E j \in out \cup {i} : outbox[j] = OrderEvent(o, w)
        <5>1. w \in 1 .. version[o] /\ (w < v \/ w = v)
          BY <1>0, <1>4, <2>2
        <5> QED BY <2>2, <2>3, <5>1
      <4> QED BY <4>1
    <3>3. v <= p1
      BY <1>3, <3>1, <3>2 DEF p1
    <3>4. p1 <= v
      <4>1. CASE p1 = 0
        BY <1>0, <2>2, <4>1
      <4>2. CASE p1 # 0
        <5>1. p1 \in 1 .. p1 /\ p1 \in 1 .. MaxVersion
          BY <1>0, <1>4, <2>5, <4>2
        <5>2. PICK j \in out \cup {i} : outbox[j] = OrderEvent(o, p1)
          BY <1>3, <5>1 DEF p1
        <5>3. CASE j \in out
          <6>1. p1 < v
            BY <2>4, <5>1, <5>2, <5>3
          <6> QED BY <1>0, <2>2, <2>5, <6>1
        <5>4. CASE j = i
          <6>1. p1 = v
            BY <5>1, <5>2, <5>4, OrderEventIs
          <6> QED BY <1>0, <2>2, <6>1
        <5> QED BY <5>3, <5>4
      <4> QED BY <4>1, <4>2
    <3> QED BY <1>0, <2>2, <2>5, <3>3, <3>4
  <2>8. p \in Nat /\ p < version[o] /\ p1 = p + 1
    BY <1>0, <1>4, <2>2, <2>6, <2>7
  <2>9. \A q \in Orders \ {o} : ~About(outbox[i], q)
    BY <2>1 DEF About
  <2>10. \A q \in Orders \ {o} : Passed'[q] = Passed[q]
    BY <1>5, <2>9
  <2> QED BY <2>5, <2>8, <2>10 DEF p, p1
<1>8. CASE \A o \in Orders : ~About(outbox[i], o)
  BY <1>5, <1>8
<1> QED BY <1>6, <1>7, <1>8

LEMMA PromiseStep ==
  ASSUME FeedInv, FeedInv', [Next]_vars
  PROVE  [Promise!Next]_<<version, Passed>>
<1>0. Typed /\ Typed' /\ MaxVersion \in Nat
  BY OrderFeedAssumption DEF FeedInv
<1>1. Passed = [o \in Orders |-> Passed[o]] /\ Passed' = [o \in Orders |-> Passed'[o]]
  <2>1. (Passed = [o \in Orders |-> Passed[o]])'
    BY <1>0, PassedIsReached, PTL
  <2> QED BY <1>0, <2>1, PassedIsReached
<1>2. \A o \in Orders : version[o] \in Nat
  BY <1>0 DEF Typed
<1>3. ASSUME out' = out, \A i \in Rows : outbox'[i] = outbox[i],
             \A q \in Orders : version[q] <= version'[q]
      PROVE  Passed' = Passed
  <2>1. \A q \in Orders : Passed'[q] = Passed[q]
    BY <1>3, PassedStays
  <2> QED BY <1>1, <2>1
<1>4. ASSUME NEW o \in Orders, CommitOrder(o)
      PROVE  Promise!Next
  <2>1. \A i \in Rows : outbox'[i] = outbox[i]
    <3>1. version[o] + 1 \in 1 .. MaxVersion
      BY <1>0, <1>2, <1>4 DEF CommitOrder
    <3>2. OrderEvent(o, version[o] + 1) \in Events /\ outbox' = Append(outbox, OrderEvent(o, version[o] + 1))
      BY <1>4, <3>1, OrderEventIs DEF CommitOrder
    <3> QED BY <1>0, <3>2, RowAppended
  <2>2. \A q \in Orders : version[q] <= version'[q]
    BY <1>0, <1>2, <1>4 DEF CommitOrder, Typed
  <2>3. Passed' = Passed
    BY <1>3, <1>4, <2>1, <2>2 DEF CommitOrder, publisherVars
  <2>4. Promise!Commit(o)
    BY <1>4, <2>3 DEF CommitOrder, Promise!Commit
  <2> QED BY <2>4 DEF Promise!Next
<1>5. ASSUME NEW o \in Orders, CommitPayment(o)
      PROVE  UNCHANGED <<version, Passed>>
  <2>1. PaymentEvent(o) \in Events
    BY DEF Events
  <2>2. \A i \in Rows : outbox'[i] = outbox[i]
    BY <1>0, <1>5, <2>1, RowAppended DEF CommitPayment
  <2>3. out' = out /\ version' = version
    BY <1>5 DEF CommitPayment, publisherVars
  <2>4. \A q \in Orders : version[q] <= version'[q]
    BY <1>2, <2>3
  <2> QED BY <1>3, <2>2, <2>3, <2>4
<1>6. ASSUME NEW i \in batch, IsNext(i), out' = out \cup {i}, UNCHANGED storeVars
      PROVE  [Promise!Next]_<<version, Passed>>
  <2>1. version' = version /\ outbox' = outbox
    BY <1>6 DEF storeVars
  <2>2. CASE \A q \in Orders : Passed'[q] = Passed[q]
    BY <1>1, <2>1, <2>2
  <2>3. ASSUME NEW o \in Orders, Passed[o] < version[o], Passed'[o] = Passed[o] + 1,
               \A q \in Orders \ {o} : Passed'[q] = Passed[q]
        PROVE  Promise!Next
    <3>1. Passed' = [Passed EXCEPT ![o] = @ + 1]
      BY <1>1, <2>3
    <3>2. Promise!Send(o)
      BY <2>1, <2>3, <3>1 DEF Promise!Send
    <3> QED BY <3>2 DEF Promise!Next
  <2> QED BY <1>6, <2>1, <2>2, <2>3, BroadcastSends
<1>7. ASSUME UNCHANGED <<storeVars, out>>
      PROVE  UNCHANGED <<version, Passed>>
  BY <1>2, <1>3, <1>7 DEF storeVars
<1>8. CASE BroadcastNext
  BY <1>6, <1>8 DEF BroadcastNext
<1>9. CASE SelectBatch \/ MarkPublished \/ Hub \/ Faults \/ UNCHANGED vars
  <2>1. UNCHANGED <<storeVars, out>>
    BY <1>9 DEF SelectBatch, MarkPublished, Hub, Faults, Register, WriteNext, CutOff,
                BatchFails, ServerStops, Disconnect, vars, publisherVars
  <2> QED BY <1>7, <2>1
<1> QED BY <1>4, <1>5, <1>8, <1>9 DEF Next, Store, Publisher

(* The safety half of KeepsPromise: an order's events go out for the first *)
(* time in the order of its versions and only after they are committed,    *)
(* whatever the publisher's transactions, the hub and the server do.       *)
THEOREM FeedKeepsThePromise == Spec => Promise!Safety
<1>1. Init => Promise!Init
  <2> SUFFICES ASSUME Init PROVE Promise!Init
    OBVIOUS
  <2>1. Typed /\ \A o \in Orders : version[o] = 0
    BY FeedStart DEF FeedInv, Init
  <2>2. \A o \in Orders : Passed[o] = 0
    BY <2>1, PassedIsReached DEF Reached
  <2>3. Passed = [o \in Orders |-> 0]
    BY <2>1, <2>2, PassedIsReached
  <2> QED BY <2>3 DEF Init, Promise!Init
<1>2. FeedInv /\ FeedInv' /\ [Next]_vars => [Promise!Next]_<<version, Passed>>
  BY PromiseStep
<1> QED BY <1>1, <1>2, FeedIsSound, PTL DEF Spec, Promise!Safety

-----------------------------------------------------------------------------
(* The types, with the limits the code sets: a batch and a client's buffer *)
(* never hold more than they may.                                          *)

Limits ==
  /\ IsFiniteSet(batch) /\ Cardinality(batch) <= BatchSize
  /\ \A c \in Clients : Len(buffer[c]) <= BufferSize
  /\ faults \in 0 .. MaxFaults

LEMMA OldestFit ==
  ASSUME Typed
  PROVE  IsFiniteSet(Oldest) /\ Cardinality(Oldest) <= BatchSize
<1>1. Rows = 1 .. Len(outbox) /\ Len(outbox) \in Nat /\ IsFiniteSet(Rows)
  BY FS_Interval DEF Typed, Rows
<1>2. Oldest \in SUBSET Rows /\ Unpublished \in SUBSET Rows
  BY DEF Oldest, Unpublished
<1>3. IsFiniteSet(Oldest)
  BY <1>1, <1>2, FS_Subset
<1>4. CASE Oldest = {}
  BY <1>4, FS_EmptySet, OrderFeedAssumption
<1>5. CASE Oldest # {}
  <2>1. Oldest \in SUBSET (0 .. Len(outbox))
    BY <1>1, <1>2
  <2>2. PICK m \in Oldest : \A i \in Oldest : i <= m
    BY <1>1, <1>5, <2>1, HasGreatest
  <2> DEFINE Below == {j \in Unpublished : j < m}
  <2>3. Oldest \ {m} = Below
    <3>1. ASSUME NEW j \in Oldest \ {m} PROVE j \in Below
      <4>1. j \in Nat /\ m \in Nat /\ j <= m /\ j # m
        BY <1>1, <2>1, <2>2
      <4>2. j < m
        BY <4>1
      <4> QED BY <4>2 DEF Oldest
    <3>2. ASSUME NEW j \in Below PROVE j \in Oldest \ {m}
      <4>1. ~(m < j) /\ j # m
        BY <1>1, <1>2, <2>1
      <4> QED BY <2>2, <4>1, OldestComeFirst
    <3> QED BY <3>1, <3>2
  <2>4. Cardinality(Below) < BatchSize
    BY DEF Oldest
  <2>5. Cardinality(Oldest \ {m}) = Cardinality(Oldest) - 1 /\ Cardinality(Oldest) \in Nat
    BY <1>3, <2>2, FS_RemoveElement, FS_CardinalityType
  <2> QED BY <1>3, <2>3, <2>4, <2>5, OrderFeedAssumption
<1> QED BY <1>3, <1>4, <1>5

LEMMA LimitsStep == FeedInv /\ Limits /\ [Next]_vars => Limits'
<1> SUFFICES ASSUME FeedInv, Limits, [Next]_vars PROVE Limits'
  OBVIOUS
<1>0. Typed /\ BatchSize \in Nat /\ BufferSize \in Nat /\ MaxFaults \in Nat
  BY OrderFeedAssumption DEF FeedInv
<1>1. IsFiniteSet(batch') /\ Cardinality(batch') <= BatchSize
  <2>1. CASE batch' = batch
    BY <2>1 DEF Limits
  <2>2. CASE batch' = {}
    BY <1>0, <2>2, FS_EmptySet
  <2>3. CASE batch' = Oldest
    BY <1>0, <2>3, OldestFit
  <2>4. batch' = batch \/ batch' = {} \/ batch' = Oldest
    BY DEF Next, Store, Publisher, Hub, Faults, CommitOrder, CommitPayment, SelectBatch, Oldest,
           BroadcastNext, MarkPublished, BatchEnds, Register, WriteNext, CutOff, BatchFails,
           ServerStops, Disconnect, vars, publisherVars
  <2> QED BY <2>1, <2>2, <2>3, <2>4
<1>2. faults' \in 0 .. MaxFaults
  <2>1. faults' = faults \/ (faults < MaxFaults /\ faults' = faults + 1)
    BY DEF Next, Store, Publisher, Hub, Faults, CommitOrder, CommitPayment, SelectBatch,
           BroadcastNext, MarkPublished, Register, WriteNext, CutOff, BatchFails,
           ServerStops, Disconnect, Fault, vars
  <2> QED BY <1>0, <2>1 DEF Limits
<1>3. ASSUME NEW c \in Clients
      PROVE  Len(buffer'[c]) <= BufferSize
  <2>0. buffer \in [Clients -> Seq(Events)] /\ buffer[c] \in Seq(Events) /\ Len(buffer[c]) \in Nat
        /\ Len(buffer[c]) <= BufferSize
    BY <1>0 DEF Typed, Limits
  <2>1. CASE buffer'[c] = buffer[c]
    BY <2>0, <2>1
  <2>2. CASE buffer'[c] = << >>
    BY <1>0, <2>2
  <2>3. CASE buffer[c] # << >> /\ buffer'[c] = Tail(buffer[c])
    BY <1>0, <2>0, <2>3, TailIs
  <2>4. ASSUME NEW e \in Events, Broadcast(e)
        PROVE  Len(buffer'[c]) <= BufferSize
    <3>1. CASE c \in registered /\ HasRoom(c)
      <4>1. buffer'[c] = Append(buffer[c], e)
        BY <2>4, <3>1 DEF Broadcast
      <4> QED BY <1>0, <2>0, <3>1, <4>1, AppendIs DEF HasRoom
    <3>2. CASE ~(c \in registered /\ HasRoom(c))
      BY <2>1, <2>4, <3>2 DEF Broadcast
    <3> QED BY <3>1, <3>2
  <2>5. CASE Store \/ SelectBatch \/ MarkPublished \/ BatchFails \/ UNCHANGED vars
    BY <2>1, <2>5 DEF Store, CommitOrder, CommitPayment, SelectBatch, MarkPublished, BatchFails,
                      vars, hubVars
  <2>6. CASE BroadcastNext
    <3>1. PICK i \in batch : Broadcast(outbox[i])
      BY <2>6 DEF BroadcastNext
    <3>2. outbox[i] \in Events
      BY <1>0, <3>1, RowTypes DEF Typed, Unpublished
    <3> QED BY <2>4, <3>1, <3>2
  <2>7. ASSUME NEW d \in Clients, Register(d)
        PROVE  Len(buffer'[c]) <= BufferSize
    BY <2>1, <2>7 DEF Register
  <2>8. ASSUME NEW d \in Clients, WriteNext(d)
        PROVE  Len(buffer'[c]) <= BufferSize
    BY <2>0, <2>1, <2>3, <2>8 DEF WriteNext
  <2>9. ASSUME NEW d \in Clients, CutOff(d) \/ Disconnect(d)
        PROVE  Len(buffer'[c]) <= BufferSize
    BY <2>0, <2>1, <2>2, <2>9 DEF CutOff, Disconnect, Forget
  <2>10. CASE ServerStops
    BY <2>2, <2>10 DEF ServerStops
  <2> QED BY <2>5, <2>6, <2>7, <2>8, <2>9, <2>10 DEF Next, Publisher, Hub, Faults
<1> QED BY <1>1, <1>2, <1>3 DEF Limits

(* The feed's variables have their types; a batch has at most BatchSize    *)
(* rows and no more than BufferSize messages wait for a client.            *)
THEOREM FeedTypeCorrect == Spec => []TypeOK
<1>1. Init => Limits
  <2> SUFFICES ASSUME Init PROVE Limits
    OBVIOUS
  <2>1. batch = {} /\ faults = 0 /\ \A c \in Clients : buffer[c] = << >>
    BY DEF Init
  <2> QED BY <2>1, FS_EmptySet, NothingIsSmooth, OrderFeedAssumption DEF Limits
<1>2. FeedInv /\ Limits => TypeOK
  <2> SUFFICES ASSUME FeedInv, Limits PROVE TypeOK
    OBVIOUS
  <2>1. Typed
    BY DEF FeedInv
  <2> QED BY <2>1 DEF Typed, Limits, TypeOK
<1> QED BY <1>1, <1>2, LimitsStep, FeedIsSound, PTL DEF Spec

-----------------------------------------------------------------------------
(* The inductive invariant of the display.                                 *)

(* As long as the network did not go, a connection being made is the one   *)
(* the coordinator wants, and NeverStranded.                               *)
WayBack ==
  /\ started \in BOOLEAN /\ timer \in BOOLEAN /\ listening \in BOOLEAN
  /\ phase \in {"idle", "snapshot", "connecting"}
  /\ network \in BOOLEAN /\ current \in BOOLEAN /\ drops \in 0 .. MaxDrops
  /\ drops = 0 => network
  /\ phase = "connecting" /\ drops = 0 /\ started => current
  /\ NeverStranded

Uses == {"free", "connect", "gap", "refresh", "order"}
Request == [use : Uses, about : Seq(Events), answered : BOOLEAN, got : [Orders -> Shown]]
TapRecord == [state : {"sent", "done", "conflict", "queued"}, order : Orders, before : Shown]

Records ==
  /\ screen \in [Orders -> Shown] /\ seen \subseteq Events
  /\ read \in [Reads -> Request]
  /\ \A r \in Reads : read[r].about # << >> <=> read[r].use = "order"
  /\ tap = NoTap \/ tap \in TapRecord
  /\ taps \in 0 .. MaxTaps
  /\ mine \subseteq Orders \X (1 .. MaxVersion)

Committed(o, s) == s.version <= version[o] /\ (s.mine <=> <<o, s.version>> \in mine)

(* What an answer holds was committed.                                     *)
AnswersInv ==
  \A r \in Reads : read[r].answered => \A o \in Orders : Committed(o, read[r].got[o])

(* Of the tapped order the display shows what the tap asked for, or again  *)
(* something committed, as what it showed before the tap was; of the others*)
(* it shows what was committed.                                            *)
TapInv ==
  /\ \A o \in Orders : tap = NoTap \/ tap.order # o => Committed(o, screen[o])
  /\ tap # NoTap =>
       /\ Committed(tap.order, tap.before)
       /\ \/ Committed(tap.order, screen[tap.order])
          \/ screen[tap.order].version = tap.before.version + 1 /\ screen[tap.order].mine
       /\ tap.state = "done" => <<tap.order, tap.before.version + 1>> \in mine

ScreenInv ==
  /\ \A o \in Orders : \A v \in Nat : <<o, v>> \in mine => v <= version[o]
  /\ AnswersInv /\ TapInv

DisplayInv == FeedInv /\ Records /\ ScreenInv

(* The display is one of the feed's clients.                               *)
LEMMA DisplayMovesFeed == Records /\ DisplayNext => FeedMoves
<1> SUFFICES ASSUME Records, DisplayNext PROVE FeedMoves
  OBVIOUS
<1>0. Display \in Clients
  BY QueueDisplayAssumption
<1>1. CASE Elsewhere
  BY <1>0, <1>1 DEF Elsewhere, FeedMoves, Next, Hub
<1>2. CASE Handles
  <2>1. ASSUME WriteNext(Display) PROVE FeedMoves
    BY <1>0, <2>1 DEF FeedMoves, Next, Hub
  <2>2. ASSUME NEW e \in Events, StopsAtEvent(e) PROVE FeedMoves
    BY <1>0, <2>2 DEF FeedMoves, StopsAtEvent
  <2> QED BY <1>2, <2>1, <2>2 DEF Handles, IgnoresEvent, AppliesEvent, AsksAboutEvent
<1>3. ASSUME UNCHANGED <<storeVars, publisherVars, hubVars>> PROVE FeedMoves
  BY <1>3 DEF FeedMoves
<1>4. CASE Answers
  <2>1. ASSUME NEW r \in Reads, SnapshotArrives(r) PROVE FeedMoves
    <3>1. Forget(Display) \/ UNCHANGED hubVars
      BY <2>1 DEF SnapshotArrives
    <3> QED BY <1>0, <2>1, <3>1 DEF SnapshotArrives, FeedMoves
  <2>2. ASSUME NEW r \in Reads, ServerReads(r) \/ OrderArrives(r) PROVE FeedMoves
    BY <1>3, <2>2 DEF ServerReads, OrderArrives, vars
  <2> QED BY <1>4, <2>1, <2>2 DEF Answers
<1>5. CASE Changes
  <2>1. CASE ServerTransitions
    <3>1. CASE UNCHANGED vars
      BY <1>3, <3>1 DEF vars
    <3>2. CASE tap.state = "sent" /\ CommitOrder(tap.order)
      <4>1. tap \in TapRecord
        BY <3>2 DEF Records, NoTap
      <4>2. tap.order \in Orders
        BY <4>1 DEF TapRecord
      <4> QED BY <3>2, <4>2 DEF FeedMoves, Next, Store
    <3> QED BY <2>1, <3>1, <3>2 DEF ServerTransitions
  <2>2. CASE TransitionDone \/ TransitionRefused \/ TransitionUnanswered
             \/ \E o \in Orders : Taps(o)
    BY <1>3, <2>2 DEF TransitionDone, TransitionRefused, TransitionUnanswered, Taps, vars
  <2> QED BY <1>5, <2>1, <2>2 DEF Changes
<1>6. CASE Connects
  BY <1>0, <1>6 DEF Connects, FeedMoves, Next, Hub, vars
<1>7. CASE NetworkGoes
  BY <1>0, <1>7 DEF NetworkGoes, FeedMoves
<1>8. CASE Refresh \/ TimerFires \/ NoticesDisconnect \/ NetworkReturns
  BY <1>3, <1>8 DEF Refresh, TimerFires, NoticesDisconnect, NetworkReturns, vars
<1>9. CASE ConnectFails \/ \E r \in Reads : ReadFails(r)
  BY <1>3, <1>9 DEF ConnectFails, ReadFails
<1> QED BY <1>1, <1>2, <1>4, <1>5, <1>6, <1>7, <1>8, <1>9 DEF DisplayNext

-----------------------------------------------------------------------------
(* The display never loses its way back.                                   *)

LEMMA WayBackStart == DisplayInit => WayBack
<1> SUFFICES ASSUME DisplayInit PROVE WayBack
  OBVIOUS
<1>1. drops \in 0 .. MaxDrops /\ network = TRUE /\ phase = "idle" /\ timer = TRUE
  BY QueueDisplayAssumption DEF DisplayInit
<1>2. started = TRUE /\ listening = FALSE /\ current = FALSE
  BY DEF DisplayInit
<1> QED BY <1>1, <1>2 DEF WayBack, NeverStranded

LEMMA WayBackStep == WayBack /\ [DisplayNext]_allVars => WayBack'
<1> SUFFICES ASSUME WayBack, [DisplayNext]_allVars PROVE WayBack'
  OBVIOUS
<1> USE DEF WayBack, NeverStranded, CanRecover
<1>1. CASE UNCHANGED connectionVars
  BY <1>1 DEF connectionVars, networkVars
<1>2. CASE Elsewhere \/ Changes \/ UNCHANGED allVars
  BY <1>1, <1>2 DEF Elsewhere, Changes, Taps, ServerTransitions, TransitionDone, TransitionRefused,
                    TransitionUnanswered, allVars, displayVars
<1>3. CASE Handles
  <2>1. ASSUME NEW e \in Events, StopsAtEvent(e) PROVE WayBack'
    BY <2>1 DEF StopsAtEvent
  <2> QED BY <1>1, <1>3, <2>1 DEF Handles, IgnoresEvent, AppliesEvent, AsksAboutEvent
<1>4. CASE Answers
  <2>1. ASSUME NEW r \in Reads, SnapshotArrives(r) PROVE WayBack'
    <3>1. UNCHANGED <<started, timer, network, drops>>
      BY <2>1 DEF SnapshotArrives
    <3>2. CASE phase' = "connecting" /\ current' = TRUE /\ listening' = FALSE
      BY <3>1, <3>2
    <3>3. CASE phase' = "idle" /\ ~CanRecover /\ UNCHANGED <<current, listening>>
      BY <3>1, <3>3
    <3>4. CASE UNCHANGED <<phase, current, listening>>
      BY <3>1, <3>4
    <3> QED BY <2>1, <3>2, <3>3, <3>4 DEF SnapshotArrives
  <2> QED BY <1>1, <1>4, <2>1 DEF Answers, ServerReads, OrderArrives
<1>5. CASE Refresh
  BY <1>1, <1>5 DEF Refresh
<1>6. CASE TimerFires
  BY <1>6 DEF TimerFires, Recover, networkVars
<1>7. CASE Connects
  <2>1. UNCHANGED <<started, timer, network, current, drops>> /\ phase = "connecting" /\ phase' = "idle"
    BY <1>7 DEF Connects, networkVars
  <2>2. CASE CanRecover /\ current
    BY <1>7, <2>1, <2>2 DEF Connects
  <2>3. CASE ~(CanRecover /\ current)
    BY <1>7, <2>1, <2>3 DEF Connects
  <2> QED BY <2>2, <2>3
<1>8. ASSUME ScheduleReconnect
      PROVE  timer' \in BOOLEAN /\ (CanRecover => timer') /\ (timer => timer')
  BY <1>8 DEF ScheduleReconnect
<1>9. CASE ConnectFails
  BY <1>8, <1>9 DEF ConnectFails, networkVars
<1>10. CASE NoticesDisconnect
  BY <1>8, <1>10 DEF NoticesDisconnect, networkVars
<1>11. ASSUME NEW r \in Reads, ReadFails(r)
       PROVE  WayBack'
  <2>1. UNCHANGED <<started, listening, network, current, drops>>
    BY <1>11 DEF ReadFails, networkVars
  <2>2. CASE read[r].use = "refresh"
    BY <1>11, <2>1, <2>2 DEF ReadFails
  <2>3. CASE read[r].use # "refresh"
    BY <1>8, <1>11, <2>1, <2>3 DEF ReadFails
  <2> QED BY <2>2, <2>3
<1>12. CASE NetworkGoes
  <2>1. drops' \in 0 .. MaxDrops /\ drops' # 0
    BY <1>12, QueueDisplayAssumption DEF NetworkGoes
  <2>2. /\ network' = FALSE /\ timer' = FALSE /\ listening' = FALSE /\ current' = FALSE
        /\ UNCHANGED <<started, phase>>
    BY <1>12 DEF NetworkGoes
  <2> QED BY <2>1, <2>2
<1>13. CASE NetworkReturns
  BY <1>13 DEF NetworkReturns
<1> QED BY <1>2, <1>3, <1>4, <1>5, <1>6, <1>7, <1>9, <1>10, <1>11, <1>12, <1>13 DEF DisplayNext

(* As long as its network did not go, the display listens, recovers or     *)
(* waits for the timer that makes it recover, whatever fails meanwhile.    *)
THEOREM AlwaysAWayBack == DisplaySpec => []NeverStranded
<1>1. WayBack => NeverStranded
  BY DEF WayBack
<1> QED BY <1>1, WayBackStart, WayBackStep, PTL DEF DisplaySpec

-----------------------------------------------------------------------------
(* The records of the display, and what its steps make of them.            *)

LEMMA AskingIs ==
  /\ Unread \in [Orders -> Shown]
  /\ \A o \in Orders : Unread[o].version = 0 /\ Unread[o].mine = FALSE
  /\ \A use \in Uses : \A about \in Seq(Events) :
       /\ Asking(use, about) \in Request
       /\ Asking(use, about).use = use /\ Asking(use, about).about = about
       /\ Asking(use, about).answered = FALSE
<1>1. NotShown \in Shown /\ NotShown.version = 0 /\ NotShown.mine = FALSE
  BY OrderFeedAssumption DEF NotShown, Shown
<1>2. Unread \in [Orders -> Shown]
  BY <1>1 DEF Unread
<1> QED BY <1>1, <1>2 DEF Unread, Asking, Request

LEMMA FreeIs ==
  Free \in Request /\ Free.use = "free" /\ Free.about = << >> /\ Free.answered = FALSE
<1>1. << >> \in Seq(Events) /\ "free" \in Uses
  BY DEF Uses
<1> QED BY <1>1, AskingIs DEF Free

LEMMA RecordsStart == DisplayInit => Records
<1> SUFFICES ASSUME DisplayInit PROVE Records
  OBVIOUS
<1>1. read = [r \in Reads |-> Free] /\ \A r \in Reads : read[r] = Free
  BY DEF DisplayInit
<1>2. read \in [Reads -> Request] /\ \A r \in Reads : read[r].about # << >> <=> read[r].use = "order"
  BY <1>1, FreeIs
<1>3. taps \in 0 .. MaxTaps
  BY QueueDisplayAssumption DEF DisplayInit
<1> QED BY <1>2, <1>3, AskingIs DEF DisplayInit, Records

(* The requests after a step: each is what it was, free, asked anew or just*)
(* answered with what is committed.                                        *)
AnsweredNow(r) ==
  /\ read[r].use # "free" /\ ~read[r].answered
  /\ read'[r].use = read[r].use /\ read'[r].about = read[r].about
  /\ read'[r].got = [o \in Orders |->
                       [version |-> version[o], mine |-> <<o, version[o]>> \in mine]]

RequestsMove ==
  /\ read' \in [Reads -> Request]
  /\ \A r \in Reads : read'[r].about # << >> <=> read'[r].use = "order"
  /\ \A r \in Reads : read'[r] = read[r] \/ ~read'[r].answered \/ AnsweredNow(r)

LEMMA AskMoves ==
  ASSUME Records, NEW use \in Uses, NEW about \in Seq(Events),
         about # << >> <=> use = "order", Ask(use, about)
  PROVE  RequestsMove
<1> DEFINE new == Asking(use, about)
<1>1. new \in Request /\ new.use = use /\ new.about = about /\ ~new.answered
  BY AskingIs
<1> HIDE DEF new
<1>2. PICK r \in Reads : read' = [read EXCEPT ![r] = new]
  BY DEF Ask, new
<1>3. read' \in [Reads -> Request] /\ read'[r] = new /\ \A s \in Reads : s # r => read'[s] = read[s]
  BY <1>1, <1>2 DEF Records
<1> QED BY <1>1, <1>3 DEF Records, RequestsMove

LEMMA ReleaseMoves ==
  ASSUME Records, NEW r \in Reads, read' = [read EXCEPT ![r] = Free]
  PROVE  RequestsMove
<1>1. read' \in [Reads -> Request] /\ read'[r] = Free /\ \A s \in Reads : s # r => read'[s] = read[s]
  BY FreeIs DEF Records
<1> QED BY <1>1, FreeIs DEF Records, RequestsMove

LEMMA ServerReadsMoves ==
  ASSUME Records, FeedInv, NEW r \in Reads, ServerReads(r)
  PROVE  RequestsMove
<1> DEFINE got == [o \in Orders |->
                     [version |-> version[o], mine |-> <<o, version[o]>> \in mine]]
<1>1. got \in [Orders -> Shown]
  BY DEF Shown, FeedInv, Typed
<1> HIDE DEF got
<1>y. PICK yes \in BOOLEAN : yes = TRUE
  OBVIOUS
<1>2. read' = [read EXCEPT ![r].answered = yes, ![r].got = got]
  BY <1>y DEF ServerReads, got
<1>3. /\ read' \in [Reads -> Request]
      /\ \A s \in Reads : s # r => read'[s] = read[s]
      /\ read'[r].use = read[r].use /\ read'[r].about = read[r].about
      /\ read'[r].answered = TRUE /\ read'[r].got = got
  BY <1>1, <1>y, <1>2 DEF Records, Request
<1>4. AnsweredNow(r)
  BY <1>3 DEF ServerReads, AnsweredNow, got
<1> QED BY <1>3, <1>4 DEF Records, RequestsMove

LEMMA RequestsStep ==
  ASSUME Records, FeedInv, [DisplayNext]_allVars
  PROVE  RequestsMove
<1>1. CASE UNCHANGED read
  BY <1>1 DEF Records, RequestsMove
<1>2. << >> \in Seq(Events) /\ \A e \in Events : <<e>> \in Seq(Events) /\ <<e>> # << >>
  OBVIOUS
<1>3. ASSUME NEW use \in {"connect", "gap", "refresh"}, Ask(use, << >>) PROVE RequestsMove
  BY <1>2, <1>3, AskMoves DEF Uses
<1>4. ASSUME NEW e \in Events, AsksAboutEvent(e) PROVE RequestsMove
  <2>1. Ask("order", <<e>>) \/ Ask("gap", << >>)
    BY <1>4 DEF AsksAboutEvent
  <2>2. ASSUME Ask("order", <<e>>) PROVE RequestsMove
    BY <1>2, <2>2, AskMoves DEF Uses
  <2> QED BY <1>3, <2>1, <2>2
<1>5. ASSUME NEW r \in Reads, SnapshotArrives(r) \/ OrderArrives(r) \/ ReadFails(r)
      PROVE  RequestsMove
  BY <1>5, ReleaseMoves DEF SnapshotArrives, OrderArrives, ReadFails
<1>6. CASE Handles
  BY <1>1, <1>4, <1>6 DEF Handles, IgnoresEvent, AppliesEvent, StopsAtEvent
<1>7. CASE Answers
  BY <1>5, <1>7, ServerReadsMoves DEF Answers
<1>8. CASE Refresh
  BY <1>3, <1>8 DEF Refresh
<1>9. CASE TimerFires
  BY <1>1, <1>3, <1>9 DEF TimerFires, Recover
<1>10. CASE NetworkReturns
  BY <1>1, <1>3, <1>10 DEF NetworkReturns
<1>11. CASE Elsewhere \/ Changes \/ UNCHANGED allVars
  BY <1>1, <1>11 DEF Elsewhere, Changes, Taps, ServerTransitions, TransitionDone,
                     TransitionRefused, TransitionUnanswered, allVars, displayVars
<1>12. CASE Connects \/ NoticesDisconnect \/ ConnectFails \/ NetworkGoes
  BY <1>1, <1>12 DEF Connects, NoticesDisconnect, ConnectFails, NetworkGoes
<1> QED BY <1>5, <1>6, <1>7, <1>8, <1>9, <1>10, <1>11, <1>12 DEF DisplayNext

-----------------------------------------------------------------------------
(* What was committed stays so.                                            *)

Grows ==
  /\ \A o \in Orders : version[o] <= version'[o] /\ version[o] \in Nat /\ version'[o] \in Nat
  /\ mine \subseteq mine' /\ mine' \subseteq Orders \X (1 .. MaxVersion)
  /\ \A o \in Orders : \A v \in Nat :
       <<o, v>> \in mine' /\ <<o, v>> \notin mine => version[o] < v /\ v <= version'[o]

CommittedThen(o, s) == s.version <= version'[o] /\ (s.mine <=> <<o, s.version>> \in mine')

LEMMA CommittedStays ==
  ASSUME Grows, NEW o \in Orders, NEW s \in Shown, Committed(o, s)
  PROVE  CommittedThen(o, s)
<1>1. s.version \in Nat
  BY OrderFeedAssumption DEF Shown
<1>2. s.version <= version'[o]
  BY <1>1 DEF Grows, Committed
<1>3. <<o, s.version>> \in mine' => <<o, s.version>> \in mine
  <2> SUFFICES ASSUME <<o, s.version>> \in mine', <<o, s.version>> \notin mine PROVE FALSE
    OBVIOUS
  <2>1. version[o] < s.version
    BY <1>1 DEF Grows
  <2> QED BY <1>1, <2>1 DEF Grows, Committed
<1>4. <<o, s.version>> \in mine => <<o, s.version>> \in mine'
  BY DEF Grows
<1>5. s.mine <=> <<o, s.version>> \in mine
  BY DEF Committed
<1> QED BY <1>2, <1>3, <1>4, <1>5 DEF CommittedThen

LEMMA TapOrder ==
  ASSUME Records, tap # NoTap \/ tap.state \in {"sent", "done", "conflict", "queued"}
  PROVE  tap # NoTap /\ tap \in TapRecord /\ tap.order \in Orders /\ tap.before \in Shown
         /\ tap.before.version \in Nat
<1>1. tap \in TapRecord
  BY DEF Records, NoTap
<1>2. tap.order \in Orders /\ tap.before \in Shown /\ tap.state \in {"sent", "done", "conflict", "queued"}
  BY <1>1 DEF TapRecord
<1>3. tap # NoTap
  BY <1>2 DEF NoTap
<1>4. tap.before.version \in Nat
  BY <1>2, OrderFeedAssumption DEF Shown
<1> QED BY <1>1, <1>2, <1>3, <1>4

LEMMA CommitEffect ==
  ASSUME FeedInv, NEW o \in Orders, CommitOrder(o)
  PROVE  /\ version[o] + 1 \in 1 .. MaxVersion
         /\ version'[o] = version[o] + 1
         /\ \A q \in Orders : q # o => version'[q] = version[q]
         /\ \A q \in Orders : version[q] \in Nat /\ version'[q] \in Nat /\ version[q] <= version'[q]
<1>1. version \in [Orders -> 0 .. MaxVersion] /\ MaxVersion \in Nat
  BY OrderFeedAssumption DEF FeedInv, Typed
<1> QED BY <1>1 DEF CommitOrder

LEMMA VersionsGrow ==
  ASSUME FeedInv, FeedMoves
  PROVE  \A o \in Orders : version[o] \in Nat /\ version'[o] \in Nat /\ version[o] <= version'[o]
<1>1. \A o \in Orders : version[o] \in Nat
  BY OrderFeedAssumption DEF FeedInv, Typed
<1>2. CASE version' = version
  BY <1>1, <1>2
<1>3. CASE Store
  BY <1>2, <1>3, CommitEffect DEF Store, CommitPayment
<1>4. CASE Publisher \/ Hub \/ Faults
  BY <1>2, <1>4 DEF Publisher, SelectBatch, BroadcastNext, MarkPublished, Hub, Register, WriteNext,
                    CutOff, Faults, BatchFails, ServerStops, Disconnect, storeVars
<1> QED BY <1>2, <1>3, <1>4 DEF FeedMoves, Next, storeVars

LEMMA TransitionMine ==
  ASSUME FeedInv, Records, ServerTransitions
  PROVE  \/ UNCHANGED mine
         \/ /\ CommitOrder(tap.order)
            /\ mine' = mine \cup {<<tap.order, version[tap.order] + 1>>}
BY DEF ServerTransitions

LEMMA GrowsStep ==
  ASSUME FeedInv, Records, ScreenInv, [DisplayNext]_allVars
  PROVE  Grows
<1>1. \A o \in Orders : version[o] \in Nat /\ version'[o] \in Nat /\ version[o] <= version'[o]
  <2>1. CASE UNCHANGED allVars
    BY <2>1, VersionsGrow DEF FeedMoves, allVars, vars
  <2> QED BY <2>1, DisplayMovesFeed, VersionsGrow
<1>2. CASE mine' = mine
  BY <1>1, <1>2 DEF Grows, Records
<1>3. CASE ServerTransitions
  <2>1. CASE /\ CommitOrder(tap.order)
             /\ mine' = mine \cup {<<tap.order, version[tap.order] + 1>>}
    <3>1. tap.order \in Orders
      BY <1>3, TapOrder DEF ServerTransitions
    <3>2. version[tap.order] + 1 \in 1 .. MaxVersion /\ version'[tap.order] = version[tap.order] + 1
      BY <2>1, <3>1, CommitEffect
    <3>3. mine' \subseteq Orders \X (1 .. MaxVersion) /\ mine \subseteq mine'
      BY <2>1, <3>1, <3>2 DEF Records
    <3>4. ASSUME NEW o \in Orders, NEW v \in Nat, <<o, v>> \in mine', <<o, v>> \notin mine
          PROVE  version[o] < v /\ v <= version'[o]
      <4>1. o = tap.order /\ v = version[tap.order] + 1
        BY <2>1, <3>4
      <4> QED BY <1>1, <3>2, <4>1
    <3> QED BY <1>1, <3>3, <3>4 DEF Grows
  <2> QED BY <1>2, <1>3, <2>1, TransitionMine
<1>4. CASE Handles
  BY <1>2, <1>4 DEF Handles, IgnoresEvent, AppliesEvent, AsksAboutEvent, StopsAtEvent, Receives, tapVars
<1>5. CASE Answers \/ Refresh \/ TimerFires \/ Connects \/ NoticesDisconnect
  BY <1>2, <1>5 DEF Answers, ServerReads, SnapshotArrives, OrderArrives, Refresh, TimerFires, Connects,
                    NoticesDisconnect, tapVars
<1>6. CASE ConnectFails \/ (\E r \in Reads : ReadFails(r)) \/ NetworkGoes \/ NetworkReturns
           \/ Elsewhere \/ UNCHANGED allVars
  BY <1>2, <1>6 DEF ConnectFails, ReadFails, NetworkGoes, NetworkReturns, Elsewhere, allVars,
                    displayVars, tapVars
<1>7. CASE TransitionDone \/ TransitionRefused \/ TransitionUnanswered \/ \E o \in Orders : Taps(o)
  BY <1>2, <1>7 DEF TransitionDone, TransitionRefused, TransitionUnanswered, Taps
<1> QED BY <1>3, <1>4, <1>5, <1>6, <1>7 DEF DisplayNext, Changes

LEMMA AnswersStay ==
  ASSUME Records, ScreenInv, Grows, RequestsMove
  PROVE  AnswersInv'
<1> SUFFICES ASSUME NEW r \in Reads, read'[r].answered, NEW o \in Orders
             PROVE  CommittedThen(o, read'[r].got[o])
  BY DEF AnswersInv, Committed, CommittedThen
<1>1. read'[r].got[o] \in Shown /\ read[r].got[o] \in Shown
  BY DEF RequestsMove, Records, Request
<1>2. Committed(o, read'[r].got[o])
  <2>1. CASE read'[r] = read[r]
    BY <2>1 DEF ScreenInv, AnswersInv
  <2>2. CASE AnsweredNow(r)
    <3>1. read'[r].got[o] = [version |-> version[o], mine |-> <<o, version[o]>> \in mine]
      BY <2>2 DEF AnsweredNow
    <3>2. version[o] <= version[o]
      BY DEF Grows
    <3>3. PICK s : s = read'[r].got[o]
      OBVIOUS
    <3>4. s = [version |-> version[o], mine |-> <<o, version[o]>> \in mine]
      BY <3>1, <3>3
    <3>5. s.version = version[o] /\ (s.mine <=> <<o, version[o]>> \in mine)
      BY <3>4
    <3>6. Committed(o, s)
      BY <3>2, <3>5 DEF Committed
    <3> QED BY <3>3, <3>6
  <2> QED BY <2>1, <2>2 DEF RequestsMove
<1> QED BY <1>1, <1>2, CommittedStays

-----------------------------------------------------------------------------
(* Every step keeps what the display shows committed.                      *)

ScreenMoves ==
  /\ screen' \in [Orders -> Shown] /\ seen' \subseteq Events
  /\ \A o \in Orders : screen'[o] = screen[o] \/ Committed(o, screen'[o])

LEMMA UpsertMoves ==
  ASSUME Records, NEW o \in Orders, NEW s \in Shown, NEW about \in Seq(Events), Upsert(o, s, about)
  PROVE  /\ screen' \in [Orders -> Shown] /\ seen' \subseteq Events
         /\ \A q \in Orders : q # o => screen'[q] = screen[q]
         /\ screen'[o] = screen[o] \/ screen'[o] = s
         /\ about = << >> /\ ~(s.version < screen[o].version) => screen'[o] = s
<1>1. Range(about) \subseteq Events
  BY DEF Range
<1>2. seen' \subseteq Events
  BY <1>1 DEF Upsert, Records
<1>3. CASE screen' = screen /\ about # << >>
  BY <1>2, <1>3 DEF Records
<1>4. CASE screen' = [screen EXCEPT ![o] = IF s.version < @.version THEN @ ELSE s]
  BY <1>2, <1>4 DEF Records
<1> QED BY <1>3, <1>4 DEF Upsert

LEMMA TapKept ==
  ASSUME Records, ScreenInv, Grows, ScreenMoves, tap' = tap
  PROVE  TapInv'
<1>1. \A o \in Orders : screen[o] \in Shown /\ screen'[o] \in Shown
  BY DEF Records, ScreenMoves
<1>2. ASSUME NEW o \in Orders, tap = NoTap \/ tap.order # o
      PROVE  CommittedThen(o, screen'[o])
  <2>1. Committed(o, screen'[o])
    BY <1>2 DEF ScreenMoves, ScreenInv, TapInv
  <2> QED BY <1>1, <2>1, CommittedStays
<1>3. ASSUME tap # NoTap
      PROVE  /\ CommittedThen(tap.order, tap.before)
             /\ \/ CommittedThen(tap.order, screen'[tap.order])
                \/ screen'[tap.order].version = tap.before.version + 1 /\ screen'[tap.order].mine
             /\ tap.state = "done" => <<tap.order, tap.before.version + 1>> \in mine'
  <2>1. tap.order \in Orders /\ tap.before \in Shown
    BY <1>3, TapOrder
  <2>2. CommittedThen(tap.order, tap.before)
    BY <1>3, <2>1, CommittedStays DEF ScreenInv, TapInv
  <2>3. tap.state = "done" => <<tap.order, tap.before.version + 1>> \in mine'
    BY <1>3 DEF ScreenInv, TapInv, Grows
  <2>4. CASE Committed(tap.order, screen'[tap.order])
    BY <1>1, <2>1, <2>2, <2>3, <2>4, CommittedStays
  <2>5. CASE screen'[tap.order] = screen[tap.order] /\ ~Committed(tap.order, screen'[tap.order])
    BY <1>3, <2>2, <2>3, <2>5 DEF ScreenInv, TapInv
  <2> QED BY <2>1, <2>4, <2>5 DEF ScreenMoves
<1> QED BY <1>2, <1>3 DEF TapInv, Committed, CommittedThen

LEMMA SnapshotMoves ==
  ASSUME Records, ScreenInv, NEW r \in Reads, SnapshotArrives(r)
  PROVE  ScreenMoves
<1>1. read[r].got \in [Orders -> Shown] /\ \A o \in Orders : Committed(o, read[r].got[o])
  BY DEF SnapshotArrives, Records, Request, ScreenInv, AnswersInv
<1>2. (screen' = read[r].got \/ screen' = screen) /\ seen' = seen
  BY DEF SnapshotArrives
<1> QED BY <1>1, <1>2 DEF Records, ScreenMoves

LEMMA OrderArrivesMoves ==
  ASSUME Records, ScreenInv, NEW r \in Reads, OrderArrives(r)
  PROVE  ScreenMoves
<1> DEFINE o == read[r].about[1].order
<1>1. read[r].about \in Seq(Events) /\ read[r].about # << >> /\ read[r].answered
      /\ read[r].got \in [Orders -> Shown]
  BY DEF OrderArrives, Records, Request
<1>2. read[r].about[1] \in Events
  BY <1>1
<1>3. o \in Orders
  BY <1>2, EventForms
<1>4. read[r].got[o] \in Shown /\ Committed(o, read[r].got[o])
  BY <1>1, <1>3 DEF ScreenInv, AnswersInv
<1>5. Upsert(o, read[r].got[o], read[r].about)
  BY DEF OrderArrives
<1> HIDE DEF o
<1> QED BY <1>1, <1>3, <1>4, <1>5, UpsertMoves DEF ScreenMoves

LEMMA AppliesMoves ==
  ASSUME FeedInv, Records, NEW e \in Events, AppliesEvent(e)
  PROVE  ScreenMoves
<1>1. e.order \in Orders /\ e.version \in 1 .. MaxVersion /\ About(e, e.order)
  BY EventForms DEF AppliesEvent, About
<1>2. e.version <= version[e.order]
  <2>1. Display \in Clients /\ buffer[Display] \in Seq(Events) /\ buffer[Display] # << >>
    BY QueueDisplayAssumption DEF AppliesEvent, Receives, FeedInv, Typed
  <2>2. 1 \in 1 .. Len(buffer[Display]) /\ buffer[Display][1] = e
    BY <2>1 DEF AppliesEvent, Receives
  <2> QED BY <1>1, <2>1, <2>2 DEF FeedInv, BufferInv
<1>3. PICK s : s = [version |-> e.version, mine |-> <<e.order, e.version>> \in mine]
  OBVIOUS
<1>4. s.version = e.version /\ (s.mine <=> <<e.order, e.version>> \in mine)
  BY <1>3
<1>5. s \in Shown
  BY <1>1, <1>3 DEF Shown
<1>6. Committed(e.order, s)
  BY <1>2, <1>4 DEF Committed
<1>7. Upsert(e.order, s, <<e>>) /\ <<e>> \in Seq(Events)
  BY <1>3 DEF AppliesEvent
<1> QED BY <1>1, <1>5, <1>6, <1>7, UpsertMoves DEF ScreenMoves

(* A tap: the display shows what it asks for, over what was committed.     *)
LEMMA TapsKeeps ==
  ASSUME FeedInv, Records, ScreenInv, Grows, NEW o \in Orders, Taps(o)
  PROVE  /\ TapInv' /\ tap' \in TapRecord /\ taps' \in 0 .. MaxTaps
         /\ screen' \in [Orders -> Shown] /\ seen' \subseteq Events
<1> DEFINE before == screen[o]
           optimistic == [version |-> before.version + 1, mine |-> TRUE]
<1>1. before \in Shown /\ before.version \in 1 .. MaxVersion - 1 /\ MaxVersion \in Nat /\ tap = NoTap
  BY OrderFeedAssumption DEF Taps, Records
<1>2. optimistic \in Shown /\ optimistic.version = before.version + 1 /\ optimistic.mine = TRUE
  BY <1>1 DEF Shown
<1>3. screen' \in [Orders -> Shown] /\ screen'[o] = optimistic
      /\ \A q \in Orders : q # o => screen'[q] = screen[q]
  BY <1>2 DEF Taps, Records
<1>4. tap' = [state |-> "sent", order |-> o, before |-> before]
  BY DEF Taps
<1> HIDE DEF before, optimistic
<1>5. /\ tap' \in TapRecord /\ tap'.order = o /\ tap'.before = before /\ tap'.state = "sent"
      /\ tap' # NoTap
  BY <1>1, <1>4 DEF TapRecord, NoTap
<1>6. taps' \in 0 .. MaxTaps
  BY QueueDisplayAssumption DEF Taps, Records
<1>7. \A q \in Orders : screen[q] \in Shown /\ Committed(q, screen[q])
  BY <1>1 DEF Records, ScreenInv, TapInv
<1>8. \A q \in Orders : CommittedThen(q, screen[q])
  BY <1>7, CommittedStays
<1>9. CommittedThen(o, before)
  BY <1>8 DEF before
<1>10. TapInv'
  BY <1>2, <1>3, <1>5, <1>8, <1>9 DEF TapInv, Committed, CommittedThen
<1> QED BY <1>3, <1>5, <1>6, <1>10 DEF Taps, Records

LEMMA TapUpdated ==
  ASSUME NEW p \in TapRecord, NEW state \in {"sent", "done", "conflict", "queued"}
  PROVE  LET new == [p EXCEPT !.state = state]
         IN  new \in TapRecord /\ new.state = state /\ new.order = p.order /\ new.before = p.before
BY DEF TapRecord

(* A tap that goes on: what is shown stays; done is what was committed.    *)
LEMMA TapAdvances ==
  ASSUME Records, ScreenInv, Grows, tap \in TapRecord, screen' = screen,
         NEW state \in {"sent", "done", "conflict", "queued"},
         tap' = [tap EXCEPT !.state = state],
         state = "done" => <<tap.order, tap.before.version + 1>> \in mine'
  PROVE  TapInv' /\ tap' \in TapRecord
<1>1. tap # NoTap /\ tap.order \in Orders /\ tap.before \in Shown
  <2>1. tap.state \in {"sent", "done", "conflict", "queued"}
    BY DEF TapRecord
  <2> QED BY <2>1, TapOrder
<1>2. tap' \in TapRecord /\ tap'.state = state /\ tap'.order = tap.order /\ tap'.before = tap.before
  BY TapUpdated
<1>3. tap' # NoTap
  BY <1>2 DEF NoTap
<1>4. \A o \in Orders : screen[o] \in Shown
  BY DEF Records
<1>5. \A o \in Orders : tap.order # o => CommittedThen(o, screen[o])
  BY <1>4, CommittedStays DEF ScreenInv, TapInv
<1>6. CommittedThen(tap.order, tap.before)
  BY <1>1, CommittedStays DEF ScreenInv, TapInv
<1>7. \/ CommittedThen(tap.order, screen[tap.order])
      \/ screen[tap.order].version = tap.before.version + 1 /\ screen[tap.order].mine
  BY <1>1, <1>4, CommittedStays DEF ScreenInv, TapInv
<1> QED BY <1>2, <1>3, <1>5, <1>6, <1>7 DEF TapInv, Committed, CommittedThen

LEMMA ServerTransitionsKeeps ==
  ASSUME FeedInv, Records, ScreenInv, Grows, ServerTransitions
  PROVE  TapInv' /\ tap' \in TapRecord
<1>1. tap \in TapRecord /\ screen' = screen
  BY TapOrder DEF ServerTransitions
<1>2. CASE version[tap.order] = tap.before.version
  <2>1. tap' = [tap EXCEPT !.state = "done"] /\ <<tap.order, tap.before.version + 1>> \in mine'
    BY <1>2 DEF ServerTransitions
  <2> QED BY <1>1, <2>1, TapAdvances
<1>3. CASE version[tap.order] # tap.before.version
  <2>1. tap' = [tap EXCEPT !.state = "conflict"]
    BY <1>3 DEF ServerTransitions
  <2> QED BY <1>1, <2>1, TapAdvances
<1> QED BY <1>2, <1>3

LEMMA UnansweredKeeps ==
  ASSUME Records, ScreenInv, Grows, TransitionUnanswered
  PROVE  TapInv' /\ tap' \in TapRecord
<1>1. tap \in TapRecord /\ screen' = screen /\ tap' = [tap EXCEPT !.state = "queued"]
  BY TapOrder DEF TransitionUnanswered
<1> QED BY <1>1, TapAdvances

(* The end of a tap: everything shown must be committed.                   *)
LEMMA TapEnds ==
  ASSUME Grows, tap' = NoTap, screen' \in [Orders -> Shown],
         \A o \in Orders : Committed(o, screen'[o])
  PROVE  TapInv'
<1>1. \A o \in Orders : CommittedThen(o, screen'[o])
  BY CommittedStays
<1> QED BY <1>1 DEF TapInv, Committed, CommittedThen

LEMMA DoneKeeps ==
  ASSUME FeedInv, Records, ScreenInv, Grows, TransitionDone
  PROVE  /\ TapInv' /\ tap' = NoTap
         /\ screen' \in [Orders -> Shown] /\ seen' \subseteq Events
<1> DEFINE n == tap.before.version + 1
<1>1. tap # NoTap /\ tap.order \in Orders /\ tap.before.version \in Nat /\ tap.state = "done"
      /\ <<tap.order, n>> \in mine
  BY TapOrder DEF TransitionDone, ScreenInv, TapInv
<1>2. n \in 1 .. MaxVersion /\ n \in Nat
  BY <1>1, OrderFeedAssumption DEF Records
<1>3. n <= version[tap.order]
  BY <1>1, <1>2 DEF ScreenInv
<1>4. PICK s : s = [version |-> n, mine |-> TRUE]
  OBVIOUS
<1>5. s \in Shown /\ s.version = n /\ s.mine
  BY <1>2, <1>4 DEF Shown
<1>6. Committed(tap.order, s)
  BY <1>1, <1>3, <1>5 DEF Committed
<1>7. Upsert(tap.order, s, << >>) /\ << >> \in Seq(Events) /\ tap' = NoTap
  BY <1>4 DEF TransitionDone
<1>8. /\ screen' \in [Orders -> Shown] /\ seen' \subseteq Events
      /\ \A q \in Orders : q # tap.order => screen'[q] = screen[q]
      /\ screen'[tap.order] = screen[tap.order] \/ screen'[tap.order] = s
      /\ ~(s.version < screen[tap.order].version) => screen'[tap.order] = s
  BY <1>1, <1>5, <1>7, UpsertMoves
<1>9. Committed(tap.order, screen'[tap.order])
  <2>1. CASE s.version < screen[tap.order].version
    <3>1. screen[tap.order].version # n
      BY <1>2, <1>5, <2>1
    <3>2. Committed(tap.order, screen[tap.order])
      BY <1>1, <3>1 DEF ScreenInv, TapInv
    <3> QED BY <1>6, <1>8, <3>2
  <2> QED BY <1>6, <1>8, <2>1
<1>10. \A o \in Orders : Committed(o, screen'[o])
  BY <1>8, <1>9 DEF ScreenInv, TapInv
<1> QED BY <1>7, <1>8, <1>10, TapEnds

LEMMA RefusedKeeps ==
  ASSUME FeedInv, Records, ScreenInv, Grows, TransitionRefused
  PROVE  TapInv' /\ tap' = NoTap /\ screen' \in [Orders -> Shown]
<1>1. tap # NoTap /\ tap.order \in Orders /\ tap.before \in Shown /\ tap.before.version \in Nat
  BY TapOrder DEF TransitionRefused
<1>2. screen' = [screen EXCEPT ![tap.order] = IF @.version = 0 THEN @ ELSE tap.before]
      /\ tap' = NoTap
  BY DEF TransitionRefused
<1>3. /\ screen' \in [Orders -> Shown]
      /\ \A q \in Orders : q # tap.order => screen'[q] = screen[q]
      /\ screen'[tap.order] = IF screen[tap.order].version = 0 THEN screen[tap.order] ELSE tap.before
  BY <1>1, <1>2 DEF Records
<1>4. Committed(tap.order, screen'[tap.order])
  <2>1. CASE screen[tap.order].version = 0
    <3>1. screen[tap.order].version # tap.before.version + 1
      BY <1>1, <2>1
    <3> QED BY <1>1, <1>3, <2>1, <3>1 DEF ScreenInv, TapInv
  <2>2. CASE screen[tap.order].version # 0
    BY <1>1, <1>3, <2>2 DEF ScreenInv, TapInv
  <2> QED BY <2>1, <2>2
<1>5. \A o \in Orders : Committed(o, screen'[o])
  BY <1>3, <1>4 DEF ScreenInv, TapInv
<1> QED BY <1>2, <1>3, <1>5, TapEnds

(* Every other step leaves the tap, and shows only what was committed.     *)
LEMMA OtherSteps ==
  ASSUME FeedInv, Records, ScreenInv, DisplayNext, ~Changes
  PROVE  ScreenMoves /\ UNCHANGED <<tap, taps>>
<1>1. ASSUME UNCHANGED <<screen, seen>> PROVE ScreenMoves
  BY <1>1 DEF ScreenMoves, Records
<1>2. CASE Elsewhere
  BY <1>1, <1>2 DEF Elsewhere, displayVars, tapVars
<1>3. CASE Handles
  BY <1>1, <1>3, AppliesMoves DEF Handles, IgnoresEvent, AppliesEvent, AsksAboutEvent, StopsAtEvent,
                                  Receives, tapVars
<1>4. CASE Answers
  <2>1. ASSUME NEW r \in Reads, ServerReads(r)
        PROVE  ScreenMoves /\ UNCHANGED <<tap, taps>>
    BY <1>1, <2>1 DEF ServerReads, tapVars
  <2>2. ASSUME NEW r \in Reads, SnapshotArrives(r)
        PROVE  ScreenMoves /\ UNCHANGED <<tap, taps>>
    BY <2>2, SnapshotMoves DEF SnapshotArrives, tapVars
  <2>3. ASSUME NEW r \in Reads, OrderArrives(r)
        PROVE  ScreenMoves /\ UNCHANGED <<tap, taps>>
    BY <2>3, OrderArrivesMoves DEF OrderArrives, tapVars
  <2> QED BY <1>4, <2>1, <2>2, <2>3 DEF Answers
<1>5. CASE Refresh \/ TimerFires \/ Connects \/ NoticesDisconnect
  BY <1>1, <1>5 DEF Refresh, TimerFires, Connects, NoticesDisconnect, tapVars
<1>6. CASE ConnectFails \/ (\E r \in Reads : ReadFails(r)) \/ NetworkGoes \/ NetworkReturns
  BY <1>1, <1>6 DEF ConnectFails, ReadFails, NetworkGoes, NetworkReturns, tapVars
<1> QED BY <1>2, <1>3, <1>4, <1>5, <1>6 DEF DisplayNext

LEMMA ChangesStep ==
  ASSUME FeedInv, Records, ScreenInv, Grows, Changes
  PROVE  /\ TapInv' /\ (tap' = NoTap \/ tap' \in TapRecord) /\ taps' \in 0 .. MaxTaps
         /\ screen' \in [Orders -> Shown] /\ seen' \subseteq Events
<1>1. CASE \E o \in Orders : Taps(o)
  BY <1>1, TapsKeeps
<1>2. CASE ServerTransitions
  BY <1>2, ServerTransitionsKeeps DEF ServerTransitions, Records
<1>3. CASE TransitionDone
  BY <1>3, DoneKeeps DEF TransitionDone, Records
<1>4. CASE TransitionRefused
  BY <1>4, RefusedKeeps DEF TransitionRefused, Records
<1>5. CASE TransitionUnanswered
  BY <1>5, UnansweredKeeps DEF TransitionUnanswered, Records
<1> QED BY <1>1, <1>2, <1>3, <1>4, <1>5 DEF Changes

LEMMA DisplayStep == DisplayInv /\ [DisplayNext]_allVars => DisplayInv'
<1> SUFFICES ASSUME FeedInv, Records, ScreenInv, [DisplayNext]_allVars
             PROVE  FeedInv' /\ Records' /\ ScreenInv'
  BY DEF DisplayInv
<1>1. FeedInv'
  <2>1. CASE UNCHANGED allVars
    BY <2>1, FeedStep DEF FeedMoves, allVars, vars
  <2> QED BY <2>1, DisplayMovesFeed, FeedStep
<1>2. Grows /\ RequestsMove
  BY GrowsStep, RequestsStep
<1>3. /\ TapInv' /\ (tap' = NoTap \/ tap' \in TapRecord) /\ taps' \in 0 .. MaxTaps
      /\ screen' \in [Orders -> Shown] /\ seen' \subseteq Events
  <2>1. CASE Changes
    BY <1>2, <2>1, ChangesStep
  <2>2. CASE ScreenMoves /\ UNCHANGED <<tap, taps>>
    BY <1>2, <2>2, TapKept DEF ScreenMoves, Records
  <2>3. CASE UNCHANGED allVars
    <3>1. ScreenMoves /\ UNCHANGED <<tap, taps>>
      BY <2>3 DEF allVars, displayVars, tapVars, ScreenMoves, Records
    <3> QED BY <2>2, <3>1
  <2> QED BY <2>1, <2>2, <2>3, OtherSteps
<1>4. Records'
  BY <1>2, <1>3 DEF Records, Grows, RequestsMove
<1>5. ASSUME NEW o \in Orders, NEW v \in Nat, <<o, v>> \in mine'
      PROVE  v <= version'[o]
  <2>1. CASE <<o, v>> \in mine
    BY <1>2, <2>1 DEF ScreenInv, Grows
  <2>2. CASE <<o, v>> \notin mine
    BY <1>2, <1>5, <2>2 DEF Grows
  <2> QED BY <2>1, <2>2
<1>6. AnswersInv'
  BY <1>2, AnswersStay
<1> QED BY <1>1, <1>3, <1>4, <1>5, <1>6 DEF ScreenInv

LEMMA DisplayIsSound == DisplaySpec => []DisplayInv
<1>1. DisplayInit => DisplayInv
  <2> SUFFICES ASSUME DisplayInit PROVE DisplayInv
    OBVIOUS
  <2>1. FeedInv
    BY FeedStart DEF DisplayInit
  <2>2. Records
    BY RecordsStart
  <2>3. /\ mine = {} /\ tap = NoTap /\ \A r \in Reads : ~read[r].answered
        /\ \A o \in Orders : screen[o].version = 0 /\ screen[o].mine = FALSE
    BY FreeIs, AskingIs DEF DisplayInit
  <2>4. \A o \in Orders : version[o] = 0
    BY DEF DisplayInit, Init
  <2>5. ScreenInv
    BY <2>3, <2>4 DEF ScreenInv, AnswersInv, TapInv, Committed
  <2> QED BY <2>1, <2>2, <2>5 DEF DisplayInv
<1> QED BY <1>1, DisplayStep, PTL DEF DisplaySpec

(* Apart from the order whose change is on its way, what the display shows *)
(* was committed, with the status it shows: no optimistic update outlives  *)
(* its refusal, whatever events, snapshots and answers come in between.    *)
THEOREM NothingShownUncommitted == DisplaySpec => []ShownIsCommitted
<1>1. DisplayInv => ShownIsCommitted
  <2> SUFFICES ASSUME DisplayInv, NEW o \in Orders, tap = NoTap \/ tap.order # o
               PROVE  /\ screen[o].version <= version[o]
                      /\ screen[o].mine = (<<o, screen[o].version>> \in mine)
    BY DEF ShownIsCommitted
  <2>1. screen[o].mine \in BOOLEAN
    BY DEF DisplayInv, Records, Shown
  <2>2. screen[o].version <= version[o]
        /\ (screen[o].mine <=> <<o, screen[o].version>> \in mine)
    BY DEF DisplayInv, ScreenInv, TapInv, Committed
  <2> QED BY <2>1, <2>2
<1> QED BY <1>1, DisplayIsSound, PTL

(* The display's variables have their types.                               *)
THEOREM DisplayTypeCorrect == DisplaySpec => []DisplayTypeOK
<1>1. DisplayInv /\ WayBack => DisplayTypeOK
  <2> SUFFICES ASSUME Records, WayBack PROVE DisplayTypeOK
    BY DEF DisplayInv
  <2>1. ASSUME NEW r \in Reads
        PROVE  /\ read[r].use \in Uses /\ read[r].about \in Seq(Events)
               /\ (read[r].about # << >>) = (read[r].use = "order")
               /\ read[r].answered \in BOOLEAN /\ read[r].got \in [Orders -> Shown]
    BY DEF Records, Request
  <2> QED BY <2>1 DEF Records, WayBack, DisplayTypeOK, TapRecord, Uses
<1> QED BY <1>1, DisplayIsSound, WayBackStart, WayBackStep, PTL DEF DisplaySpec
=============================================================================
