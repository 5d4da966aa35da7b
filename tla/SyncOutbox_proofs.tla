--------------------------- MODULE SyncOutbox_proofs ---------------------------
(* Theorems about SyncOutbox, for any number of drafts, known orders and   *)
(* faults.                                                                 *)
EXTENDS SyncOutbox, TLAPS

Stages == {"no", "marked", "success", "transient", "permanent"}

(* The types the other invariants need, and what a flush may hold.         *)
Typed ==
  /\ outbox \in Seq(Mutations)
  /\ status \in [Mutations -> Statuses \cup {"none"}]
  /\ next \in [Mutations -> {"none", "later", "past"}]
  /\ run \subseteq Mutations /\ tried \subseteq Mutations
  /\ sending \in Stages
  /\ recovered \in BOOLEAN

(* A mutation is in the outbox once, from the moment it is stored.         *)
Listed ==
  /\ \A i, j \in 1 .. Len(outbox) : outbox[i] = outbox[j] => i = j
  /\ \A m \in Mutations :
       status[m] # "none" <=> \E i \in 1 .. Len(outbox) : outbox[i] = m

(* A flush is over before the next one begins, and what it has marked is   *)
(* the oldest of its run; only what is stored is sent.                     *)
FlushInv ==
  /\ recovery # "flush" => run = {} /\ sending = "no"
  /\ recovery = "flush" => recovered
  /\ \A m \in run : status[m] # "none"
  /\ sending # "no" =>
       \E m \in run :
         /\ IsOldest(m) /\ status[m] = "SYNCING"
         /\ sending # "marked" => m \in tried
         /\ sending = "success" => m \in applied
  /\ \A m \in tried : status[m] # "none"

(* What was never sent is due, and a flush holds all of it but what was    *)
(* stored since it began, which comes after the rest of its run.           *)
UntriedInv ==
  \A m \in Mutations \ tried :
    /\ next[m] = "none"
    /\ status[m] \in {"none", "PENDING", "SYNCING", "FAILED_TRANSIENT"}
    /\ recovery = "flush" /\ status[m] # "none" /\ m \notin run =>
         \A k \in run : Before(k, m)

Inv ==
  /\ Typed /\ Listed /\ FlushInv /\ UntriedInv
  /\ NoneLeftSyncing /\ SyncedWasApplied /\ TriedInOrder

-----------------------------------------------------------------------------
(* The outbox only grows at its end: what was before what stays so.        *)
LEMMA AppendKeeps ==
  ASSUME Typed, NEW n \in Mutations, outbox' = Append(outbox, n)
  PROVE  \A m, k \in Mutations : Before(m, k) => Before(m, k)'
<1>1. /\ Len(outbox') = Len(outbox) + 1 /\ Len(outbox) \in Nat
      /\ \A i \in 1 .. Len(outbox) : outbox'[i] = outbox[i]
  BY DEF Typed
<1>2. ASSUME NEW m \in Mutations, NEW k \in Mutations, Before(m, k) PROVE Before(m, k)'
  <2>1. PICK i, j \in 1 .. Len(outbox) : i < j /\ outbox[i] = m /\ outbox[j] = k
    BY <1>2 DEF Before
  <2>2. i \in 1 .. Len(outbox') /\ j \in 1 .. Len(outbox')
    BY <1>1, <2>1
  <2> QED BY <1>1, <2>1, <2>2 DEF Before
<1> QED BY <1>2

LEMMA BeforeIsOrder ==
  ASSUME Typed, Listed, NEW m, NEW k, Before(m, k)
  PROVE  ~Before(k, m)
<1>1. PICK i, j \in 1 .. Len(outbox) : i < j /\ outbox[i] = m /\ outbox[j] = k
  BY DEF Before
<1>2. ASSUME NEW a \in 1 .. Len(outbox), NEW b \in 1 .. Len(outbox),
             a < b, outbox[a] = k, outbox[b] = m
      PROVE  FALSE
  BY <1>1, <1>2 DEF Listed
<1> QED BY <1>2 DEF Before

LEMMA OldestIsOne ==
  ASSUME Typed, Listed, NEW m, NEW k, IsOldest(m), IsOldest(k)
  PROVE  m = k
BY BeforeIsOrder DEF IsOldest

(* A mutation that is stored comes last.                                   *)
LEMMA EnqueueIsLast ==
  ASSUME Typed, Listed, NEW n \in Mutations, Enqueue(n)
  PROVE  /\ Listed'
         /\ \A k \in Mutations : status[k] # "none" => Before(k, n)'
<1>1. /\ Len(outbox') = Len(outbox) + 1 /\ Len(outbox) \in Nat
      /\ \A i \in 1 .. Len(outbox) : outbox'[i] = outbox[i]
      /\ outbox'[Len(outbox) + 1] = n
  BY DEF Typed, Enqueue
<1>2. \A i \in 1 .. Len(outbox) : outbox[i] # n
  BY DEF Listed, Enqueue
<1>3. \A i, j \in 1 .. Len(outbox') : outbox'[i] = outbox'[j] => i = j
  BY <1>1, <1>2 DEF Listed
<1>4. ASSUME NEW m \in Mutations
      PROVE  status'[m] # "none" <=> \E i \in 1 .. Len(outbox') : outbox'[i] = m
  <2>1. CASE m = n
    <3>1. status'[m] = "PENDING"
      BY <2>1 DEF Enqueue, Typed
    <3>2. Len(outbox) + 1 \in 1 .. Len(outbox')
      BY <1>1
    <3> QED BY <1>1, <2>1, <3>1, <3>2
  <2>2. CASE m # n
    <3>1. status'[m] = status[m]
      BY <2>2 DEF Enqueue, Typed
    <3>2. (\E i \in 1 .. Len(outbox') : outbox'[i] = m) <=> (\E i \in 1 .. Len(outbox) : outbox[i] = m)
      BY <1>1, <2>2
    <3> QED BY <3>1, <3>2 DEF Listed
  <2> QED BY <2>1, <2>2
<1>5. ASSUME NEW k \in Mutations, status[k] # "none" PROVE Before(k, n)'
  <2>1. PICK i \in 1 .. Len(outbox) : outbox[i] = k
    BY <1>5 DEF Listed
  <2>2. i \in 1 .. Len(outbox') /\ Len(outbox) + 1 \in 1 .. Len(outbox') /\ i < Len(outbox) + 1
    BY <1>1, <2>1
  <2> QED BY <1>1, <2>1, <2>2 DEF Before
<1> QED BY <1>3, <1>4, <1>5 DEF Listed

-----------------------------------------------------------------------------
(* A mutation is stored, whether a flush runs or not.                      *)
LEMMA EnqueueStep ==
  ASSUME Inv, NEW n \in Mutations, Enqueue(n),
         UNCHANGED <<run, sending, tried, recovered>>, applied \subseteq applied',
         recovery' = recovery \/ (recovery # "flush" /\ recovery' # "flush")
  PROVE  Inv'
<1> USE DEF Inv
<1>1. Typed'
  BY DEF Typed, Enqueue, Statuses
<1>2. Listed' /\ \A k \in Mutations : status[k] # "none" => Before(k, n)'
  BY EnqueueIsLast
<1>3. \A m, k \in Mutations : Before(m, k) => Before(m, k)'
  BY AppendKeeps DEF Enqueue
<1>4. \A m \in Mutations : status'[m] = IF m = n THEN "PENDING" ELSE status[m]
  BY DEF Enqueue, Typed
<1>5. \A m \in Mutations : IsOldest(m) => IsOldest(m)'
  BY <1>3 DEF IsOldest, Typed
<1>6. FlushInv'
  BY <1>4, <1>5 DEF FlushInv, Enqueue, Typed
<1>7. UntriedInv'
  <2> SUFFICES ASSUME NEW m \in Mutations \ tried
               PROVE  /\ next'[m] = "none"
                      /\ status'[m] \in {"none", "PENDING", "SYNCING", "FAILED_TRANSIENT"}
                      /\ recovery' = "flush" /\ status'[m] # "none" /\ m \notin run =>
                           \A k \in run : Before(k, m)'
    BY DEF UntriedInv
  <2>1. next'[m] = "none" /\ status'[m] \in {"none", "PENDING", "SYNCING", "FAILED_TRANSIENT"}
    BY <1>4 DEF UntriedInv, Enqueue
  <2>2. ASSUME recovery' = "flush", status'[m] # "none", m \notin run, NEW k \in run
        PROVE  Before(k, m)'
    <3>1. k \in Mutations /\ status[k] # "none" /\ recovery = "flush"
      BY <2>2 DEF Typed, FlushInv
    <3>2. CASE m = n
      BY <1>2, <3>1, <3>2
    <3>3. CASE m # n
      BY <1>3, <1>4, <2>2, <3>1, <3>3 DEF UntriedInv
    <3> QED BY <3>2, <3>3
  <2> QED BY <2>1, <2>2
<1>8. NoneLeftSyncing'
  BY <1>4, <1>5 DEF NoneLeftSyncing
<1>9. SyncedWasApplied'
  BY <1>4 DEF SyncedWasApplied
<1>10. TriedInOrder'
  <2>1. /\ Len(outbox') = Len(outbox) + 1 /\ Len(outbox) \in Nat
        /\ \A i \in 1 .. Len(outbox) : outbox'[i] = outbox[i]
        /\ outbox'[Len(outbox) + 1] = n
    BY DEF Typed, Enqueue
  <2>2. n \notin tried
    BY DEF Enqueue, FlushInv
  <2> QED BY <2>1, <2>2 DEF TriedInOrder
<1> QED BY <1>1, <1>2, <1>6, <1>7, <1>8, <1>9, <1>10

(* A flush begins: what an earlier life of the app had marked is due again.*)
LEMMA FlushStep == ASSUME Inv, Flush PROVE Inv'
<1> USE DEF Inv
<1>1. /\ outbox' = outbox /\ tried' = tried /\ applied' = applied /\ sending' = sending
      /\ recovered' = TRUE /\ recovery' = "flush" /\ run = {} /\ sending = "no"
  BY DEF Flush, server, FlushInv
<1> DEFINE s == [m \in Mutations |-> IF m \in Interrupted THEN "FAILED_TRANSIENT" ELSE status[m]]
<1>2. status' = s /\ run' = Due(s)
  BY DEF Flush
<1>3. \A m \in Mutations :
        /\ s[m] = IF m \in Interrupted THEN "FAILED_TRANSIENT" ELSE status[m]
        /\ next'[m] = IF m \in Interrupted THEN "none" ELSE next[m]
  BY DEF Flush
<1>4. \A m \in Mutations : s[m] # "SYNCING" /\ (m \in Interrupted => status[m] = "SYNCING")
  <2>1. ASSUME NEW m \in Mutations, status[m] = "SYNCING" PROVE m \in Interrupted
    BY <1>1, <2>1 DEF NoneLeftSyncing, Interrupted, Typed
  <2>2. ASSUME NEW m \in Mutations, m \in Interrupted PROVE status[m] = "SYNCING"
    BY <2>2 DEF Interrupted
  <2> QED BY <1>3, <2>1, <2>2
<1>5. s \in [Mutations -> Statuses \cup {"none"}]
  BY DEF Typed, Statuses
<1> HIDE DEF s
<1>6. Typed'
  BY <1>1, <1>2, <1>5 DEF Typed, Due, Flush
<1>7. Listed'
  BY <1>1, <1>2, <1>3, <1>4 DEF Listed
<1>8. FlushInv'
  BY <1>1, <1>2, <1>3, <1>4 DEF FlushInv, Due, Typed
<1>9. UntriedInv'
  <2> SUFFICES ASSUME NEW m \in Mutations \ tried
               PROVE  /\ next'[m] = "none"
                      /\ s[m] \in {"none", "PENDING", "SYNCING", "FAILED_TRANSIENT"}
                      /\ s[m] # "none" => m \in run'
    BY <1>1, <1>2 DEF UntriedInv
  <2>1. /\ next[m] = "none"
        /\ status[m] \in {"none", "PENDING", "SYNCING", "FAILED_TRANSIENT"}
    BY DEF UntriedInv
  <2> QED BY <1>2, <1>3, <1>4, <2>1 DEF Due
<1>10. NoneLeftSyncing'
  BY <1>2, <1>4 DEF NoneLeftSyncing
<1>11. SyncedWasApplied'
  BY <1>1, <1>2, <1>3 DEF SyncedWasApplied
<1>12. TriedInOrder'
  BY <1>1 DEF TriedInOrder
<1> QED BY <1>6, <1>7, <1>8, <1>9, <1>10, <1>11, <1>12

LEMMA MarkStep == ASSUME Inv, NEW m \in Mutations, MarkSyncing(m) PROVE Inv'
<1> USE DEF Inv
<1>1. /\ outbox' = outbox /\ next' = next /\ run' = run /\ tried' = tried /\ applied' = applied
      /\ recovered' = recovered /\ recovery' = recovery /\ recovery = "flush"
      /\ sending = "no" /\ sending' = "marked" /\ IsOldest(m) /\ m \in run
  BY DEF MarkSyncing, server, timers, IsOldest
<1>2. \A k \in Mutations : status'[k] = IF k = m THEN "SYNCING" ELSE status[k]
  BY DEF MarkSyncing, Typed
<1>3. Typed'
  BY <1>1 DEF Typed, MarkSyncing, Statuses, Stages
<1>4. status[m] # "none" /\ status[m] # "SYNCING"
  BY <1>1 DEF FlushInv, NoneLeftSyncing
<1>5. Listed'
  BY <1>1, <1>2, <1>4 DEF Listed
<1>6. IsOldest(m)'
  BY <1>1 DEF IsOldest, Before
<1>7. FlushInv'
  BY <1>1, <1>2, <1>6 DEF FlushInv, Typed
<1>8. UntriedInv'
  BY <1>1, <1>2, <1>4 DEF UntriedInv, Before
<1>9. NoneLeftSyncing'
  BY <1>1, <1>2, <1>6 DEF NoneLeftSyncing
<1>10. SyncedWasApplied'
  BY <1>1, <1>2 DEF SyncedWasApplied
<1>11. TriedInOrder'
  BY <1>1 DEF TriedInOrder
<1> QED BY <1>3, <1>5, <1>7, <1>8, <1>9, <1>10, <1>11

(* The oldest of a run goes out after everything that was stored before it.*)
LEMMA SubmitStep ==
  ASSUME Inv, NEW m \in Mutations, NEW outcome \in Stages \ {"no", "marked"},
         Submits(m, outcome), applied \subseteq applied',
         outcome = "success" => m \in applied'
  PROVE  Inv'
<1> USE DEF Inv
<1>1. /\ outbox' = outbox /\ status' = status /\ next' = next /\ run' = run
      /\ tried' = tried \cup {m} /\ recovered' = recovered /\ recovery' = recovery
      /\ sending = "marked" /\ sending' = outcome /\ IsOldest(m) /\ m \in run
  BY DEF Submits, store, timers, IsOldest
<1>2. Typed'
  BY <1>1 DEF Typed, Stages
<1>3. Listed'
  BY <1>1 DEF Listed
<1>4. IsOldest(m)' /\ status[m] = "SYNCING"
  <2>1. status[m] = "SYNCING"
    BY <1>1, OldestIsOne DEF FlushInv
  <2> QED BY <1>1, <2>1 DEF IsOldest, Before
<1>5. FlushInv'
  BY <1>1, <1>4 DEF FlushInv
<1>6. UntriedInv'
  BY <1>1 DEF UntriedInv, Before
<1>7. NoneLeftSyncing'
  BY <1>1, <1>4 DEF NoneLeftSyncing, IsOldest, Before, Stages
<1>8. SyncedWasApplied'
  BY <1>1 DEF SyncedWasApplied
<1>9. TriedInOrder'
  <2> SUFFICES ASSUME NEW i \in 1 .. Len(outbox), NEW j \in 1 .. Len(outbox),
                      i < j, outbox[j] \in tried \cup {m}, outbox[i] \notin tried \cup {m}
               PROVE  FALSE
    BY <1>1 DEF TriedInOrder
  <2>1. outbox[j] = m
    BY DEF TriedInOrder
  <2>2. outbox[i] \in Mutations \ tried /\ status[outbox[i]] # "none"
    BY DEF Typed, Listed
  <2>3. recovery = "flush"
    BY <1>1 DEF FlushInv
  <2>4. Before(m, outbox[i])
    <3>1. CASE outbox[i] \in run
      BY <1>1, <3>1 DEF IsOldest
    <3>2. CASE outbox[i] \notin run
      BY <1>1, <2>2, <2>3, <3>2 DEF UntriedInv
    <3> QED BY <3>1, <3>2
  <2>5. Before(outbox[i], m)
    BY <2>1 DEF Before
  <2> QED BY <2>4, <2>5, BeforeIsOrder
<1> QED BY <1>2, <1>3, <1>5, <1>6, <1>7, <1>8, <1>9

LEMMA RecordStep == ASSUME Inv, NEW m \in Mutations, Record(m) PROVE Inv'
<1> USE DEF Inv
<1>1. /\ outbox' = outbox /\ run' = run \ {m} /\ tried' = tried /\ applied' = applied
      /\ recovered' = recovered /\ recovery' = recovery
      /\ sending \in {"success", "transient", "permanent"} /\ sending' = "no"
      /\ IsOldest(m) /\ m \in run
  BY DEF Record, server, timers, IsOldest
<1> DEFINE result == CASE sending = "success" -> "SYNCED"
                       [] sending = "transient" -> "FAILED_TRANSIENT"
                       [] OTHER -> "FAILED_PERMANENT"
<1>2. /\ \A k \in Mutations : status'[k] = IF k = m THEN result ELSE status[k]
      /\ \A k \in Mutations \ {m} : next'[k] = next[k]
      /\ status' \in [Mutations -> Statuses \cup {"none"}]
      /\ next' \in [Mutations -> {"none", "later", "past"}]
  BY DEF Record, Typed, Statuses
<1>3. /\ result \in {"SYNCED", "FAILED_TRANSIENT", "FAILED_PERMANENT"}
      /\ result = "SYNCED" => sending = "success"
  BY <1>1
<1> HIDE DEF result
<1>4. /\ status[m] = "SYNCING" /\ m \in tried /\ (sending = "success" => m \in applied)
  BY <1>1, OldestIsOne DEF FlushInv
<1>5. Typed'
  BY <1>1, <1>2 DEF Typed, Stages
<1>6. Listed'
  BY <1>1, <1>2, <1>3, <1>4 DEF Listed
<1>7. FlushInv'
  BY <1>1, <1>2, <1>3 DEF FlushInv, Typed
<1>8. UntriedInv'
  BY <1>1, <1>2, <1>4 DEF UntriedInv, Before
<1>9. NoneLeftSyncing'
  <2>1. ASSUME NEW k \in Mutations, status'[k] = "SYNCING", recovered PROVE FALSE
    <3>1. k # m /\ status[k] = "SYNCING"
      BY <1>2, <1>3, <2>1
    <3>2. IsOldest(k)
      BY <2>1, <3>1 DEF NoneLeftSyncing
    <3> QED BY <1>1, <3>1, <3>2, OldestIsOne
  <2> QED BY <1>1, <2>1 DEF NoneLeftSyncing
<1>10. SyncedWasApplied'
  BY <1>1, <1>2, <1>3, <1>4 DEF SyncedWasApplied
<1>11. TriedInOrder'
  BY <1>1 DEF TriedInOrder
<1> QED BY <1>5, <1>6, <1>7, <1>8, <1>9, <1>10, <1>11

(* Timers, connections and time do not touch what a flush works on.        *)
LEMMA QuietStep ==
  ASSUME Inv, UNCHANGED <<outbox, status, run, sending, tried, recovered, applied>>,
         \/ next' = next
         \/ \E m \in Mutations : next[m] = "later" /\ next' = [next EXCEPT ![m] = "past"],
         recovery' = recovery \/ (run = {} /\ sending = "no" /\ recovery' # "flush")
  PROVE  Inv'
<1> USE DEF Inv
<1>1. Typed'
  BY DEF Typed
<1>2. Listed'
  BY DEF Listed
<1>3. FlushInv'
  BY DEF FlushInv, IsOldest, Before
<1>4. ASSUME NEW m \in Mutations, next[m] = "none" PROVE next'[m] = "none"
  BY <1>4 DEF Typed
<1>5. UntriedInv'
  BY <1>4 DEF UntriedInv, Before
<1>6. NoneLeftSyncing'
  BY DEF NoneLeftSyncing, IsOldest, Before
<1>7. SyncedWasApplied' /\ TriedInOrder'
  BY DEF SyncedWasApplied, TriedInOrder
<1> QED BY <1>1, <1>2, <1>3, <1>5, <1>6, <1>7

LEMMA DeathStep == ASSUME Inv, AppDies PROVE Inv'
<1> USE DEF Inv
<1>1. /\ UNCHANGED <<outbox, status, next, tried, applied>>
      /\ run' = {} /\ sending' = "no" /\ recovered' = FALSE /\ recovery' = "begin"
  BY DEF AppDies, store, server
<1>2. Typed' /\ Listed'
  BY <1>1 DEF Typed, Listed, Stages
<1>3. FlushInv'
  BY <1>1 DEF FlushInv
<1>4. UntriedInv'
  BY <1>1 DEF UntriedInv
<1>5. NoneLeftSyncing' /\ SyncedWasApplied' /\ TriedInOrder'
  BY <1>1 DEF NoneLeftSyncing, SyncedWasApplied, TriedInOrder
<1> QED BY <1>2, <1>3, <1>4, <1>5

-----------------------------------------------------------------------------
LEMMA InitInv == Init => Inv
<1> SUFFICES ASSUME Init PROVE Inv
  OBVIOUS
<1> USE DEF Init
<1>1. Len(outbox) = 0
  OBVIOUS
<1>2. Typed
  <2>1. outbox \in Seq(Mutations)
    OBVIOUS
  <2>2. status \in [Mutations -> Statuses \cup {"none"}]
    OBVIOUS
  <2> QED BY <2>1, <2>2 DEF Typed, Stages
<1>3. Listed
  BY <1>1 DEF Listed
<1>4. FlushInv /\ UntriedInv
  BY DEF FlushInv, UntriedInv
<1>5. NoneLeftSyncing /\ SyncedWasApplied /\ TriedInOrder
  BY <1>1 DEF NoneLeftSyncing, SyncedWasApplied, TriedInOrder
<1> QED BY <1>2, <1>3, <1>4, <1>5 DEF Inv

LEMMA InvStep == Inv /\ [Next]_vars => Inv'
<1> SUFFICES ASSUME Inv, [Next]_vars PROVE Inv'
  OBVIOUS
<1>1. CASE Flush
  BY <1>1, FlushStep
<1>2. ASSUME NEW m \in Mutations, MarkSyncing(m) PROVE Inv'
  BY <1>2, MarkStep
<1>3. ASSUME NEW m \in Mutations, Record(m) PROVE Inv'
  BY <1>3, RecordStep
<1>4. ASSUME NEW m \in Mutations, Accepted(m) PROVE Inv'
  BY <1>4, SubmitStep DEF Accepted, Stages
<1>5. ASSUME NEW m \in Mutations, Conflicts(m) \/ Refused(m) PROVE Inv'
  BY <1>5, SubmitStep DEF Conflicts, Refused, Stages, server
<1>6. ASSUME NEW m \in Mutations, Lost(m) PROVE Inv'
  BY <1>6, SubmitStep DEF Lost, Stages
<1>7. CASE FlushEnds \/ RecoveryEnds \/ ConnectionDrops \/ ReconnectTimerFires \/ RetryTimerFires
  <2>1. UNCHANGED <<outbox, status, next, run, sending, tried, recovered, applied>>
    BY <1>7 DEF FlushEnds, RecoveryEnds, ConnectionDrops, ReconnectTimerFires, RetryTimerFires,
                store, server, flush
  <2>2. recovery' = recovery \/ (run = {} /\ sending = "no" /\ recovery' # "flush")
    BY <1>7 DEF FlushEnds, RecoveryEnds, ConnectionDrops, ReconnectTimerFires, RetryTimerFires,
                RetryNow, Inv, FlushInv
  <2> QED BY <2>1, <2>2, QuietStep
<1>8. CASE TimePasses
  BY <1>8, QuietStep DEF TimePasses, server, flush, timers
<1>9. CASE AppDies
  BY <1>9, DeathStep
<1>10. ASSUME NEW d \in Drafts, SubmitOrder(d) PROVE Inv'
  <2>1. <<d, "CREATE">> \in Mutations
    BY DEF Mutations
  <2> QED BY <1>10, <2>1, EnqueueStep DEF SubmitOrder, RetryNow, server, flush
<1>11. ASSUME NEW m \in Mutations, QueueChange(m) PROVE Inv'
  BY <1>11, EnqueueStep DEF QueueChange, server, flush, timers
<1>12. CASE UNCHANGED vars
  BY <1>12, QuietStep DEF vars, store, server, flush, timers
<1> QED BY <1>1, <1>2, <1>3, <1>4, <1>5, <1>6, <1>7, <1>8, <1>9, <1>10, <1>11, <1>12 DEF Next, Advance


(* The rest of the type invariant.                                         *)
Rest ==
  /\ applied \subseteq Mutations /\ invalid \subseteq Mutations
  /\ retryTimer \in BOOLEAN /\ reconnect \in BOOLEAN
  /\ recovery \in {"idle", "begin", "flush", "rest"}
  /\ faults \in 0 .. MaxFaults

LEMMA RestStep == Rest /\ [Next]_vars => Rest'
<1> SUFFICES ASSUME Rest, [Next]_vars PROVE Rest'
  OBVIOUS
<1> USE DEF Rest
<1>0. Fault => faults' \in 0 .. MaxFaults
  BY SyncAssumption DEF Fault
<1>1. CASE Flush
  BY <1>1 DEF Flush, server
<1>2. ASSUME NEW m \in Mutations, MarkSyncing(m) \/ Record(m) PROVE Rest'
  BY <1>2 DEF MarkSyncing, Record, server, timers
<1>3. ASSUME NEW m \in Mutations, Accepted(m) \/ Conflicts(m) \/ Refused(m) \/ Lost(m)
      PROVE  Rest'
  BY <1>0, <1>3 DEF Accepted, Conflicts, Refused, Lost, Submits, server, timers
<1>4. CASE FlushEnds \/ RecoveryEnds \/ ConnectionDrops
  BY <1>0, <1>4 DEF FlushEnds, RecoveryEnds, ConnectionDrops, HasRetry, server
<1>5. CASE ReconnectTimerFires \/ RetryTimerFires \/ AppDies
  BY <1>0, <1>5 DEF ReconnectTimerFires, RetryTimerFires, AppDies, RetryNow, server
<1>6. CASE TimePasses \/ UNCHANGED vars
  BY <1>6 DEF TimePasses, vars, server, timers
<1>7. ASSUME NEW d \in Drafts, SubmitOrder(d) PROVE Rest'
  BY <1>7 DEF SubmitOrder, RetryNow, HasRetry, server
<1>8. ASSUME NEW m \in Mutations, QueueChange(m) PROVE Rest'
  BY <1>0, <1>8 DEF QueueChange, server, timers
<1> QED BY <1>1, <1>2, <1>3, <1>4, <1>5, <1>6, <1>7, <1>8 DEF Next, Advance

(* Every variable keeps its type.                                          *)
THEOREM TypeCorrect == Spec => []TypeOK
<1>1. Init => Rest
  <2> SUFFICES ASSUME Init PROVE Rest
    OBVIOUS
  <2>1. applied = {} /\ invalid = {} /\ faults = 0 /\ recovery = "begin"
        /\ retryTimer = FALSE /\ reconnect = FALSE
    BY DEF Init
  <2>2. 0 \in 0 .. MaxFaults
    BY SyncAssumption
  <2> QED BY <2>1, <2>2 DEF Rest
<1>2. Inv /\ Rest => TypeOK
  <2> SUFFICES ASSUME Inv, Rest PROVE TypeOK
    OBVIOUS
  <2>1. IsInjective(outbox) /\ \A m \in Mutations : status[m] = "none" <=> m \notin Range(outbox)
    BY DEF Inv, Typed, Listed, IsInjective, Range
  <2>2. sending # "no" => run # {}
    BY DEF Inv, FlushInv
  <2> QED BY <2>1, <2>2 DEF Inv, Typed, Rest, TypeOK, Stages
<1> QED BY <1>1, <1>2, InitInv, InvStep, RestStep, PTL DEF Spec

(* Once the app has recovered what was interrupted, no mutation is left    *)
(* marked but the one that is being sent.                                  *)
THEOREM NoMutationStaysSyncing == Spec => []NoneLeftSyncing
<1>1. Inv => NoneLeftSyncing
  BY DEF Inv
<1> QED BY <1>1, InitInv, InvStep, PTL DEF Spec

(* What counts as synced was applied by the server, through lost answers,  *)
(* app deaths between answer and record, and later flushes.                *)
THEOREM SyncedMeansApplied == Spec => []SyncedWasApplied
<1>1. Inv => SyncedWasApplied
  BY DEF Inv
<1> QED BY <1>1, InitInv, InvStep, PTL DEF Spec

(* Mutations go out for the first time in the order they were made,        *)
(* whatever fails and whenever the app dies.                               *)
THEOREM FirstSendingsAreInOrder == Spec => []TriedInOrder
<1>1. Inv => TriedInOrder
  BY DEF Inv
<1> QED BY <1>1, InitInv, InvStep, PTL DEF Spec
=============================================================================
