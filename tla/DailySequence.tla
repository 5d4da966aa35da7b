---------------------------- MODULE DailySequence ----------------------------
(***************************************************************************)
(* How Create numbers an order and writes it (nextDailyOrderNumber and the *)
(* statements after it, internal/order/store.go), for one branch on one    *)
(* day, over the locks of the database: SELECT ... FOR UPDATE on a row     *)
(* that is not there locks only the gap it would be in, which several      *)
(* transactions can do at once, and an INSERT then waits for all others.   *)
(***************************************************************************)
EXTENDS Naturals

CONSTANT Requests   \* create requests of the branch on the day

VARIABLES
  last,     \* committed last_sequence, 0 when the day has no row
  gap,      \* transactions with a lock on the gap of the missing row
  holder,   \* the transaction with the lock of the row, present or inserted
  pc,       \* where each request is
  number,   \* the sequence number it drew, 0 for a random suffix
  open,     \* its transaction is open; if not, statements commit one by one
  written,  \* the parts of the order it has written
  stored    \* the parts of the order that are committed

sequenceVars == <<last, gap, holder, pc, number, open, written, stored>>

None == "none"
ASSUME RequestsAssumption == None \notin Requests

(* What Create inserts after the number is drawn, in this order.           *)
Parts == {"order", "items", "history", "outbox"}
NextStep(part) ==
  CASE part = "order" -> "items"
    [] part = "items" -> "history"
    [] part = "history" -> "outbox"
    [] part = "outbox" -> "commit"

SequenceTypeOK ==
  /\ last \in Nat
  /\ gap \subseteq Requests
  /\ holder \in Requests \cup {None}
  /\ pc \in [Requests -> {"select", "insert", "commit", "done", "failed"} \cup Parts]
  /\ number \in [Requests -> Nat]
  /\ open \in [Requests -> BOOLEAN]
  /\ written \in [Requests -> SUBSET Parts]
  /\ stored \in [Requests -> SUBSET Parts]

SequenceInit ==
  /\ last = 0
  /\ gap = {}
  /\ holder = None
  /\ pc = [r \in Requests |-> "select"]
  /\ number = [r \in Requests |-> 0]
  /\ open = [r \in Requests |-> TRUE]
  /\ written = [r \in Requests |-> {}]
  /\ stored = [r \in Requests |-> {}]

-----------------------------------------------------------------------------
(* nextDailyOrderNumber.                                                   *)

Goto(r, place) == pc' = [pc EXCEPT ![r] = place]
Draw(r, n) == number' = [number EXCEPT ![r] = n] /\ Goto(r, "order")

(* Variant: the row is read without FOR UPDATE.                            *)
SequenceUnlocked == TRUE

SequenceFree == holder = None

(* The row is there: it is locked, read and updated.                       *)
Increment(r) ==
  /\ pc[r] = "select" /\ last > 0 /\ SequenceFree
  /\ holder' = r
  /\ Draw(r, last + 1)
  /\ UNCHANGED <<last, gap, open, written, stored>>

(* The row is not there: its gap is locked, which excludes nobody but an   *)
(* INSERT.                                                                 *)
LockGap(r) ==
  /\ pc[r] = "select" /\ last = 0 /\ SequenceFree
  /\ gap' = gap \cup {r}
  /\ Goto(r, "insert")
  /\ UNCHANGED <<last, holder, number, open, written, stored>>

InsertFirst(r) ==
  /\ pc[r] = "insert" /\ gap = {r}
  /\ holder' = r
  /\ Draw(r, 1)
  /\ UNCHANGED <<last, gap, open, written, stored>>

(* Two INSERTs wait for each other: the database rolls one transaction     *)
(* back, and Create goes on with a random number outside of any.           *)
Deadlock(r) ==
  /\ pc[r] = "insert"
  /\ \E q \in gap \ {r} : pc[q] = "insert"
  /\ gap' = gap \ {r}
  /\ open' = [open EXCEPT ![r] = FALSE]
  /\ Draw(r, 0)
  /\ UNCHANGED <<last, holder, written, stored>>

(* A lock wait times out: only the statement is undone, and Create goes on *)
(* with a random number in its transaction.                                *)
WaitTimeout(r) ==
  /\ \/ pc[r] = "select" /\ ~SequenceFree
     \/ pc[r] = "insert" /\ gap # {r}
  /\ Draw(r, 0)
  /\ UNCHANGED <<last, gap, holder, open, written, stored>>

-----------------------------------------------------------------------------
(* The statements of Create.                                               *)

Write(r) ==
  /\ pc[r] \in Parts
  /\ written' = [written EXCEPT ![r] = @ \cup {pc[r]}]
  /\ stored' = IF open[r] THEN stored ELSE [stored EXCEPT ![r] = @ \cup {pc[r]}]
  /\ Goto(r, NextStep(pc[r]))
  /\ UNCHANGED <<last, gap, holder, number, open>>

Unlock(r) ==
  /\ gap' = gap \ {r}
  /\ holder' = IF holder = r THEN None ELSE holder

Commit(r) ==
  /\ pc[r] = "commit"
  /\ stored' = [stored EXCEPT ![r] = written[r]]
  /\ last' = IF open[r] /\ number[r] > 0 THEN number[r] ELSE last
  /\ Unlock(r)
  /\ Goto(r, "done")
  /\ UNCHANGED <<number, open, written>>

(* A statement fails, the request is cancelled or the process dies: an     *)
(* open transaction is rolled back.                                        *)
Fail(r) ==
  /\ pc[r] \notin {"done", "failed"}
  /\ Unlock(r)
  /\ Goto(r, "failed")
  /\ UNCHANGED <<last, number, open, written, stored>>

Create(r) ==
  \/ Increment(r) \/ LockGap(r) \/ InsertFirst(r) \/ Deadlock(r) \/ WaitTimeout(r)
  \/ Write(r) \/ Commit(r)

SequenceNext == \E r \in Requests : Create(r) \/ Fail(r)

SequenceSpec == SequenceInit /\ [][SequenceNext]_sequenceVars

-----------------------------------------------------------------------------
(* The numbers given out on a day are 1, 2, 3 ... without a gap and no two *)
(* orders share one, whoever fails in between; orders that fell back to a  *)
(* random suffix are not counted.  An order with a number of the day is    *)
(* stored whole or not at all; so is one with a random suffix, unless the  *)
(* database took its transaction away (Create, nextDailyOrderNumber).      *)
Numbered == {r \in Requests : pc[r] = "done" /\ number[r] > 0}

NumbersAreGapless ==
  /\ {number[r] : r \in Numbered} = 1 .. last
  /\ \A q, r \in Numbered : number[q] = number[r] => q = r
  /\ \A r \in Requests : stored[r] \notin {{}, Parts} => number[r] = 0 /\ ~open[r]

(* A claim that does not hold.                                             *)
(* docs/MANUAL_ORDER_CREATION.md: order, items, history and outbox event   *)
(* are inserted atomically and a failure leaves no partial data.           *)
CreateIsAtomic == \A r \in Requests : pc[r] = "failed" => stored[r] \in {{}, Parts}
=============================================================================
