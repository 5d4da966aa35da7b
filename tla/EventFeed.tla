------------------------------ MODULE EventFeed ------------------------------
(***************************************************************************)
(* What the order event feed promises: an order's events go out after they *)
(* are committed, at least once, and none for the first time before the    *)
(* ones it follows.                                                        *)
(***************************************************************************)
EXTENDS Naturals

CONSTANTS
  Orders,     \* orders
  MaxVersion  \* bound: versions of an order

VARIABLES
  version,  \* version[o]: the order's committed version, 0 before it exists
  out       \* out[o]: events 1 .. out[o] of the order have gone out

Init == version = [o \in Orders |-> 0] /\ out = [o \in Orders |-> 0]

Commit(o) ==
  /\ version[o] < MaxVersion
  /\ version' = [version EXCEPT ![o] = @ + 1]
  /\ UNCHANGED out

Send(o) ==
  /\ out[o] < version[o]
  /\ out' = [out EXCEPT ![o] = @ + 1]
  /\ UNCHANGED version

Next == \E o \in Orders : Commit(o) \/ Send(o)
Safety == Init /\ [][Next]_<<version, out>>
Spec == Safety /\ \A o \in Orders : WF_<<version, out>>(Send(o))
=============================================================================
