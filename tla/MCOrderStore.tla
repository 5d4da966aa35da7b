---------------------------- MODULE MCOrderStore ----------------------------
(* Small instances of OrderStore for TLC.                                  *)
EXTENDS OrderStore, TLC

(* Handlers and keys are interchangeable, and so are the order ids drawn   *)
(* by the same side.                                                       *)
Interchangeable ==
  Permutations(Handlers) \cup Permutations(Keys)
  \cup Permutations(ClientIds) \cup Permutations(Orders \ ClientIds)
=============================================================================
