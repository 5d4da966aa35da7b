----------------------------- MODULE MCDiscounts -----------------------------
(* Small instances of Discounts for TLC.                                   *)
EXTENDS Discounts, TLC

CONSTANTS rice, tea

PriceDef == (rice :> 30) @@ (tea :> 10)
CartsDef == {{rice}, {rice, tea}}
TermsDef == {
  [scope |-> "ITEM", type |-> "PERCENTAGE", value |-> 25, cap |-> 0, min |-> 0],
  [scope |-> "ITEM", type |-> "FIXED", value |-> 20, cap |-> 0, min |-> 0],
  [scope |-> "ORDER", type |-> "PERCENTAGE", value |-> 100, cap |-> 15, min |-> 35],
  [scope |-> "ORDER", type |-> "FIXED", value |-> 50, cap |-> 0, min |-> 0]}

Symmetry == Permutations(Orders) \cup Permutations(Editors)
=============================================================================
