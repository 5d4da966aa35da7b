------------------------------ MODULE Discounts ------------------------------
(***************************************************************************)
(* One discount, edited by the owner's devices while orders are made with  *)
(* it (internal/discount, and the discount part of the three creations of  *)
(* orders in internal/order/store.go).  Its terms are a row of discounts,  *)
(* its menus are rows of discount_menus.  Left out: names, codes, channel, *)
(* branch and dates, which select a discount as is_active does.            *)
(***************************************************************************)
EXTENDS Naturals, FiniteSets

CONSTANTS
  Menus,
  Price,       \* of each menu
  Orders,      \* transactions that create an order
  Carts,       \* the sets of menus that are ordered
  Editors,     \* devices with the form of the discount
  Terms,       \* [scope, type, value, cap, min]; a cap of 0 is none
  MaxVersion   \* bound: changes of the discount

ASSUME DiscountAssumption ==
  /\ Price \in [Menus -> Nat] /\ MaxVersion \in Nat \ {0}
  /\ IsFiniteSet(Menus) /\ Carts \subseteq SUBSET Menus
  /\ \A t \in Terms : /\ t.scope \in {"ORDER", "ITEM"} /\ t.type \in {"PERCENTAGE", "FIXED"}
                      /\ t.value \in Nat \ {0} /\ t.cap \in Nat /\ t.min \in Nat
                      /\ t.type = "PERCENTAGE" => t.value <= 100

VARIABLES
  discount,  \* the row: [live, active, terms, version]
  menus,     \* its menus, empty unless the scope is ITEM
  form,      \* of each editor: what it has read
  order      \* of each transaction: what it has read and decided

vars == <<discount, menus, form, order>>

(* The sum of the prices, as the size of a set with an element per rupiah. *)
Rupiah(cart) == UNION {{m} \X (1 .. Price[m]) : m \in cart}
Subtotal(cart) == Cardinality(Rupiah(cart))
Eligible(t, ms, cart) == IF t.scope = "ITEM" THEN cart \cap ms ELSE cart
Lower(a, b) == IF a < b THEN a ELSE b

-----------------------------------------------------------------------------
(* Calculate.                                                              *)

Matches(active, t, ms, cart) ==
  /\ active /\ Subtotal(cart) >= t.min
  /\ t.scope = "ITEM" => Subtotal(Eligible(t, ms, cart)) > 0

(* Variant: a percentage without its cap.                                  *)
AmountUncapped(t, ms, cart) ==
  LET base == Subtotal(Eligible(t, ms, cart))
      percent == (base * t.value) \div 100
  IN Lower(IF t.type = "FIXED" THEN Lower(t.value, base) ELSE percent, Subtotal(cart))

Amount(t, ms, cart) ==
  LET base == Subtotal(Eligible(t, ms, cart))
      percent == (base * t.value) \div 100
      given == IF t.type = "FIXED" THEN Lower(t.value, base)
               ELSE IF t.cap > 0 THEN Lower(percent, t.cap) ELSE percent
  IN Lower(given, Subtotal(cart))

-----------------------------------------------------------------------------
Init ==
  /\ \E t \in Terms :
       /\ discount = [live |-> TRUE, active |-> TRUE, terms |-> t, version |-> 1]
       /\ IF t.scope = "ITEM" THEN menus \in (SUBSET Menus) \ {{}} ELSE menus = {}
  /\ form = [e \in Editors |-> [phase |-> "closed"]]
  /\ order = [o \in Orders |-> [phase |-> "none"]]

(* Variant: an order takes no lock.                                        *)
NeverLocked == TRUE

(* The share lock of an order that has read the row keeps it as it is.     *)
Unlocked == \A o \in Orders : order[o].phase # "priced"

Editable == discount.live /\ Unlocked /\ discount.version < MaxVersion

(* GetByID and List: the row, then the menus, each for itself.             *)
ReadRow(e) ==
  /\ form[e].phase \in {"closed", "open"} /\ discount.live
  /\ form' = [form EXCEPT ![e] = [phase |-> "row", row |-> discount]]
  /\ UNCHANGED <<discount, menus, order>>

ReadMenus(e) ==
  /\ form[e].phase = "row"
  /\ form' = [form EXCEPT ![e] = [phase |-> "open", row |-> form[e].row, menus |-> menus]]
  /\ UNCHANGED <<discount, menus, order>>

(* Variant: the version is not compared.                                   *)
SaveAnyway(e, t, ms) ==
  /\ form[e].phase = "open" /\ Editable
  /\ discount' = [discount EXCEPT !.terms = t, !.version = @ + 1]
  /\ menus' = IF t.scope = "ITEM" THEN ms ELSE {}
  /\ form' = [form EXCEPT ![e] = [phase |-> "closed"]]
  /\ UNCHANGED order

(* Update: one transaction, with the version the form has.                 *)
Save(e, t, ms) ==
  /\ form[e].phase = "open" /\ Editable
  /\ form[e].row.version = discount.version
  /\ discount' = [discount EXCEPT !.terms = t, !.version = @ + 1]
  /\ menus' = IF t.scope = "ITEM" THEN ms ELSE {}
  /\ form' = [form EXCEPT ![e] = [phase |-> "closed"]]
  /\ UNCHANGED order

(* ErrVersionConflict, or not found.                                       *)
SaveRefused(e) ==
  /\ form[e].phase = "open"
  /\ ~discount.live \/ form[e].row.version # discount.version
  /\ form' = [form EXCEPT ![e] = [phase |-> "closed"]]
  /\ UNCHANGED <<discount, menus, order>>

ToggleActive ==
  /\ Editable
  /\ discount' = [discount EXCEPT !.active = ~@, !.version = @ + 1]
  /\ UNCHANGED <<menus, form, order>>

Delete ==
  /\ discount.live /\ Unlocked
  /\ discount' = [discount EXCEPT !.live = FALSE] /\ menus' = {}
  /\ UNCHANGED <<form, order>>

-----------------------------------------------------------------------------
(* An order is made with the discount.  The first plain SELECT of its      *)
(* transaction fixes what every later plain SELECT sees.                   *)
Begin(o, cart) ==
  /\ order[o].phase = "none"
  /\ order' = [order EXCEPT ![o] = [phase |-> "begun", cart |-> cart, snapshot |-> menus]]
  /\ UNCHANGED <<discount, menus, form>>

(* loadDiscountForOrder, then Calculate: the row is read FOR SHARE, as it  *)
(* is now; the menus are read as they were.                                *)
Priced(o) ==
  LET r == order[o] IN
  /\ r.phase = "begun"
  /\ discount.live /\ Matches(discount.active, discount.terms, r.snapshot, r.cart)
  /\ order' = [order EXCEPT ![o] =
       [phase |-> "priced", cart |-> r.cart, row |-> discount,
        amount |-> Amount(discount.terms, r.snapshot, r.cart)]]
  /\ UNCHANGED <<discount, menus, form>>

(* ErrInvalidInput.                                                        *)
Refused(o) ==
  LET r == order[o] IN
  /\ r.phase = "begun"
  /\ ~(discount.live /\ Matches(discount.active, discount.terms, r.snapshot, r.cart))
  /\ order' = [order EXCEPT ![o] = [phase |-> "none"]]
  /\ UNCHANGED <<discount, menus, form>>

Commit(o) ==
  /\ order[o].phase = "priced"
  /\ order' = [order EXCEPT ![o].phase = "made"]
  /\ UNCHANGED <<discount, menus, form>>

(* A later statement fails, or the request is cut off.                     *)
Rollback(o) ==
  /\ order[o].phase \in {"begun", "priced"}
  /\ order' = [order EXCEPT ![o] = [phase |-> "none"]]
  /\ UNCHANGED <<discount, menus, form>>

Next ==
  \/ ToggleActive \/ Delete
  \/ \E e \in Editors : \/ ReadRow(e) \/ ReadMenus(e) \/ SaveRefused(e)
                        \/ \E t \in Terms, ms \in (SUBSET Menus) \ {{}} : Save(e, t, ms)
  \/ \E o \in Orders : \/ Priced(o) \/ Refused(o) \/ Commit(o) \/ Rollback(o)
                       \/ \E cart \in Carts : Begin(o, cart)

Spec == Init /\ [][Next]_vars

-----------------------------------------------------------------------------
Row == [live : BOOLEAN, active : BOOLEAN, terms : Terms, version : 1 .. MaxVersion]

(* The type of every variable.                                             *)
TypeOK ==
  /\ discount \in Row /\ menus \subseteq Menus
  /\ discount.live => (menus # {} <=> discount.terms.scope = "ITEM")
  /\ \A e \in Editors :
       \/ form[e] = [phase |-> "closed"]
       \/ form[e] \in [phase : {"row"}, row : Row]
       \/ form[e] \in [phase : {"open"}, row : Row, menus : SUBSET Menus]
  /\ \A o \in Orders :
       \/ order[o] = [phase |-> "none"]
       \/ order[o] \in [phase : {"begun"}, cart : Carts, snapshot : SUBSET Menus]
       \/ order[o] \in [phase : {"priced", "made"}, cart : Carts, row : Row, amount : Nat]

(* A form that is saved replaces what it showed: terms, switch and menus,  *)
(* though it read them with two statements ("Discount was modified by      *)
(* another request").                                                      *)
NoLostEdit ==
  [][\A e \in Editors :
       (form[e].phase = "open" /\ form'[e].phase = "closed" /\ discount' # discount)
         => form[e].row = discount /\ form[e].menus = menus]_vars

(* An order is made with the discount as it stands when the order commits: *)
(* never with one changed, switched off or deleted meanwhile.              *)
AppliedIsCurrent ==
  [][\A o \in Orders :
       (order[o].phase = "priced" /\ order'[o].phase = "made")
         => order[o].row = discount /\ discount.live /\ discount.active]_vars

(* A discount takes no more than its terms allow: a percentage of the      *)
(* lines, never more than they cost, than the cap or than the fixed value. *)
WithinTerms ==
  \A o \in Orders :
    LET r == order[o] IN
    r.phase \in {"priced", "made"} =>
      /\ r.amount <= Subtotal(r.cart)
      /\ r.row.terms.type = "FIXED" => r.amount <= r.row.terms.value
      /\ r.row.terms.type = "PERCENTAGE" =>
           /\ 100 * r.amount <= Subtotal(r.cart) * r.row.terms.value
           /\ r.row.terms.cap > 0 => r.amount <= r.row.terms.cap

(* A claim that does not hold.                                             *)

(* An ITEM discount is given on the menus it names.                        *)
GivenOnItsMenus ==
  \A o \in Orders :
    (order[o].phase = "priced" /\ discount.terms.scope = "ITEM")
      => order[o].amount = Amount(discount.terms, menus, order[o].cart)
=============================================================================
