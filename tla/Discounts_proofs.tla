--------------------------- MODULE Discounts_proofs ---------------------------
(* Theorems about Discounts, for any menus, terms, devices and orders.     *)
EXTENDS Discounts, FiniteSetTheorems, TLAPS

Rows == [live : BOOLEAN, active : BOOLEAN, terms : Terms, version : Nat]
PricedAs(r, row) == r = [phase |-> "priced", cart |-> r.cart, row |-> row, amount |-> r.amount]
Forms == {[phase |-> "closed"]}
         \cup [phase : {"row"}, row : Rows]
         \cup [phase : {"open"}, row : Rows, menus : SUBSET Menus]

Types ==
  /\ discount \in Rows /\ menus \subseteq Menus
  /\ form \in [Editors -> Forms]
  /\ DOMAIN order = Orders

LEMMA TypesStart == Init => Types
<1> SUFFICES ASSUME Init
             PROVE  Types
  OBVIOUS
<1>1. discount \in Rows /\ menus \subseteq Menus
  BY DEF Init, Rows
<1>2. form \in [Editors -> Forms]
  BY DEF Init, Forms
<1>3. DOMAIN order = Orders
  BY DEF Init
<1> QED BY <1>1, <1>2, <1>3 DEF Types

(* What each change of the discount writes.                                *)
LEMMA SavedRow ==
  ASSUME discount \in Rows, NEW t \in Terms,
         discount' = [discount EXCEPT !.terms = t, !.version = @ + 1]
  PROVE  /\ discount' \in Rows /\ discount'.live = discount.live
         /\ discount'.version = discount.version + 1
<1>1. discount.version + 1 \in Nat
  BY DEF Rows
<1>2. discount' = [live |-> discount.live, active |-> discount.active, terms |-> t,
                   version |-> discount.version + 1]
  BY DEF Rows
<1> QED BY <1>1, <1>2 DEF Rows

LEMMA ToggledRow ==
  ASSUME discount \in Rows,
         discount' = [discount EXCEPT !.active = ~@, !.version = @ + 1]
  PROVE  /\ discount' \in Rows /\ discount'.version = discount.version + 1
<1>1. discount.version + 1 \in Nat
  BY DEF Rows
<1>2. discount' = [live |-> discount.live, active |-> ~discount.active, terms |-> discount.terms,
                   version |-> discount.version + 1]
  BY DEF Rows
<1> QED BY <1>1, <1>2 DEF Rows

LEMMA DeletedRow ==
  ASSUME discount \in Rows, discount' = [discount EXCEPT !.live = FALSE]
  PROVE  /\ discount' \in Rows /\ ~discount'.live
         /\ discount'.version = discount.version
BY DEF Rows

LEMMA FormShapes ==
  ASSUME NEW f \in Forms
  PROVE  /\ f.phase \in {"closed", "row", "open"}
         /\ f.phase \in {"row", "open"} => f.row \in Rows
         /\ f.phase = "open" => f.menus \subseteq Menus
BY DEF Forms

LEMMA NewForms ==
  /\ [phase |-> "closed"] \in Forms
  /\ \A r \in Rows : /\ [phase |-> "row", row |-> r] \in Forms
                     /\ \A ms \in SUBSET Menus : [phase |-> "open", row |-> r, menus |-> ms] \in Forms
BY DEF Forms

(* The steps, by what they change.                                         *)
LEMMA Kinds ==
  ASSUME [Next]_vars
  PROVE  \/ \E e \in Editors : ReadRow(e) \/ ReadMenus(e) \/ SaveRefused(e)
         \/ \E e \in Editors, t \in Terms, ms \in (SUBSET Menus) \ {{}} : Save(e, t, ms)
         \/ ToggleActive
         \/ Delete
         \/ \E o \in Orders, cart \in Carts : Begin(o, cart)
         \/ \E o \in Orders : Priced(o)
         \/ \E o \in Orders : Refused(o) \/ Rollback(o)
         \/ \E o \in Orders : Commit(o)
         \/ UNCHANGED <<discount, menus, form, order>>
BY DEF Next, vars

LEMMA TypesStep ==
  ASSUME Types, [Next]_vars
  PROVE  Types'
<1> USE DEF Types
<1>1. ASSUME NEW e \in Editors, ReadRow(e)
      PROVE  Types'
  BY <1>1, NewForms DEF ReadRow
<1>2. ASSUME NEW e \in Editors, ReadMenus(e)
      PROVE  Types'
  <2>1. form[e].row \in Rows
    BY <1>2, FormShapes DEF ReadMenus
  <2>2. [phase |-> "open", row |-> form[e].row, menus |-> menus] \in Forms
    BY <2>1, NewForms
  <2> QED BY <1>2, <2>2 DEF ReadMenus
<1>3. ASSUME NEW e \in Editors, SaveRefused(e)
      PROVE  Types'
  BY <1>3, NewForms DEF SaveRefused
<1>4. ASSUME NEW e \in Editors, NEW t \in Terms, NEW ms \in (SUBSET Menus) \ {{}}, Save(e, t, ms)
      PROVE  Types'
  <2>1. discount' \in Rows
    BY <1>4, SavedRow DEF Save
  <2>2. menus' \subseteq Menus
    BY <1>4 DEF Save
  <2>3. form' \in [Editors -> Forms] /\ order' = order
    BY <1>4, NewForms DEF Save
  <2> QED BY <2>1, <2>2, <2>3
<1>5. CASE ToggleActive
  BY <1>5, ToggledRow DEF ToggleActive
<1>6. CASE Delete
  BY <1>6, DeletedRow DEF Delete
<1>7. CASE UNCHANGED <<discount, menus, form>> /\ DOMAIN order' = Orders
  BY <1>7
<1>8. ASSUME NEW o \in Orders, (\E cart \in Carts : Begin(o, cart)) \/ Priced(o) \/ Refused(o)
                               \/ Rollback(o) \/ Commit(o)
      PROVE  UNCHANGED <<discount, menus, form>> /\ DOMAIN order' = Orders
  BY <1>8 DEF Begin, Priced, Refused, Rollback, Commit
<1>9. CASE UNCHANGED <<discount, menus, form, order>>
  BY <1>7, <1>9
<1> QED BY <1>1, <1>2, <1>3, <1>4, <1>5, <1>6, <1>7, <1>8, <1>9, Kinds

-----------------------------------------------------------------------------
(* Orders: the share lock.                                                 *)

(* An order between its read of the row and its commit has the row as it   *)
(* is, live and active.                                                    *)
Holds ==
  \A o \in Orders : order[o].phase = "priced" =>
    PricedAs(order[o], discount) /\ discount.live /\ discount.active

LEMMA HoldsStep ==
  ASSUME Types, Holds, [Next]_vars
  PROVE  Holds'
<1> USE DEF Holds, Types
<1>1. CASE UNCHANGED <<discount, order>>
  BY <1>1 DEF PricedAs
<1>2. CASE UNCHANGED order /\ Unlocked
  BY <1>2 DEF Unlocked
<1>3. ASSUME NEW o \in Orders, NEW cart \in Carts, Begin(o, cart)
      PROVE  Holds'
  BY <1>3 DEF Begin, PricedAs
<1>4. ASSUME NEW o \in Orders, Priced(o)
      PROVE  Holds'
  <2>1. /\ discount.live /\ discount.active /\ discount' = discount
        /\ \E c, a : order' = [order EXCEPT ![o] =
             [phase |-> "priced", cart |-> c, row |-> discount, amount |-> a]]
    BY <1>4 DEF Priced, Matches
  <2>2. PICK c, a : order' = [order EXCEPT ![o] =
             [phase |-> "priced", cart |-> c, row |-> discount, amount |-> a]]
    BY <2>1
  <2>3. PricedAs(order'[o], discount')
    BY <2>1, <2>2 DEF PricedAs
  <2> QED BY <2>1, <2>2, <2>3
<1>5. ASSUME NEW o \in Orders, Refused(o) \/ Rollback(o)
      PROVE  Holds'
  BY <1>5 DEF Refused, Rollback, PricedAs
<1>6. ASSUME NEW o \in Orders, Commit(o)
      PROVE  Holds'
  <2>1. PricedAs(order[o], discount)
    BY <1>6 DEF Commit
  <2>2. order'[o].phase = "made"
    BY <1>6, <2>1 DEF Commit, PricedAs
  <2> QED BY <1>6, <2>2 DEF Commit
<1>7. CASE \E e \in Editors : ReadRow(e) \/ ReadMenus(e) \/ SaveRefused(e)
  BY <1>1, <1>7 DEF ReadRow, ReadMenus, SaveRefused
<1>8. CASE \/ \E e \in Editors, t \in Terms, ms \in (SUBSET Menus) \ {{}} : Save(e, t, ms)
           \/ ToggleActive \/ Delete
  BY <1>2, <1>8 DEF Save, ToggleActive, Delete, Editable
<1> QED BY <1>1, <1>3, <1>4, <1>5, <1>6, <1>7, <1>8, Kinds

(* No order is made with a discount that was changed, switched off or      *)
(* deleted since it was read.                                              *)
THEOREM OrdersUseTheCurrentTerms == Spec => AppliedIsCurrent
<1>1. Init => Types /\ Holds
  <2>1. Init => \A o \in Orders : order[o].phase # "priced"
    BY DEF Init
  <2> QED BY <2>1, TypesStart DEF Holds
<1>2. Types /\ Holds /\ [Next]_vars => (Types /\ Holds)'
  BY TypesStep, HoldsStep
<1>3. Holds /\ [Next]_vars => [\A o \in Orders :
         (order[o].phase = "priced" /\ order'[o].phase = "made")
           => order[o].row = discount /\ discount.live /\ discount.active]_vars
  <2>1. \A r, d : PricedAs(r, d) => r.row = d
    BY DEF PricedAs
  <2> QED BY <2>1 DEF Holds
<1> QED BY <1>1, <1>2, <1>3, PTL DEF Spec, AppliedIsCurrent

-----------------------------------------------------------------------------
(* Forms: the version.                                                     *)

(* A form that has the version of the row has the row, and once it is open *)
(* its menus too: it read both since the last change.                      *)
Fresh ==
  \A e \in Editors :
    /\ form[e].phase \in {"row", "open"} => form[e].row.version <= discount.version
    /\ (/\ form[e].phase \in {"row", "open"} /\ discount.live
        /\ form[e].row.version = discount.version) =>
         /\ form[e].row = discount
         /\ form[e].phase = "open" => form[e].menus = menus

LEMMA FreshStep ==
  ASSUME Types, Fresh, [Next]_vars
  PROVE  Fresh'
<1> USE DEF Fresh, Types
<1>0. discount.version \in Nat /\ \A e \in Editors : form[e].phase \in {"row", "open"} =>
                                                        form[e].row.version \in Nat
  BY FormShapes DEF Rows
<1>1. CASE UNCHANGED <<discount, menus, form>>
  BY <1>1
<1>2. ASSUME NEW e \in Editors, ReadRow(e)
      PROVE  Fresh'
  <2>1. UNCHANGED <<discount, menus>> /\ form' = [form EXCEPT ![e] = [phase |-> "row", row |-> discount]]
    BY <1>2 DEF ReadRow
  <2>2. form'[e].phase = "row" /\ form'[e].row = discount
    BY <2>1
  <2>3. \A d \in Editors : d # e => form'[d] = form[d]
    BY <2>1
  <2> QED BY <1>0, <2>1, <2>2, <2>3
<1>3. ASSUME NEW e \in Editors, ReadMenus(e)
      PROVE  Fresh'
  <2>1. /\ UNCHANGED <<discount, menus>> /\ form[e].phase = "row"
        /\ form' = [form EXCEPT ![e] = [phase |-> "open", row |-> form[e].row, menus |-> menus]]
    BY <1>3 DEF ReadMenus
  <2>2. form'[e].phase = "open" /\ form'[e].row = form[e].row /\ form'[e].menus = menus
    BY <2>1
  <2>3. \A d \in Editors : d # e => form'[d] = form[d]
    BY <2>1
  <2> QED BY <1>0, <2>1, <2>2, <2>3
<1>4. ASSUME NEW e \in Editors, SaveRefused(e)
      PROVE  Fresh'
  <2>1. UNCHANGED <<discount, menus>> /\ form' = [form EXCEPT ![e] = [phase |-> "closed"]]
    BY <1>4 DEF SaveRefused
  <2>2. form'[e].phase = "closed"
    BY <2>1
  <2>3. \A d \in Editors : d # e => form'[d] = form[d]
    BY <2>1
  <2> QED BY <2>1, <2>2, <2>3
<1>5. ASSUME NEW e \in Editors, NEW t \in Terms, NEW ms \in (SUBSET Menus) \ {{}}, Save(e, t, ms)
      PROVE  Fresh'
  <2>1. discount'.version = discount.version + 1
    BY <1>5, SavedRow DEF Save
  <2>2. form' = [form EXCEPT ![e] = [phase |-> "closed"]]
    BY <1>5 DEF Save
  <2>3. form'[e].phase = "closed" /\ \A d \in Editors : d # e => form'[d] = form[d]
    BY <2>2
  <2> QED BY <1>0, <2>1, <2>3
<1>6. CASE ToggleActive
  <2>1. discount'.version = discount.version + 1 /\ form' = form
    BY <1>6, ToggledRow DEF ToggleActive
  <2> QED BY <1>0, <2>1
<1>7. CASE Delete
  <2>1. ~discount'.live /\ discount'.version = discount.version /\ form' = form
    BY <1>7, DeletedRow DEF Delete
  <2> QED BY <2>1
<1>8. CASE \E o \in Orders : (\E cart \in Carts : Begin(o, cart)) \/ Priced(o) \/ Refused(o)
                             \/ Rollback(o) \/ Commit(o)
  BY <1>1, <1>8 DEF Begin, Priced, Refused, Rollback, Commit
<1> QED BY <1>1, <1>2, <1>3, <1>4, <1>5, <1>6, <1>7, <1>8, Kinds

LEMMA SavesAreFresh ==
  ASSUME Types, Fresh, [Next]_vars, NEW e \in Editors,
         form[e].phase = "open", form'[e].phase = "closed", discount' # discount
  PROVE  form[e].row = discount /\ form[e].menus = menus
<1>1. CASE \E d \in Editors, t \in Terms, ms \in (SUBSET Menus) \ {{}} : Save(d, t, ms)
  <2>1. PICK d \in Editors, t \in Terms, ms \in (SUBSET Menus) \ {{}} : Save(d, t, ms)
    BY <1>1
  <2>2. d = e
    BY <2>1 DEF Save, Types
  <2>3. discount.live /\ form[e].row.version = discount.version
    BY <2>1, <2>2 DEF Save, Editable
  <2> QED BY <2>3 DEF Fresh
<1> QED BY <1>1, Kinds DEF ReadRow, ReadMenus, SaveRefused, ToggleActive, Delete, Begin, Priced,
           Refused, Rollback, Commit

(* Two devices with the form of the discount never overwrite one another.  *)
THEOREM EditsAreNotLost == Spec => NoLostEdit
<1>1. Init => Types /\ Fresh
  <2>1. Init => \A e \in Editors : form[e].phase = "closed"
    BY DEF Init
  <2> QED BY <2>1, TypesStart DEF Fresh
<1>2. Types /\ Fresh /\ [Next]_vars => (Types /\ Fresh)'
  BY TypesStep, FreshStep
<1>3. Types /\ Fresh /\ [Next]_vars => [\A e \in Editors :
         (form[e].phase = "open" /\ form'[e].phase = "closed" /\ discount' # discount)
           => form[e].row = discount /\ form[e].menus = menus]_vars
  BY SavesAreFresh
<1> QED BY <1>1, <1>2, <1>3, PTL DEF Spec, NoLostEdit
-----------------------------------------------------------------------------
(* Amounts.                                                                *)

LEMMA RupiahAreFinite ==
  ASSUME NEW cart \in SUBSET Menus
  PROVE  IsFiniteSet(Rupiah(cart))
<1> DEFINE f == [m \in cart |-> {m} \X (1 .. Price[m])]
           S == {{m} \X (1 .. Price[m]) : m \in cart}
<1>1. IsFiniteSet(cart)
  BY FS_Subset, DiscountAssumption
<1>2. f \in Surjection(cart, S)
  BY DEF Surjection
<1>3. IsFiniteSet(S)
  BY <1>1, <1>2, FS_Surjection
<1>4. \A m \in cart : IsFiniteSet({m} \X (1 .. Price[m]))
  <2> TAKE m \in cart
  <2>1. Price[m] \in Int /\ 1 \in Int
    BY DiscountAssumption
  <2>2. IsFiniteSet(1 .. Price[m])
    BY <2>1, FS_Interval
  <2>3. IsFiniteSet({m})
    BY FS_Singleton
  <2> QED BY <2>2, <2>3, FS_Product
<1>5. \A T \in S : IsFiniteSet(T)
  BY <1>4
<1> QED BY <1>3, <1>5, FS_UNION DEF Rupiah

(* Part of a cart costs no more than the cart.                             *)
LEMMA SubtotalIsMonotone ==
  ASSUME NEW cart \in SUBSET Menus, NEW part \in SUBSET cart
  PROVE  Subtotal(part) \in Nat /\ Subtotal(cart) \in Nat /\ Subtotal(part) <= Subtotal(cart)
<1>1. IsFiniteSet(Rupiah(cart)) /\ IsFiniteSet(Rupiah(part))
  BY RupiahAreFinite
<1>2. Rupiah(part) \in SUBSET Rupiah(cart)
  BY DEF Rupiah
<1> QED BY <1>1, <1>2, FS_Subset, FS_CardinalityType DEF Subtotal

LEMMA LowerIsLower ==
  ASSUME NEW a \in Nat, NEW b \in Nat
  PROVE  Lower(a, b) \in Nat /\ Lower(a, b) <= a /\ Lower(a, b) <= b
BY DEF Lower

LEMMA PercentOfPart ==
  ASSUME NEW base \in Nat, NEW total \in Nat, base <= total, NEW value \in Nat
  PROVE  /\ (base * value) \div 100 \in Nat
         /\ 100 * ((base * value) \div 100) <= total * value
<1>1. base * value \in Nat /\ total * value \in Nat
  OBVIOUS
<1>2. base * value <= total * value
  <2>1. PICK d \in Nat : total = base + d
    BY total - base \in Nat, total = base + (total - base)
  <2>2. total * value = base * value + d * value /\ d * value \in Nat
    BY <2>1
  <2> QED BY <1>1, <2>2
<1>3. \A p \in Nat : p \div 100 \in Nat /\ 100 * (p \div 100) <= p
  OBVIOUS
<1> QED BY <1>1, <1>2, <1>3

(* What WithinTerms says of one order.                                     *)
AmountWithin(t, cart, amount) ==
  /\ amount <= Subtotal(cart)
  /\ t.type = "FIXED" => amount <= t.value
  /\ t.type = "PERCENTAGE" =>
       /\ 100 * amount <= Subtotal(cart) * t.value
       /\ t.cap > 0 => amount <= t.cap

LEMMA AmountsAreWithin ==
  ASSUME NEW t \in Terms, NEW ms, NEW cart \in Carts
  PROVE  Amount(t, ms, cart) \in Nat /\ AmountWithin(t, cart, Amount(t, ms, cart))
<1> DEFINE base == Subtotal(Eligible(t, ms, cart))
           total == Subtotal(cart)
           percent == (base * t.value) \div 100
           given == IF t.type = "FIXED" THEN Lower(t.value, base)
                    ELSE IF t.cap > 0 THEN Lower(percent, t.cap) ELSE percent
<1>1. t.value \in Nat /\ t.cap \in Nat /\ t.type \in {"PERCENTAGE", "FIXED"}
  BY DiscountAssumption
<1>2. base \in Nat /\ total \in Nat /\ base <= total
  <2>1. cart \in SUBSET Menus
    BY DiscountAssumption
  <2>2. Eligible(t, ms, cart) \in SUBSET cart
    BY DEF Eligible
  <2> QED BY <2>1, <2>2, SubtotalIsMonotone
<1>3. percent \in Nat /\ 100 * percent <= total * t.value
  BY <1>1, <1>2, PercentOfPart
<1>4. /\ given \in Nat
      /\ t.type = "FIXED" => given <= t.value
      /\ t.type = "PERCENTAGE" => given <= percent /\ (t.cap > 0 => given <= t.cap)
  <2>1. /\ Lower(t.value, base) \in Nat /\ Lower(t.value, base) <= t.value
        /\ Lower(percent, t.cap) \in Nat
        /\ Lower(percent, t.cap) <= percent /\ Lower(percent, t.cap) <= t.cap
    <3> HIDE DEF percent, base
    <3> QED BY <1>1, <1>2, <1>3, LowerIsLower
  <2>2. CASE t.type = "FIXED"
    <3> HIDE DEF percent, base
    <3> QED BY <2>1, <2>2
  <2>3. CASE t.type # "FIXED"
    <3> HIDE DEF percent, base
    <3> QED BY <1>1, <1>3, <2>1, <2>3
  <2> QED BY <2>2, <2>3
<1>5. Amount(t, ms, cart) = Lower(given, total)
  BY DEF Amount
<1>6. /\ Amount(t, ms, cart) \in Nat
      /\ Amount(t, ms, cart) <= given /\ Amount(t, ms, cart) <= total
  <2> HIDE DEF given, total
  <2> QED BY <1>2, <1>4, <1>5, LowerIsLower
<1>7. t.type = "PERCENTAGE" => 100 * Amount(t, ms, cart) <= total * t.value
  <2> DEFINE a == Amount(t, ms, cart)
             bound == total * t.value
  <2>1. bound \in Nat
    <3> HIDE DEF total
    <3> QED BY <1>1, <1>2
  <2> HIDE DEF a, percent, given, bound
  <2>2. a \in Nat /\ a <= given
    BY <1>6 DEF a
  <2>3. 100 * percent <= bound
    BY <1>3 DEF bound
  <2>4. t.type = "PERCENTAGE" => 100 * a <= bound
    BY <1>3, <1>4, <2>1, <2>2, <2>3
  <2> QED BY <2>4 DEF a, bound
<1> DEFINE a == Amount(t, ms, cart)
<1>8. /\ t.type = "FIXED" => a <= t.value
      /\ t.type = "PERCENTAGE" /\ t.cap > 0 => a <= t.cap
  <2>1. a \in Nat /\ a <= given
    BY <1>6
  <2> HIDE DEF a, given
  <2> QED BY <1>1, <1>4, <2>1
<1> QED BY <1>6, <1>7, <1>8 DEF AmountWithin
(* An order between its pricing and its commit, and one that is made, has  *)
(* an amount within the terms it was priced with.                          *)
PricedOrders ==
  {r \in [phase : {"priced", "made"}, cart : Carts, row : Rows, amount : Nat] :
     AmountWithin(r.row.terms, r.cart, r.amount)}

OrderRecords ==
  {[phase |-> "none"]}
  \cup [phase : {"begun"}, cart : Carts, snapshot : SUBSET Menus]
  \cup PricedOrders

OrdersWithin == order \in [Orders -> OrderRecords]

LEMMA OrderShapes ==
  ASSUME NEW r \in OrderRecords
  PROVE  /\ r.phase = "begun" => r.cart \in Carts
         /\ r.phase \in {"priced", "made"} => r \in PricedOrders
BY DEF OrderRecords, PricedOrders

LEMMA PricedOrder ==
  ASSUME NEW row \in Rows, NEW ms, NEW cart \in Carts
  PROVE  [phase |-> "priced", cart |-> cart, row |-> row, amount |-> Amount(row.terms, ms, cart)]
           \in PricedOrders
<1>1. row.terms \in Terms
  BY DEF Rows
<1>2. PICK a \in Nat : a = Amount(row.terms, ms, cart) /\ AmountWithin(row.terms, cart, a)
  BY <1>1, AmountsAreWithin
<1> QED BY <1>2 DEF PricedOrders

LEMMA MadeOrder ==
  ASSUME NEW r \in PricedOrders
  PROVE  [r EXCEPT !.phase = "made"] \in PricedOrders
BY DEF PricedOrders

LEMMA OrdersWithinStep ==
  ASSUME Types, OrdersWithin, [Next]_vars
  PROVE  OrdersWithin'
<1> USE DEF OrdersWithin
<1>1. CASE UNCHANGED order
  BY <1>1
<1>2. ASSUME NEW o \in Orders, NEW cart \in Carts, Begin(o, cart)
      PROVE  OrdersWithin'
  <2>1. [phase |-> "begun", cart |-> cart, snapshot |-> menus] \in OrderRecords
    BY DEF Types, OrderRecords
  <2> QED BY <1>2, <2>1 DEF Begin
<1>3. ASSUME NEW o \in Orders, Priced(o)
      PROVE  OrdersWithin'
  <2>1. order[o].cart \in Carts
    BY <1>3, OrderShapes DEF Priced
  <2>2. [phase |-> "priced", cart |-> order[o].cart, row |-> discount,
         amount |-> Amount(discount.terms, order[o].snapshot, order[o].cart)] \in PricedOrders
    BY <2>1, PricedOrder DEF Types
  <2> QED BY <1>3, <2>2 DEF Priced, OrderRecords
<1>4. ASSUME NEW o \in Orders, Refused(o) \/ Rollback(o)
      PROVE  OrdersWithin'
  <2>1. [phase |-> "none"] \in OrderRecords
    BY DEF OrderRecords
  <2> QED BY <1>4, <2>1 DEF Refused, Rollback
<1>5. ASSUME NEW o \in Orders, Commit(o)
      PROVE  OrdersWithin'
  <2>1. order[o] \in PricedOrders
    BY <1>5, OrderShapes DEF Commit
  <2>2. [order[o] EXCEPT !.phase = "made"] \in OrderRecords
    BY <2>1, MadeOrder DEF OrderRecords
  <2> QED BY <1>5, <2>2 DEF Commit
<1>6. CASE \/ \E e \in Editors : ReadRow(e) \/ ReadMenus(e) \/ SaveRefused(e)
           \/ \E e \in Editors, t \in Terms, ms \in (SUBSET Menus) \ {{}} : Save(e, t, ms)
           \/ ToggleActive \/ Delete
  BY <1>1, <1>6 DEF ReadRow, ReadMenus, SaveRefused, Save, ToggleActive, Delete
<1> QED BY <1>1, <1>2, <1>3, <1>4, <1>5, <1>6, Kinds

LEMMA OrdersWithinStart == Init => OrdersWithin
BY DEF Init, OrdersWithin, OrderRecords

(* Whatever the prices, the carts and the terms: no order is given more    *)
(* than the lines it applies to cost, than its percentage of the cart,     *)
(* than the cap or than the fixed value.                                   *)
THEOREM DiscountsStayWithinTerms == Spec => []WithinTerms
<1>1. Init => Types /\ OrdersWithin
  BY TypesStart, OrdersWithinStart
<1>2. Types /\ OrdersWithin /\ [Next]_vars => (Types /\ OrdersWithin)'
  BY TypesStep, OrdersWithinStep
<1>3. OrdersWithin => WithinTerms
  <2> SUFFICES ASSUME OrdersWithin, NEW o \in Orders, order[o].phase \in {"priced", "made"}
               PROVE  AmountWithin(order[o].row.terms, order[o].cart, order[o].amount)
    BY DEF WithinTerms, AmountWithin
  <2>1. order[o] \in PricedOrders
    BY OrderShapes DEF OrdersWithin
  <2> QED BY <2>1 DEF PricedOrders
<1> QED BY <1>1, <1>2, <1>3, PTL DEF Spec
-----------------------------------------------------------------------------
(* What the types leave of TypeOK: versions up to the bound, and menus     *)
(* exactly when the scope is ITEM.                                         *)

Bounds ==
  /\ discount.version \in 1 .. MaxVersion
  /\ discount.live => (menus # {} <=> discount.terms.scope = "ITEM")
  /\ \A e \in Editors : form[e].phase \in {"row", "open"} => form[e].row.version \in 1 .. MaxVersion
  /\ \A o \in Orders : order[o].phase \in {"priced", "made"} => order[o].row.version \in 1 .. MaxVersion

LEMMA BoundsStart == Init => Bounds
<1> SUFFICES ASSUME Init
             PROVE  Bounds
  OBVIOUS
<1>1. PICK t \in Terms :
        /\ discount = [live |-> TRUE, active |-> TRUE, terms |-> t, version |-> 1]
        /\ IF t.scope = "ITEM" THEN menus \in (SUBSET Menus) \ {{}} ELSE menus = {}
  BY DEF Init
<1>2. discount.version = 1 /\ discount.terms = t
  BY <1>1
<1>3. 1 \in 1 .. MaxVersion
  BY DiscountAssumption
<1>4. \A e \in Editors : form[e].phase = "closed"
  BY DEF Init
<1>5. \A o \in Orders : order[o].phase = "none"
  BY DEF Init
<1> QED BY <1>1, <1>2, <1>3, <1>4, <1>5 DEF Bounds

LEMMA BoundsStep ==
  ASSUME Types, OrdersWithin, Bounds, [Next]_vars
  PROVE  Bounds'
<1> USE DEF Bounds
<1>1. discount.version \in Nat /\ MaxVersion \in Nat
  BY DiscountAssumption DEF Types, Rows
<1>2. ASSUME NEW e \in Editors, ReadRow(e)
      PROVE  Bounds'
  <2>1. form' = [form EXCEPT ![e] = [phase |-> "row", row |-> discount]]
    BY <1>2 DEF ReadRow
  <2>2. form'[e].row = discount /\ \A d \in Editors : d # e => form'[d] = form[d]
    BY <2>1 DEF Types
  <2> QED BY <1>2, <2>2 DEF ReadRow
<1>3. ASSUME NEW e \in Editors, ReadMenus(e)
      PROVE  Bounds'
  <2>1. /\ form' = [form EXCEPT ![e] = [phase |-> "open", row |-> form[e].row, menus |-> menus]]
        /\ form[e].phase = "row"
    BY <1>3 DEF ReadMenus
  <2>2. form'[e].row = form[e].row /\ \A d \in Editors : d # e => form'[d] = form[d]
    BY <2>1 DEF Types
  <2> QED BY <1>3, <2>1, <2>2 DEF ReadMenus
<1>4. ASSUME NEW e \in Editors,
             form' = [form EXCEPT ![e] = [phase |-> "closed"]]
      PROVE  \A d \in Editors : form'[d].phase \in {"row", "open"} =>
                                  form'[d].row.version \in 1 .. MaxVersion
  <2>1. form'[e].phase = "closed" /\ \A d \in Editors : d # e => form'[d] = form[d]
    BY <1>4 DEF Types
  <2> QED BY <2>1
<1>5. ASSUME NEW e \in Editors, SaveRefused(e)
      PROVE  Bounds'
  BY <1>4, <1>5 DEF SaveRefused
<1>6. ASSUME NEW e \in Editors, NEW t \in Terms, NEW ms \in (SUBSET Menus) \ {{}}, Save(e, t, ms)
      PROVE  Bounds'
  <2>1. discount'.version = discount.version + 1 /\ discount'.terms = t
    BY <1>6, SavedRow DEF Save, Types, Rows
  <2>2. discount'.version \in 1 .. MaxVersion
    BY <1>1, <1>6, <2>1 DEF Save, Editable
  <2>3. menus' # {} <=> t.scope = "ITEM"
    BY <1>6 DEF Save
  <2> QED BY <1>4, <1>6, <2>1, <2>2, <2>3 DEF Save
<1>7. CASE ToggleActive
  <2>1. /\ discount'.version = discount.version + 1
        /\ discount'.terms = discount.terms /\ discount'.live = discount.live
    BY <1>7, ToggledRow DEF ToggleActive, Types, Rows
  <2>2. discount'.version \in 1 .. MaxVersion
    BY <1>1, <1>7, <2>1 DEF ToggleActive, Editable
  <2> QED BY <1>7, <2>1, <2>2 DEF ToggleActive
<1>8. CASE Delete
  BY <1>8, DeletedRow DEF Delete, Types
<1>9. ASSUME NEW o \in Orders,
             \/ \E cart \in Carts : Begin(o, cart)
             \/ Priced(o) \/ Refused(o) \/ Rollback(o) \/ Commit(o)
      PROVE  Bounds'
  <2>1. \A p \in Orders : p # o => order'[p] = order[p]
    BY <1>9 DEF Begin, Priced, Refused, Rollback, Commit, Types
  <2>2. order'[o].phase \in {"priced", "made"} => order'[o].row.version \in 1 .. MaxVersion
    <3>1. CASE \E cart \in Carts : Begin(o, cart)
      BY <3>1 DEF Begin, Types
    <3>2. CASE Refused(o) \/ Rollback(o)
      BY <3>2 DEF Refused, Rollback, Types
    <3>3. CASE Priced(o)
      <4>1. order'[o].row = discount
        BY <3>3 DEF Priced, Types
      <4> QED BY <4>1
    <3>4. CASE Commit(o)
      <4>1. order[o] \in PricedOrders
        BY <3>4, OrderShapes DEF Commit, OrdersWithin
      <4>2. order'[o].row = order[o].row
        BY <3>4, <4>1 DEF Commit, PricedOrders, OrdersWithin
      <4> QED BY <3>4, <4>2 DEF Commit
    <3> QED BY <1>9, <3>1, <3>2, <3>3, <3>4
  <2>3. UNCHANGED <<discount, menus, form>>
    BY <1>9 DEF Begin, Priced, Refused, Rollback, Commit
  <2> QED BY <2>1, <2>2, <2>3
<1>10. CASE UNCHANGED <<discount, menus, form, order>>
  BY <1>10
<1> QED BY <1>2, <1>3, <1>5, <1>6, <1>7, <1>8, <1>9, <1>10, Kinds

LEMMA BoundedRow ==
  ASSUME NEW r \in Rows, r.version \in 1 .. MaxVersion
  PROVE  r \in Row
BY DEF Rows, Row

(* Type correctness.                                                       *)
THEOREM DiscountsTypeCorrect == Spec => []TypeOK
<1>1. Init => Types /\ OrdersWithin /\ Bounds
  BY TypesStart, OrdersWithinStart, BoundsStart
<1>2. Types /\ OrdersWithin /\ Bounds /\ [Next]_vars => (Types /\ OrdersWithin /\ Bounds)'
  BY TypesStep, OrdersWithinStep, BoundsStep
<1>3. Types /\ OrdersWithin /\ Bounds => TypeOK
  <2> SUFFICES ASSUME Types, OrdersWithin, Bounds
               PROVE  TypeOK
    OBVIOUS
  <2>1. discount \in Row /\ menus \subseteq Menus
    BY BoundedRow DEF Types, Bounds
  <2>2. ASSUME NEW e \in Editors
        PROVE  \/ form[e] = [phase |-> "closed"]
               \/ form[e] \in [phase : {"row"}, row : Row]
               \/ form[e] \in [phase : {"open"}, row : Row, menus : SUBSET Menus]
    <3>1. form[e] \in Forms
      BY DEF Types
    <3>2. form[e].phase \in {"row", "open"} => form[e].row \in Row
      BY <3>1, FormShapes, BoundedRow DEF Bounds
    <3> QED BY <3>1, <3>2 DEF Forms
  <2>3. ASSUME NEW o \in Orders
        PROVE  \/ order[o] = [phase |-> "none"]
               \/ order[o] \in [phase : {"begun"}, cart : Carts, snapshot : SUBSET Menus]
               \/ order[o] \in [phase : {"priced", "made"}, cart : Carts, row : Row, amount : Nat]
    <3>1. order[o] \in OrderRecords
      BY DEF OrdersWithin
    <3>2. ASSUME order[o] \in PricedOrders
          PROVE  order[o].row \in Row
      BY <3>2, BoundedRow DEF PricedOrders, Bounds
    <3>3. order[o] \in PricedOrders =>
            order[o] \in [phase : {"priced", "made"}, cart : Carts, row : Row, amount : Nat]
      BY <3>2 DEF PricedOrders
    <3> QED BY <3>1, <3>3 DEF OrderRecords
  <2> QED BY <2>1, <2>2, <2>3 DEF TypeOK, Bounds
<1> QED BY <1>1, <1>2, <1>3, PTL DEF Spec
=============================================================================
