---------------------------- MODULE OrderPage_proofs ----------------------------
(* Theorems about OrderPage, for any menu, cart, number of keys, previews, *)
(* polls and reloads.                                                      *)
EXTENDS OrderPage, TLAPS

(* The records of the page's posts and of the server's orders.             *)
IsPost(p) == p \in [key : Keys, body : {p.body}, at : {p.at}, live : BOOLEAN]
IsOrder(o) == o \in [key : Keys, body : {o.body}, stage : {o.stage}]

Typed ==
  /\ \A p \in posts : IsPost(p)
  /\ \A o \in orders : IsOrder(o)
  /\ isSubmitting \in BOOLEAN /\ enabled \in BOOLEAN

(* While an order is under way the button is off.                          *)
SubmitInv ==
  /\ \A p \in posts : p.live => isSubmitting
  /\ isSubmitting => ~enabled
  /\ OneLivePost

(* What was posted carries the stored key until its order is confirmed, in *)
(* whichever life of the page it was posted.                               *)
KeyInv ==
  /\ \A p \in posts : p.key = storedKey \/ (p.key \in acknowledged /\ ~p.live)
  /\ UnknownOrderIsRetried

Inv == Typed /\ SubmitInv /\ EnabledOnlyIfOrderable /\ KeyInv

-----------------------------------------------------------------------------
(* What the updates of the records change and keep.                        *)
LEMMA PostUpdates ==
  ASSUME NEW p, IsPost(p), NEW at
  PROVE  /\ IsPost([p EXCEPT !.at = at])
         /\ [p EXCEPT !.at = at].key = p.key /\ [p EXCEPT !.at = at].live = p.live
         /\ IsPost([p EXCEPT !.live = FALSE])
         /\ [p EXCEPT !.live = FALSE].key = p.key /\ [p EXCEPT !.live = FALSE].live = FALSE
<1> DEFINE Record(k, b, a, l) == [key |-> k, body |-> b, at |-> a, live |-> l]
           answered == [p EXCEPT !.at = at]
           lost == [p EXCEPT !.live = FALSE]
<1>1. p.key \in Keys /\ p.live \in BOOLEAN
  BY DEF IsPost
<1>2. ASSUME NEW B, NEW A, NEW L, p \in [key : Keys, body : B, at : A, live : L]
      PROVE  answered = Record(p.key, p.body, at, p.live)
  BY <1>2
<1>3. ASSUME NEW B, NEW A, NEW L, p \in [key : Keys, body : B, at : A, live : L], NEW x
      PROVE  [p EXCEPT !.live = x] = Record(p.key, p.body, p.at, x)
  BY <1>3
<1>4. p \in [key : Keys, body : {p.body}, at : {p.at}, live : BOOLEAN]
  BY DEF IsPost
<1>5. answered = Record(p.key, p.body, at, p.live) /\ lost = Record(p.key, p.body, p.at, FALSE)
  BY <1>2, <1>3, <1>4
<1> HIDE DEF answered, lost
<1>6. IsPost(answered) /\ answered.key = p.key /\ answered.live = p.live
  BY <1>1, <1>5 DEF IsPost
<1>7. IsPost(lost) /\ lost.key = p.key /\ lost.live = FALSE
  BY <1>1, <1>5 DEF IsPost
<1> QED BY <1>6, <1>7 DEF answered, lost

LEMMA OrderUpdates ==
  ASSUME NEW o, IsOrder(o), NEW n
  PROVE  IsOrder([o EXCEPT !.stage = n]) /\ [o EXCEPT !.stage = n].key = o.key
<1>1. [o EXCEPT !.stage = n] = [key |-> o.key, body |-> o.body, stage |-> n]
  BY DEF IsOrder
<1>2. o.key \in Keys
  BY DEF IsOrder
<1> QED BY <1>1, <1>2 DEF IsOrder

-----------------------------------------------------------------------------
(* What leaves the submission alone and sets the button by the rules.      *)
LEMMA ButtonStep ==
  ASSUME Inv, UNCHANGED <<posts, orders, isSubmitting, storedKey, acknowledged>>,
         enabled' \in BOOLEAN, enabled' => enabled \/ ~isSubmitting,
         EnabledOnlyIfOrderable'
  PROVE  Inv'
BY DEF Inv, Typed, SubmitInv, OneLivePost, KeyInv, UnknownOrderIsRetried

(* The cart changes: the button stays as it is over a cart that is not     *)
(* empty, and goes off over an empty one.                                  *)
LEMMA CartStep ==
  ASSUME Inv, updateCartPreview(cart'), inputs' = inputs,
         UNCHANGED <<submission, server>>
  PROVE  Inv'
<1>1. enabled' = FALSE \/ (enabled' = enabled /\ cart' # << >>)
  BY DEF updateCartPreview
<1>2. EnabledOnlyIfOrderable'
  BY <1>1 DEF Inv, EnabledOnlyIfOrderable, Orderable
<1>3. enabled' \in BOOLEAN /\ (enabled' => enabled \/ ~isSubmitting)
  <2>1. CASE enabled' = FALSE
    BY <2>1
  <2>2. CASE enabled' = enabled
    BY <2>2 DEF Inv, Typed
  <2> QED BY <1>1, <2>1, <2>2
<1> QED BY <1>2, <1>3, ButtonStep DEF submission, server

LEMMA ValidateStep ==
  ASSUME Inv, validateInputs(cart', inputs'),
         UNCHANGED <<posts, orders, isSubmitting, storedKey, acknowledged>>
  PROVE  Inv'
<1>1. enabled' \in BOOLEAN /\ (enabled' => ~isSubmitting /\ Orderable(cart', inputs'))
  BY DEF validateInputs, Orderable, Inv, Typed
<1>2. EnabledOnlyIfOrderable'
  BY <1>1 DEF EnabledOnlyIfOrderable, Orderable
<1> QED BY <1>1, <1>2, ButtonStep

-----------------------------------------------------------------------------
LEMMA SubmitStep == ASSUME Inv, NEW key \in Keys, submitOrder(key) PROVE Inv'
<1> DEFINE p == [key |-> key, body |-> [customer |-> inputs, items |-> cart],
                 at |-> "sent", live |-> TRUE]
<1>1. /\ posts' = posts \cup {p} /\ isSubmitting' = TRUE /\ enabled' = FALSE
      /\ storedKey' = key /\ orders' = orders /\ acknowledged' = acknowledged
      /\ storedKey = NoKey \/ key = storedKey
      /\ enabled
  BY DEF submitOrder, server
<1>2. IsPost(p) /\ p.live /\ p.key = key
  BY DEF IsPost
<1> HIDE DEF p
<1>3. Typed'
  BY <1>1, <1>2 DEF Inv, Typed
<1>4. \A q \in posts : ~q.live
  BY <1>1 DEF Inv, SubmitInv
<1>5. SubmitInv'
  BY <1>1, <1>4 DEF SubmitInv, OneLivePost
<1>6. EnabledOnlyIfOrderable'
  BY <1>1 DEF EnabledOnlyIfOrderable
<1>7. \A q \in posts : q.key \in Keys
  BY DEF Inv, Typed, IsPost
<1>8. \A o \in orders : o.key \in Keys
  BY DEF Inv, Typed, IsOrder
<1>9. KeyInv'
  BY <1>1, <1>2, <1>4, <1>7, <1>8, PageKeysAssumption DEF Inv, KeyInv, UnknownOrderIsRetried
<1> QED BY <1>3, <1>5, <1>6, <1>9 DEF Inv

(* The server answers a post: if the page still waits it gets the answer.  *)
LEMMA AnsweredPosts ==
  ASSUME Inv, NEW p \in posts, NEW at, Answered(p, at)
  PROVE  \A q \in posts' : /\ IsPost(q)
                           /\ q \in posts \/ (p.live /\ q.live /\ q.key = p.key /\ q = [p EXCEPT !.at = at])
                           /\ q.live /\ p.live => q = [p EXCEPT !.at = at]
<1>1. IsPost(p)
  BY DEF Inv, Typed
<1>2. ASSUME p.live
      PROVE  /\ IsPost([p EXCEPT !.at = at]) /\ [p EXCEPT !.at = at].live
             /\ [p EXCEPT !.at = at].key = p.key
  <2>1. p.live = TRUE
    BY <1>1, <1>2 DEF IsPost
  <2>2. /\ IsPost([p EXCEPT !.at = at]) /\ [p EXCEPT !.at = at].live = p.live
        /\ [p EXCEPT !.at = at].key = p.key
    BY <1>1, PostUpdates
  <2> QED BY <2>1, <2>2
<1>3. ASSUME NEW q \in posts, q.live, p.live PROVE q = p
  BY <1>3 DEF Inv, SubmitInv, OneLivePost
<1> QED BY <1>2, <1>3 DEF Answered, Inv, Typed

LEMMA CreateStep == ASSUME Inv, NEW p \in posts, CreateWeb(p) PROVE Inv'
<1>1. /\ isSubmitting' = isSubmitting /\ enabled' = enabled /\ cart' = cart /\ inputs' = inputs
      /\ storedKey' = storedKey /\ acknowledged' = acknowledged
  BY DEF CreateWeb, checkout
<1>2. PICK at \in {"accepted", "refused"} : Answered(p, at)
  BY DEF CreateWeb
<1> DEFINE n == [key |-> p.key, body |-> p.body, stage |-> 1]
<1>3. \/ orders' = orders
      \/ (\A o \in orders : o.key # p.key) /\ orders' = orders \cup {n}
  BY DEF CreateWeb
<1>4. IsPost(p)
  BY DEF Inv, Typed
<1>5. IsOrder(n) /\ n.key = p.key
  BY <1>4 DEF IsOrder, IsPost
<1> HIDE DEF n
<1>6. Typed'
  BY <1>1, <1>2, <1>3, <1>5, AnsweredPosts DEF Inv, Typed
<1>7. SubmitInv'
  BY <1>1, <1>2, AnsweredPosts DEF Inv, SubmitInv, OneLivePost
<1>8. EnabledOnlyIfOrderable'
  BY <1>1 DEF Inv, EnabledOnlyIfOrderable
<1>9. p.key = storedKey \/ p.key \in acknowledged
  BY DEF Inv, KeyInv
<1>10. KeyInv'
  BY <1>1, <1>2, <1>3, <1>5, <1>9, AnsweredPosts DEF Inv, KeyInv, UnknownOrderIsRetried
<1> QED BY <1>6, <1>7, <1>8, <1>10 DEF Inv

(* The attempt ends: no post is waited for any more.                       *)
LEMMA NoneLive ==
  ASSUME Inv, NEW p \in posts, p.live
  PROVE  \A q \in posts \ {p} : ~q.live
BY DEF Inv, SubmitInv, OneLivePost, Typed, IsPost

LEMMA SuccessStep == ASSUME Inv, NEW p \in posts, SubmitSucceeds(p) PROVE Inv'
<1>1. /\ posts' = posts \ {p} /\ isSubmitting' = FALSE /\ storedKey' = NoKey
      /\ orders' = orders /\ acknowledged' = acknowledged \cup {p.key} /\ p.live
      /\ cart' = cart /\ inputs' = inputs
      /\ enabled' = (Orderable(cart, inputs) /\ ~isSubmitting')
  BY DEF SubmitSucceeds, EndSubmit, validateInputs
<1>2. \A q \in posts' : q \in posts /\ ~q.live
  BY <1>1, NoneLive
<1>3. Typed'
  BY <1>1 DEF Inv, Typed, Orderable
<1>4. SubmitInv'
  BY <1>1, <1>2 DEF SubmitInv, OneLivePost
<1>5. EnabledOnlyIfOrderable'
  BY <1>1 DEF EnabledOnlyIfOrderable
<1>6. p.key = storedKey
  BY <1>1 DEF Inv, KeyInv
<1>7. KeyInv'
  BY <1>1, <1>2, <1>6 DEF Inv, KeyInv, UnknownOrderIsRetried
<1> QED BY <1>3, <1>4, <1>5, <1>7 DEF Inv

LEMMA FailStep == ASSUME Inv, NEW p \in posts, SubmitFails(p) PROVE Inv'
<1> DEFINE lost == [p EXCEPT !.live = FALSE]
<1>1. /\ posts' = posts \ {p} \/ posts' = (posts \ {p}) \cup {lost}
      /\ isSubmitting' = FALSE /\ storedKey' = storedKey
      /\ orders' = orders /\ acknowledged' = acknowledged /\ p.live
      /\ cart' = cart /\ inputs' = inputs
      /\ enabled' = (Orderable(cart, inputs) /\ ~isSubmitting')
  BY DEF SubmitFails, EndSubmit, validateInputs
<1>2. IsPost(p)
  BY DEF Inv, Typed
<1>3. IsPost(lost) /\ ~lost.live /\ lost.key = p.key
  BY <1>2, PostUpdates
<1> HIDE DEF lost
<1>4. \A q \in posts' : ~q.live /\ (q \in posts \/ q = lost)
  BY <1>1, <1>3, NoneLive
<1>5. Typed'
  BY <1>1, <1>3 DEF Inv, Typed, Orderable
<1>6. SubmitInv'
  BY <1>1, <1>4 DEF SubmitInv, OneLivePost
<1>7. EnabledOnlyIfOrderable'
  BY <1>1 DEF EnabledOnlyIfOrderable
<1>8. p.key = storedKey
  BY <1>1 DEF Inv, KeyInv
<1>9. KeyInv'
  BY <1>1, <1>3, <1>4, <1>8 DEF Inv, KeyInv, UnknownOrderIsRetried
<1> QED BY <1>5, <1>6, <1>7, <1>9 DEF Inv

(* The kitchen moves an order on: its key stays.                           *)
LEMMA AdvanceStep == ASSUME Inv, NEW o \in orders, Advance(o) PROVE Inv'
<1> DEFINE n == [o EXCEPT !.stage = o.stage + 1]
<1>1. /\ orders' = (orders \ {o}) \cup {n}
      /\ posts' = posts /\ isSubmitting' = isSubmitting /\ enabled' = enabled
      /\ cart' = cart /\ inputs' = inputs
      /\ storedKey' = storedKey /\ acknowledged' = acknowledged
  BY DEF Advance, checkout, submission
<1>2. IsOrder(o)
  BY DEF Inv, Typed
<1>3. IsOrder(n) /\ n.key = o.key
  BY <1>2, OrderUpdates
<1> HIDE DEF n
<1>4. Typed' /\ SubmitInv' /\ EnabledOnlyIfOrderable'
  BY <1>1, <1>3 DEF Inv, Typed, SubmitInv, OneLivePost, EnabledOnlyIfOrderable
<1>5. KeyInv'
  BY <1>1, <1>3 DEF Inv, KeyInv, UnknownOrderIsRetried
<1> QED BY <1>4, <1>5 DEF Inv

(* A reload forgets the posts under way, not their key.                    *)
LEMMA ReloadStep == ASSUME Inv, Reload PROVE Inv'
<1>1. /\ posts' = {[p EXCEPT !.live = FALSE] : p \in posts}
      /\ isSubmitting' = FALSE /\ enabled' = FALSE
      /\ storedKey' = storedKey /\ acknowledged' = acknowledged /\ orders' = orders
  BY DEF Reload, server
<1>2. ASSUME NEW p \in posts
      PROVE  /\ IsPost([p EXCEPT !.live = FALSE]) /\ ~[p EXCEPT !.live = FALSE].live
             /\ [p EXCEPT !.live = FALSE].key = p.key
  BY PostUpdates DEF Inv, Typed
<1>3. ASSUME NEW q \in posts'
      PROVE  IsPost(q) /\ ~q.live /\ \E p \in posts : q.key = p.key
  BY <1>1, <1>2
<1>4. Typed' /\ SubmitInv' /\ EnabledOnlyIfOrderable'
  BY <1>1, <1>3 DEF Inv, Typed, SubmitInv, OneLivePost, EnabledOnlyIfOrderable
<1>5. KeyInv'
  BY <1>1, <1>3 DEF Inv, KeyInv, UnknownOrderIsRetried
<1> QED BY <1>4, <1>5 DEF Inv

-----------------------------------------------------------------------------
LEMMA InitInv == Init => Inv
<1> SUFFICES ASSUME Init PROVE Inv
  OBVIOUS
<1>1. posts = {} /\ orders = {} /\ isSubmitting = FALSE /\ enabled = FALSE
  BY DEF Init, Opened
<1> QED BY <1>1 DEF Inv, Typed, SubmitInv, OneLivePost, EnabledOnlyIfOrderable, KeyInv,
                    UnknownOrderIsRetried

LEMMA InvStep == Inv /\ [Next]_vars => Inv'
<1> SUFFICES ASSUME Inv, [Next]_vars PROVE Inv'
  OBVIOUS
<1>1. ASSUME NEW i \in Items, NEW q \in 0 .. MaxQuantity, changeQty(i, q) PROVE Inv'
  BY <1>1, CartStep DEF changeQty
<1>2. ASSUME NEW i \in Items, NEW opt \in Options, SelectOption(i, opt) PROVE Inv'
  BY <1>2, CartStep DEF SelectOption
<1>3. ASSUME NEW c \in previews, PreviewArrives(c) PROVE Inv'
  <2>1. validateInputs(cart', inputs')
    BY <1>3 DEF PreviewArrives, validateInputs
  <2> QED BY <1>3, <2>1, ValidateStep DEF PreviewArrives, server
<1>4. ASSUME NEW c \in previews, PreviewFails(c) PROVE Inv'
  BY <1>4, ButtonStep DEF PreviewFails, submission, server, EnabledOnlyIfOrderable
<1>5. ASSUME NEW i \in Customers \cup {Nobody}, TypeInputs(i) PROVE Inv'
  <2>1. validateInputs(cart', inputs')
    BY <1>5 DEF TypeInputs, validateInputs
  <2> QED BY <1>5, <2>1, ValidateStep DEF TypeInputs, server
<1>6. CASE resetToOrderView /\ UNCHANGED <<submission, server>>
  <2>1. enabled' = FALSE
    BY <1>6 DEF resetToOrderView, updateCartPreview
  <2> QED BY <1>6, <2>1, ButtonStep DEF EnabledOnlyIfOrderable, submission, server
<1>7. CASE UNCHANGED <<checkout, submission, server>>
  BY <1>7, ButtonStep DEF checkout, submission, server, Inv, Typed, EnabledOnlyIfOrderable
<1>8. CASE LoadMenu \/ Poll \/ NewOrder
  BY <1>6, <1>7, <1>8 DEF LoadMenu, Poll, NewOrder
<1>9. ASSUME NEW p \in polls,
             GetByPublicToken(p) \/ PollArrives(p) \/ PollMisses(p) \/ LosePoll(p)
      PROVE  Inv'
  BY <1>6, <1>7, <1>9 DEF GetByPublicToken, PollArrives, PollMisses, LosePoll
<1>10. ASSUME NEW key \in Keys, submitOrder(key) PROVE Inv'
  BY <1>10, SubmitStep
<1>11. ASSUME NEW p \in posts, CreateWeb(p) \/ SubmitSucceeds(p) \/ SubmitFails(p) PROVE Inv'
  BY <1>11, CreateStep, SuccessStep, FailStep
<1>12. ASSUME NEW o \in orders, Advance(o) PROVE Inv'
  BY <1>12, AdvanceStep
<1>13. CASE Reload
  BY <1>13, ReloadStep
<1>14. CASE UNCHANGED vars
  BY <1>7, <1>14 DEF vars
<1> QED BY <1>1, <1>2, <1>3, <1>4, <1>5, <1>8, <1>9, <1>10, <1>11, <1>12, <1>13, <1>14 DEF Next

(* However answers and keystrokes interleave, the page never has two       *)
(* orders under way.                                                       *)
THEOREM OneOrderUnderWay == Spec => []OneLivePost
<1>1. Inv => OneLivePost
  BY DEF Inv, SubmitInv
<1> QED BY <1>1, InitInv, InvStep, PTL DEF Spec

(* The button is on only over a cart and customer that can be ordered.     *)
THEOREM ButtonMeansOrderable == Spec => []EnabledOnlyIfOrderable
<1>1. Inv => EnabledOnlyIfOrderable
  BY DEF Inv
<1> QED BY <1>1, InitInv, InvStep, PTL DEF Spec

(* Lost answers and reloads never make a second order: what the page was   *)
(* not told of is the order of the stored key.                             *)
THEOREM RetryFindsItsOrder == Spec => []UnknownOrderIsRetried
<1>1. Inv => UnknownOrderIsRetried
  BY DEF Inv, KeyInv
<1> QED BY <1>1, InitInv, InvStep, PTL DEF Spec
-----------------------------------------------------------------------------
(* Types.                                                                  *)

Carts == Seq(Entry)
Posts == [key : Keys, body : Body, at : {"sent", "accepted", "refused"}, live : BOOLEAN]
Orders == [key : Keys, body : Body, stage : 1 .. Stages]
Polls == [token : Tokens, answer : {"none", "missing"}, stage : 0 .. Stages]
         \cup [token : Keys, answer : {"found"}, stage : 0 .. Stages]

CheckoutTypes ==
  /\ menu \in {"loading", "loaded", "failed"}
  /\ cart \in Carts /\ inputs \in Customers \cup {Nobody}
  /\ previews \subseteq Carts \ {<< >>}
  /\ shown = CalculationError \/ \E c \in Carts : shown = Total(c)
  /\ enabled \in BOOLEAN
  /\ reloads \in 0 .. MaxReloads

SubmissionTypes ==
  /\ isSubmitting \in BOOLEAN /\ posts \subseteq Posts
  /\ storedKey \in Keys \cup {NoKey} /\ drawn \subseteq Keys
  /\ orders \subseteq Orders /\ acknowledged \subseteq Keys

(* Whoever tracks has a token to track.                                    *)
TrackingTypes ==
  /\ view \in {"order", "tracking"}
  /\ token \in Tokens \cup {NoKey} /\ storedToken \in Tokens \cup {NoKey}
  /\ view = "tracking" => token \in Tokens
  /\ polls \subseteq Polls
  /\ badge \in [order : Keys \cup {NoKey}, stage : 0 .. Stages]

Types == CheckoutTypes /\ SubmissionTypes /\ TrackingTypes

LEMMA EmptyCart == << >> \in Carts
BY DEF Carts

LEMMA WithoutType ==
  ASSUME NEW S, NEW s \in Seq(S), NEW n \in DOMAIN s
  PROVE  Without(s, n) \in Seq(S)
<1>1. n \in 1 .. Len(s) /\ Len(s) \in Nat
  OBVIOUS
<1>2. SubSeq(s, 1, n - 1) \in Seq(S)
  BY <1>1
<1>3. SubSeq(s, n + 1, Len(s)) \in Seq(S)
  BY <1>1
<1> QED BY <1>2, <1>3 DEF Without

LEMMA PlaceIsThere ==
  ASSUME NEW item, At(item) # {}
  PROVE  Place(item) \in DOMAIN cart
BY DEF At, Place

LEMMA WithType ==
  ASSUME cart \in Carts, NEW item \in Items, NEW quantity \in 0 .. MaxQuantity,
         NEW chosen \in Seq(Options), At(item) = {} => quantity # 0
  PROVE  With(item, quantity, chosen) \in Carts
<1> DEFINE entry == [menu_id |-> item, quantity |-> quantity, option_ids |-> chosen]
<1>1. quantity # 0 => entry \in Entry
  BY PageBoundsAssumption DEF Entry
<1>2. CASE At(item) = {}
  <2>1. Append(cart, entry) \in Carts
    <3> HIDE DEF entry
    <3> QED BY <1>1, <1>2 DEF Carts
  <2> QED BY <1>2, <2>1 DEF With
<1>3. CASE At(item) # {} /\ quantity = 0
  BY <1>3, PlaceIsThere, WithoutType DEF With, Carts
<1>4. CASE At(item) # {} /\ quantity # 0
  <2>1. [cart EXCEPT ![Place(item)] = entry] \in Carts
    <3> HIDE DEF entry
    <3> QED BY <1>1, <1>4, PlaceIsThere DEF Carts
  <2> QED BY <1>4, <2>1 DEF With
<1> QED BY <1>2, <1>3, <1>4

LEMMA ChosenType ==
  ASSUME cart \in Carts, NEW item \in Items
  PROVE  /\ Chosen(item) \in Seq(Options)
         /\ At(item) # {} => Quantity(item) \in 1 .. MaxQuantity
<1>1. CASE At(item) = {}
  BY <1>1 DEF Chosen
<1>2. CASE At(item) # {}
  <2>1. cart[Place(item)] \in Entry
    BY <1>2, PlaceIsThere DEF Carts
  <2> QED BY <1>2, <2>1 DEF Chosen, Quantity, Entry
<1> QED BY <1>1, <1>2

LEMMA ChangedCart ==
  ASSUME cart \in Carts, NEW item \in Items, NEW quantity \in 0 .. MaxQuantity,
         changeQty(item, quantity)
  PROVE  cart' \in Carts
<1>1. At(item) = {} => quantity # 0
  BY DEF changeQty, Quantity
<1> QED BY <1>1, ChosenType, WithType DEF changeQty

LEMMA OptionCart ==
  ASSUME cart \in Carts, NEW item \in Items, NEW opt \in Options,
         SelectOption(item, opt)
  PROVE  cart' \in Carts
<1> DEFINE chosen == Chosen(item)
           place == CHOOSE n \in DOMAIN chosen : chosen[n] = opt
           toggled == IF \E n \in DOMAIN chosen : chosen[n] = opt
                      THEN Without(chosen, place) ELSE Append(chosen, opt)
           options == IF MaxSelect = 1 THEN <<opt>> ELSE toggled
           quantity == IF At(item) = {} THEN 1 ELSE Quantity(item)
<1>1. chosen \in Seq(Options)
  BY ChosenType
<1>2. toggled \in Seq(Options)
  <2> HIDE DEF chosen
  <2>1. CASE \E n \in DOMAIN chosen : chosen[n] = opt
    <3>1. place \in DOMAIN chosen
      BY <2>1
    <3> HIDE DEF place
    <3> QED BY <1>1, <2>1, <3>1, WithoutType
  <2>2. CASE ~\E n \in DOMAIN chosen : chosen[n] = opt
    BY <1>1, <2>2
  <2> QED BY <2>1, <2>2
<1>3. options \in Seq(Options)
  <2> HIDE DEF toggled
  <2> QED BY <1>2
<1>4. quantity \in 0 .. MaxQuantity /\ quantity # 0
  BY ChosenType, PageBoundsAssumption
<1>5. cart' = With(item, quantity, options)
  BY DEF SelectOption
<1> HIDE DEF options, quantity
<1> QED BY <1>3, <1>4, <1>5, WithType

LEMMA PreviewTypes ==
  ASSUME CheckoutTypes, NEW c \in Carts, updateCartPreview(c)
  PROVE  /\ previews' \subseteq Carts \ {<< >>}
         /\ shown' = CalculationError \/ \E d \in Carts : shown' = Total(d)
         /\ enabled' \in BOOLEAN
<1>1. CASE c = << >> /\ shown' = Total(<< >>) /\ enabled' = FALSE /\ previews' = previews
  BY <1>1, EmptyCart DEF CheckoutTypes
<1>2. CASE c # << >> /\ previews' = previews \cup {c} /\ UNCHANGED <<shown, enabled>>
  BY <1>2 DEF CheckoutTypes
<1> QED BY <1>1, <1>2 DEF updateCartPreview
LEMMA CheckoutStep ==
  ASSUME Types, [Next]_vars
  PROVE  CheckoutTypes'
<1> USE DEF CheckoutTypes
<1>0. CheckoutTypes /\ SubmissionTypes
  BY DEF Types
<1>1. CASE UNCHANGED <<checkout, menu, reloads>>
  BY <1>0, <1>1 DEF checkout
<1>2. CASE LoadMenu
  BY <1>0, <1>2 DEF LoadMenu, checkout
<1>3. ASSUME cart' \in Carts, updateCartPreview(cart'), inputs' \in Customers \cup {Nobody},
             UNCHANGED <<menu, reloads>>
      PROVE  CheckoutTypes'
  BY <1>0, <1>3, PreviewTypes
<1>4. ASSUME NEW i \in Items, NEW q \in 0 .. MaxQuantity, changeQty(i, q)
      PROVE  CheckoutTypes'
  <2>1. cart' \in Carts
    BY <1>0, <1>4, ChangedCart
  <2> QED BY <1>0, <1>3, <1>4, <2>1 DEF changeQty
<1>5. ASSUME NEW i \in Items, NEW opt \in Options, SelectOption(i, opt)
      PROVE  CheckoutTypes'
  <2>1. cart' \in Carts
    BY <1>0, <1>5, OptionCart
  <2> QED BY <1>0, <1>3, <1>5, <2>1 DEF SelectOption
<1>6. ASSUME NEW c \in previews, PreviewArrives(c) \/ PreviewFails(c)
      PROVE  CheckoutTypes'
  <2>1. enabled' \in BOOLEAN
    BY <1>6 DEF PreviewArrives, PreviewFails, validateInputs
  <2>2. shown' = CalculationError \/ shown' = Total(c)
    BY <1>6 DEF PreviewArrives, PreviewFails
  <2>3. c \in Carts /\ previews' = previews \ {c} /\ UNCHANGED <<menu, cart, inputs, reloads>>
    BY <1>0, <1>6 DEF PreviewArrives, PreviewFails
  <2> QED BY <1>0, <2>1, <2>2, <2>3
<1>7. ASSUME NEW i \in Customers \cup {Nobody}, TypeInputs(i)
      PROVE  CheckoutTypes'
  BY <1>0, <1>7 DEF TypeInputs, validateInputs
<1>8. ASSUME NEW key \in Keys, submitOrder(key)
      PROVE  CheckoutTypes'
  BY <1>0, <1>8 DEF submitOrder
<1>9. ASSUME NEW p \in posts, SubmitSucceeds(p) \/ SubmitFails(p)
      PROVE  CheckoutTypes'
  BY <1>0, <1>9 DEF SubmitSucceeds, SubmitFails, EndSubmit, validateInputs
<1>10. CASE NewOrder \/ \E p \in polls : PollMisses(p)
  <2>1. /\ cart' = << >> /\ inputs' = Nobody /\ updateCartPreview(<< >>)
        /\ UNCHANGED <<menu, reloads>>
    BY <1>10 DEF NewOrder, PollMisses, resetToOrderView
  <2> QED BY <1>3, <2>1, EmptyCart
<1>11. CASE Reload
  <2>1. reloads' \in 0 .. MaxReloads
    BY <1>0, <1>11, PageBoundsAssumption DEF Reload
  <2> QED BY <1>11, <2>1, EmptyCart DEF Reload
<1>12. ASSUME \/ \E p \in posts : CreateWeb(p)
              \/ Poll
              \/ \E p \in polls : GetByPublicToken(p) \/ PollArrives(p) \/ LosePoll(p)
              \/ \E o \in orders : Advance(o)
              \/ UNCHANGED vars
       PROVE  UNCHANGED <<checkout, menu, reloads>>
  BY <1>12 DEF CreateWeb, Poll, GetByPublicToken, PollArrives, LosePoll, Advance, vars
<1> QED BY <1>1, <1>2, <1>4, <1>5, <1>6, <1>7, <1>8, <1>9, <1>10, <1>11, <1>12 DEF Next

LEMMA PostTypes ==
  ASSUME NEW p \in Posts
  PROVE  /\ \A at \in {"sent", "accepted", "refused"} : [p EXCEPT !.at = at] \in Posts
         /\ [p EXCEPT !.live = FALSE] \in Posts
<1>1. ASSUME NEW no \in BOOLEAN
      PROVE  [p EXCEPT !.live = no] \in Posts
  BY DEF Posts
<1> QED BY <1>1 DEF Posts

LEMMA SubmissionStep ==
  ASSUME Types, [Next]_vars
  PROVE  SubmissionTypes'
<1> USE DEF SubmissionTypes
<1>0. CheckoutTypes /\ SubmissionTypes
  BY DEF Types
<1>1. CASE UNCHANGED <<submission, server>>
  BY <1>0, <1>1 DEF submission, server
<1>2. ASSUME NEW c \in previews, PreviewArrives(c)
      PROVE  UNCHANGED <<submission, server>>
  BY <1>2 DEF PreviewArrives, submission
<1>3. ASSUME NEW i \in Customers \cup {Nobody}, TypeInputs(i)
      PROVE  UNCHANGED <<submission, server>>
  BY <1>3 DEF TypeInputs, submission
<1>4. ASSUME NEW key \in Keys, submitOrder(key)
      PROVE  SubmissionTypes'
  <2>1. inputs \in Customers /\ cart \in Seq(Entry)
    BY <1>0, <1>4 DEF submitOrder, Orderable, CheckoutTypes, Carts
  <2>2. [customer |-> inputs, items |-> cart] \in Body
    BY <2>1 DEF Body
  <2>3. ASSUME NEW body \in Body, NEW yes \in BOOLEAN
        PROVE  [key |-> key, body |-> body, at |-> "sent", live |-> yes] \in Posts
    BY DEF Posts
  <2>4. posts' \subseteq Posts
    BY <1>0, <1>4, <2>2, <2>3 DEF submitOrder
  <2> QED BY <1>0, <1>4, <2>4 DEF submitOrder, server
<1>5. ASSUME NEW p \in posts, CreateWeb(p)
      PROVE  SubmissionTypes'
  <2>1. p \in Posts
    BY <1>0
  <2>2. posts' \subseteq Posts
    <3>1. Answered(p, "accepted") \/ Answered(p, "refused")
      BY <1>5 DEF CreateWeb
    <3>2. [p EXCEPT !.at = "accepted"] \in Posts /\ [p EXCEPT !.at = "refused"] \in Posts
      BY <2>1, PostTypes
    <3> QED BY <1>0, <3>1, <3>2 DEF Answered
  <2>3. [key |-> p.key, body |-> p.body, stage |-> 1] \in Orders
    BY <2>1, PageBoundsAssumption DEF Posts, Orders
  <2>4. orders' \subseteq Orders
    BY <1>0, <1>5, <2>3 DEF CreateWeb
  <2> QED BY <1>0, <1>5, <2>2, <2>4 DEF CreateWeb
<1>6. ASSUME NEW p \in posts, SubmitSucceeds(p)
      PROVE  SubmissionTypes'
  <2>1. p.key \in Keys
    BY <1>0 DEF Posts
  <2> QED BY <1>0, <1>6, <2>1 DEF SubmitSucceeds, EndSubmit
<1>7. ASSUME NEW p \in posts, SubmitFails(p)
      PROVE  SubmissionTypes'
  <2>1. posts' \subseteq Posts
    BY <1>0, <1>7, PostTypes DEF SubmitFails
  <2> QED BY <1>0, <1>7, <2>1 DEF SubmitFails, EndSubmit
<1>8. ASSUME NEW o \in orders, Advance(o)
      PROVE  SubmissionTypes'
  <2>1. o \in Orders /\ o.stage + 1 \in 1 .. Stages
    BY <1>0, <1>8, PageBoundsAssumption DEF Advance, Orders
  <2>2. [o EXCEPT !.stage = @ + 1] \in Orders
    BY <2>1 DEF Orders
  <2> QED BY <1>0, <1>8, <2>2 DEF Advance, submission
<1>9. CASE Reload
  <2>1. posts' \subseteq Posts
    BY <1>0, <1>9, PostTypes DEF Reload
  <2> QED BY <1>0, <1>9, <2>1 DEF Reload, server
<1>10. ASSUME \/ LoadMenu
              \/ \E i \in Items, q \in 0 .. MaxQuantity : changeQty(i, q)
              \/ \E i \in Items, opt \in Options : SelectOption(i, opt)
              \/ \E c \in previews : PreviewFails(c)
              \/ Poll
              \/ \E p \in polls : GetByPublicToken(p) \/ PollArrives(p) \/ PollMisses(p) \/ LosePoll(p)
              \/ NewOrder
              \/ UNCHANGED vars
       PROVE  UNCHANGED <<submission, server>>
  BY <1>10 DEF LoadMenu, changeQty, SelectOption, PreviewFails, Poll, GetByPublicToken, PollArrives,
     PollMisses, LosePoll, NewOrder, vars
<1> QED BY <1>1, <1>2, <1>3, <1>4, <1>5, <1>6, <1>7, <1>8, <1>9, <1>10 DEF Next

LEMMA PollTypes ==
  ASSUME NEW p \in Polls
  PROVE  /\ p.token \in Tokens /\ p.stage \in 0 .. Stages
         /\ p.answer \in {"none", "missing", "found"}
         /\ p.answer = "found" => p.token \in Keys
         /\ [p EXCEPT !.answer = "missing"] \in [token : Tokens, answer : {"missing"}, stage : 0 .. Stages]
         /\ \A n \in 0 .. Stages : p.token \in Keys =>
              [p EXCEPT !.answer = "found", !.stage = n]
                \in [token : Keys, answer : {"found"}, stage : 0 .. Stages]
BY DEF Polls, Tokens

LEMMA NewPoll ==
  ASSUME NEW t \in Tokens
  PROVE  [token |-> t, answer |-> "none", stage |-> 0] \in Polls
BY PageBoundsAssumption DEF Polls

LEMMA TrackingStep ==
  ASSUME Types, [Next]_vars
  PROVE  TrackingTypes'
<1> USE DEF TrackingTypes
<1>0. SubmissionTypes /\ TrackingTypes
  BY DEF Types
<1>1. CASE UNCHANGED tracking
  BY <1>0, <1>1 DEF tracking
<1>2. ASSUME NEW p \in posts, SubmitSucceeds(p)
      PROVE  TrackingTypes'
  <2>1. p.key \in Tokens
    BY <1>0 DEF SubmissionTypes, Posts, Tokens
  <2> QED BY <1>0, <1>2, <2>1, NewPoll DEF SubmitSucceeds, loadTracking
<1>3. CASE Poll
  BY <1>0, <1>3, NewPoll DEF Poll
<1>4. ASSUME NEW p \in polls, GetByPublicToken(p)
      PROVE  TrackingTypes'
  <2>1. ASSUME NEW o \in orders, o.key = p.token
        PROVE  [p EXCEPT !.answer = "found", !.stage = o.stage] \in Polls
    <3>1. o.stage \in 0 .. Stages /\ p.token \in Keys
      BY <1>0, <2>1 DEF SubmissionTypes, Orders
    <3> QED BY <1>0, <3>1, PollTypes DEF Polls
  <2>2. [p EXCEPT !.answer = "missing"] \in Polls
    BY <1>0, PollTypes DEF Polls
  <2>3. polls' \subseteq Polls
    BY <1>0, <1>4, <2>1, <2>2 DEF GetByPublicToken
  <2> QED BY <1>0, <1>4, <2>3 DEF GetByPublicToken
<1>5. ASSUME NEW p \in polls, PollArrives(p)
      PROVE  TrackingTypes'
  <2>1. p.token \in Keys /\ p.stage \in 0 .. Stages
    BY <1>0, <1>5, PollTypes DEF PollArrives
  <2> QED BY <1>0, <1>5, <2>1 DEF PollArrives
<1>6. ASSUME NEW p \in polls, PollMisses(p) \/ LosePoll(p)
      PROVE  TrackingTypes'
  BY <1>0, <1>6 DEF PollMisses, LosePoll, resetToOrderView
<1>7. CASE NewOrder
  BY <1>0, <1>7 DEF NewOrder, resetToOrderView
<1>8. CASE Reload
  <2>1. NoBadge \in [order : Keys \cup {NoKey}, stage : 0 .. Stages]
    BY PageBoundsAssumption DEF NoBadge
  <2> QED BY <1>0, <1>8, <2>1, NewPoll DEF Reload
<1>9. ASSUME \/ LoadMenu
             \/ \E i \in Items, q \in 0 .. MaxQuantity : changeQty(i, q)
             \/ \E i \in Items, opt \in Options : SelectOption(i, opt)
             \/ \E c \in previews : PreviewArrives(c) \/ PreviewFails(c)
             \/ \E i \in Customers \cup {Nobody} : TypeInputs(i)
             \/ \E key \in Keys : submitOrder(key)
             \/ \E p \in posts : CreateWeb(p) \/ SubmitFails(p)
             \/ \E o \in orders : Advance(o)
             \/ UNCHANGED vars
      PROVE  UNCHANGED tracking
  BY <1>9 DEF LoadMenu, changeQty, SelectOption, PreviewArrives, PreviewFails, TypeInputs, submitOrder,
     CreateWeb, SubmitFails, Advance, vars
<1> QED BY <1>1, <1>2, <1>3, <1>4, <1>5, <1>6, <1>7, <1>8, <1>9 DEF Next

LEMMA TypesStart == Init => Types
<1> SUFFICES ASSUME NEW link \in {NoKey, BadLink}, Opened(link)
             PROVE  Types
  BY DEF Init
<1>1. CheckoutTypes
  <2>1. \E c \in Carts : shown = Total(c)
    BY EmptyCart DEF Opened
  <2>2. cart = << >> /\ reloads = 0 /\ enabled = FALSE
    BY DEF Opened
  <2>4. cart \in Carts
    BY <2>2, EmptyCart
  <2>5. reloads \in 0 .. MaxReloads
    BY <2>2, PageBoundsAssumption
  <2>6. enabled \in BOOLEAN
    BY <2>2
  <2>3. /\ menu \in {"loading", "loaded", "failed"} /\ inputs \in Customers \cup {Nobody}
        /\ previews = {}
    BY DEF Opened
  <2> QED BY <2>1, <2>3, <2>4, <2>5, <2>6 DEF CheckoutTypes
<1>2. SubmissionTypes
  BY DEF Opened, SubmissionTypes
<1>3. TrackingTypes
  <2>1. NoBadge \in [order : Keys \cup {NoKey}, stage : 0 .. Stages]
    BY PageBoundsAssumption DEF NoBadge
  <2>2. link # NoKey => link \in Tokens
    BY DEF Tokens
  <2> QED BY <2>1, <2>2, NewPoll DEF Opened, TrackingTypes
<1> QED BY <1>1, <1>2, <1>3 DEF Types

(* Type correctness: carts, what is posted of them and what the server     *)
(* keeps are entries within the bounds, and only known tokens are tracked. *)
THEOREM TypeCorrect == Spec => []TypeOK
<1>1. Types /\ [Next]_vars => Types'
  BY CheckoutStep, SubmissionStep, TrackingStep DEF Types
<1>2. Types => TypeOK
  <2> SUFFICES ASSUME Types
               PROVE  TypeOK
    OBVIOUS
  <2>1. \A c \in previews : c \in Seq(Entry) /\ c # << >>
    BY DEF Types, CheckoutTypes, Carts
  <2>2. shown = CalculationError \/ (shown.kind = "total" /\ shown.of \in Seq(Entry))
    BY DEF Types, CheckoutTypes, Carts, Total
  <2>3. \A p \in posts :
          /\ p.key \in Keys /\ p.body \in Body /\ p.live \in BOOLEAN
          /\ p.at \in {"sent", "accepted", "refused"}
    BY DEF Types, SubmissionTypes, Posts
  <2>4. \A p \in polls : p.token \in Tokens /\ p.answer \in {"none", "found", "missing"}
    BY PollTypes DEF Types, TrackingTypes
  <2>5. badge.order \in Keys \cup {NoKey} /\ badge.stage \in 0 .. Stages
    BY DEF Types, TrackingTypes
  <2>6. \A o \in orders : o.key \in Keys /\ o.body \in Body /\ o.stage \in 1 .. Stages
    BY DEF Types, SubmissionTypes, Orders
  <2> QED BY <2>1, <2>2, <2>3, <2>4, <2>5, <2>6
          DEF TypeOK, Types, CheckoutTypes, SubmissionTypes, TrackingTypes, Carts
<1> QED BY <1>1, <1>2, TypesStart, PTL DEF Spec
=============================================================================
