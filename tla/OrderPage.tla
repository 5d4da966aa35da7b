------------------------------ MODULE OrderPage ------------------------------
(***************************************************************************)
(* The public ordering page (web/app.js) in one browser tab and the public *)
(* endpoints it calls.  Handlers of the page run to their first await;     *)
(* what follows an await is a step of its own, taken when the answer       *)
(* arrives.  Requests overtake each other, answers get lost, and the       *)
(* customer may reload the page at any moment: sessionStorage,             *)
(* localStorage and the address survive, variables do not.                 *)
(***************************************************************************)
EXTENDS Naturals, Sequences, FiniteSets

CONSTANTS
  Items,        \* menu items
  Options,      \* modifier options of an item, in one group
  MaxSelect,    \* max_select of the group
  MaxQuantity,  \* bound: how many of an item a customer puts in the cart
  Customers,    \* valid contents of the name and phone fields
  Nobody,       \* contents that do not validate
  Keys,         \* idempotency keys the page can draw, and the order drawn under each
  NoKey,
  BadLink,      \* a tracking token no order has
  Stages,       \* number of statuses an order passes through
  MaxPreviews,  \* bound: previews under way
  MaxPolls,     \* bound: status requests under way
  MaxReloads    \* bound: reloads of the page

ASSUME PageKeysAssumption == NoKey \notin Keys /\ BadLink \notin Keys /\ BadLink # NoKey
ASSUME CustomersAssumption == Nobody \notin Customers
ASSUME PageBoundsAssumption ==
  MaxQuantity \in Nat \ {0} /\ Stages \in Nat \ {0} /\ MaxReloads \in Nat

VARIABLES
  menu,          \* the catalogue: "loading", "loaded" or "failed"
  cart,          \* the entries of cart, in the order of insertion
  inputs,        \* contents of the name and phone fields
  previews,      \* carts whose price was asked for and not yet answered
  shown,         \* what the summary shows: the total of a cart, or an error
  enabled,       \* the submit button
  isSubmitting,
  posts,         \* orders that were posted and not yet answered
  storedKey,     \* sessionStorage pesenhub_active_idempotency_key
  drawn,         \* keys drawn so far
  view,          \* which of the two views is visible
  token,         \* activeTrackingToken
  storedToken,   \* localStorage pesenhub_tracking_token and the address
  polls,         \* status requests under way
  badge,         \* the order and stage the tracking view shows
  orders,        \* the server's orders: key, body and stage
  acknowledged,  \* orders whose creation was confirmed to the page
  reloads

checkout == <<cart, inputs, previews, shown, enabled>>
submission == <<isSubmitting, posts, storedKey, drawn>>
tracking == <<view, token, storedToken, polls, badge>>
server == <<orders, acknowledged>>
vars == <<menu, checkout, submission, tracking, server, reloads>>

Tokens == Keys \cup {BadLink}

Entry == [menu_id: Items, quantity: 1 .. MaxQuantity, option_ids: Seq(Options)]
Body == [customer: Customers, items: Seq(Entry)]

Total(c) == [kind |-> "total", of |-> c]
CalculationError == [kind |-> "error"]
NoBadge == [order |-> NoKey, stage |-> 0]

TypeOK ==
  /\ menu \in {"loading", "loaded", "failed"}
  /\ cart \in Seq(Entry)
  /\ inputs \in Customers \cup {Nobody}
  /\ \A c \in previews : c \in Seq(Entry) /\ c # <<>>
  /\ shown = CalculationError \/ (shown.kind = "total" /\ shown.of \in Seq(Entry))
  /\ enabled \in BOOLEAN /\ isSubmitting \in BOOLEAN
  /\ \A p \in posts :
       /\ p.key \in Keys /\ p.body \in Body /\ p.live \in BOOLEAN
       /\ p.at \in {"sent", "accepted", "refused"}
  /\ storedKey \in Keys \cup {NoKey} /\ drawn \subseteq Keys
  /\ view \in {"order", "tracking"}
  /\ token \in Tokens \cup {NoKey} /\ storedToken \in Tokens \cup {NoKey}
  /\ \A p \in polls : p.token \in Tokens /\ p.answer \in {"none", "found", "missing"}
  /\ badge.order \in Keys \cup {NoKey} /\ badge.stage \in 0 .. Stages
  /\ \A o \in orders : o.key \in Keys /\ o.body \in Body /\ o.stage \in 1 .. Stages
  /\ acknowledged \subseteq Keys
  /\ reloads \in 0 .. MaxReloads

(* A page that was opened through a tracking link starts by loading it.    *)
Opened(link) ==
  /\ menu = "loading"
  /\ cart = <<>> /\ inputs = Nobody /\ previews = {} /\ shown = Total(<<>>)
  /\ enabled = FALSE /\ isSubmitting = FALSE
  /\ posts = {} /\ storedKey = NoKey /\ drawn = {}
  /\ token = link /\ storedToken = link /\ badge = NoBadge
  /\ view = IF link = NoKey THEN "order" ELSE "tracking"
  /\ polls = IF link = NoKey THEN {} ELSE {[token |-> link, answer |-> "none", stage |-> 0]}
  /\ orders = {} /\ acknowledged = {} /\ reloads = 0

Init == Opened(NoKey) \/ Opened(BadLink)

(* The listeners of the buttons are attached after the catalogue came or   *)
(* failed to.                                                              *)
LoadMenu ==
  /\ menu = "loading"
  /\ menu' \in {"loaded", "failed"}
  /\ UNCHANGED <<checkout, submission, tracking, server, reloads>>

-----------------------------------------------------------------------------
(* The cart and its preview.                                               *)

Orderable(c, i) == i # Nobody /\ c # <<>>

(* Variant: the button comes back to life while an order is under way.     *)
validateInputsOnly(c, i) == enabled' = Orderable(c, i)

validateInputs(c, i) == enabled' = (Orderable(c, i) /\ ~isSubmitting')

(* Up to the await.                                                        *)
updateCartPreview(c) ==
  \/ /\ c = <<>>
     /\ shown' = Total(<<>>)
     /\ enabled' = FALSE
     /\ UNCHANGED previews
  \/ /\ c # <<>>
     /\ previews' = previews \cup {c}
     /\ Cardinality(previews') <= MaxPreviews
     /\ UNCHANGED <<shown, enabled>>

At(item) == {n \in DOMAIN cart : cart[n].menu_id = item}
Place(item) == CHOOSE n \in At(item) : TRUE
Quantity(item) == IF At(item) = {} THEN 0 ELSE cart[Place(item)].quantity
Chosen(item) == IF At(item) = {} THEN <<>> ELSE cart[Place(item)].option_ids

Without(s, n) == SubSeq(s, 1, n - 1) \o SubSeq(s, n + 1, Len(s))

(* The cart with the item's entry added at the end, replaced or removed.   *)
With(item, quantity, chosen) ==
  LET entry == [menu_id |-> item, quantity |-> quantity, option_ids |-> chosen]
  IN  IF At(item) = {} THEN Append(cart, entry)
      ELSE IF quantity = 0 THEN Without(cart, Place(item))
      ELSE [cart EXCEPT ![Place(item)] = entry]

Browsing == view = "order" /\ menu = "loaded"

changeQty(item, quantity) ==
  /\ Browsing
  /\ quantity \in {Quantity(item) + 1, Quantity(item) - 1}
  /\ cart' = With(item, quantity, Chosen(item))
  /\ updateCartPreview(cart')
  /\ UNCHANGED <<menu, inputs, submission, tracking, server, reloads>>

(* Choosing an option of an item that is not in the cart puts one there.   *)
SelectOption(item, opt) ==
  /\ Browsing
  /\ LET chosen == Chosen(item)
         toggled == IF \E n \in DOMAIN chosen : chosen[n] = opt
                    THEN Without(chosen, CHOOSE n \in DOMAIN chosen : chosen[n] = opt)
                    ELSE Append(chosen, opt)
     IN  cart' = With(item, IF At(item) = {} THEN 1 ELSE Quantity(item),
                      IF MaxSelect = 1 THEN <<opt>> ELSE toggled)
  /\ updateCartPreview(cart')
  /\ UNCHANGED <<menu, inputs, submission, tracking, server, reloads>>

(* Variant: a price makes the button active.                               *)
PreviewEnables(c) ==
  /\ c \in previews
  /\ previews' = previews \ {c}
  /\ shown' = Total(c)
  /\ enabled' = ~isSubmitting
  /\ UNCHANGED <<menu, cart, inputs, submission, tracking, server, reloads>>

(* After the await, whatever the cart is by now.                           *)
PreviewArrives(c) ==
  /\ c \in previews
  /\ previews' = previews \ {c}
  /\ shown' = Total(c)
  /\ UNCHANGED isSubmitting
  /\ validateInputs(cart, inputs)
  /\ UNCHANGED <<menu, cart, inputs, posts, storedKey, drawn, tracking, server, reloads>>

PreviewFails(c) ==
  /\ c \in previews
  /\ previews' = previews \ {c}
  /\ shown' = CalculationError
  /\ enabled' = FALSE
  /\ UNCHANGED <<menu, cart, inputs, submission, tracking, server, reloads>>

TypeInputs(i) ==
  /\ view = "order" /\ menu # "loading"
  /\ inputs' = i
  /\ UNCHANGED isSubmitting
  /\ validateInputs(cart, i)
  /\ UNCHANGED <<menu, cart, previews, shown, posts, storedKey, drawn, tracking, server, reloads>>

-----------------------------------------------------------------------------
(* Submitting the order.                                                   *)

(* A click on the button; it carries the stored key or a new one.          *)
submitOrder(key) ==
  /\ view = "order" /\ menu # "loading" /\ enabled
  /\ Orderable(cart, inputs)
  /\ \/ storedKey # NoKey /\ key = storedKey
     \/ storedKey = NoKey /\ key \in Keys \ drawn
  /\ storedKey' = key
  /\ drawn' = drawn \cup {key}
  /\ isSubmitting' = TRUE
  /\ enabled' = FALSE
  /\ posts' = posts \cup {[key |-> key, body |-> [customer |-> inputs, items |-> cart],
                           at |-> "sent", live |-> TRUE]}
  /\ UNCHANGED <<menu, cart, inputs, previews, shown, tracking, server, reloads>>

(* The server: a key it knows is answered with its order if the body is    *)
(* the same and refused if not; a new one is accepted or refused.          *)
Answered(p, at) == posts' = (posts \ {p}) \cup (IF p.live THEN {[p EXCEPT !.at = at]} ELSE {})

CreateWeb(p) ==
  /\ p \in posts /\ p.at = "sent"
  /\ LET known == {o \in orders : o.key = p.key}
     IN  \/ /\ \E o \in known : o.body = p.body
            /\ Answered(p, "accepted")
            /\ UNCHANGED orders
         \/ /\ known = {} \/ \E o \in known : o.body # p.body
            /\ Answered(p, "refused")
            /\ UNCHANGED orders
         \/ /\ known = {}
            /\ orders' = orders \cup {[key |-> p.key, body |-> p.body, stage |-> 1]}
            /\ Answered(p, "accepted")
  /\ UNCHANGED <<menu, checkout, isSubmitting, storedKey, drawn, tracking, acknowledged, reloads>>

loadTracking(t) ==
  /\ token' = t
  /\ view' = "tracking"
  /\ polls' = polls \cup {[token |-> t, answer |-> "none", stage |-> 0]}

(* finally: the button is set from the fields again.                       *)
EndSubmit(p) ==
  /\ p \in posts /\ p.live
  /\ isSubmitting' = FALSE
  /\ validateInputs(cart, inputs)
  /\ UNCHANGED <<menu, cart, inputs, previews, shown, drawn, orders, reloads>>

SubmitSucceeds(p) ==
  /\ p.at = "accepted"
  /\ EndSubmit(p)
  /\ posts' = posts \ {p}
  /\ storedKey' = NoKey
  /\ storedToken' = p.key
  /\ loadTracking(p.key)
  /\ acknowledged' = acknowledged \cup {p.key}
  /\ UNCHANGED badge

(* Variant: the key is given up with the attempt.                          *)
SubmitGivesUp(p) ==
  /\ EndSubmit(p)
  /\ posts' = posts \ {p}
  /\ storedKey' = NoKey
  /\ UNCHANGED <<tracking, acknowledged>>

(* An error answer, or none: the request is lost before or after the       *)
(* server saw it, or is still on its way.                                  *)
SubmitFails(p) ==
  /\ posts' = posts \ {p} \/ (p.at = "sent" /\ posts' = (posts \ {p}) \cup {[p EXCEPT !.live = FALSE]})
  /\ EndSubmit(p)
  /\ UNCHANGED <<storedKey, tracking, acknowledged>>

-----------------------------------------------------------------------------
(* Tracking.                                                               *)

(* Variant: the status is asked for once.                                  *)
PollOnce ==
  /\ view = "tracking" /\ badge = NoBadge
  /\ polls' = polls \cup {[token |-> token, answer |-> "none", stage |-> 0]}
  /\ Cardinality(polls') <= MaxPolls
  /\ UNCHANGED <<menu, checkout, submission, view, token, storedToken, badge, server, reloads>>

(* The timer calls fetchStatus with the token that is active now.          *)
Poll ==
  /\ view = "tracking"
  /\ polls' = polls \cup {[token |-> token, answer |-> "none", stage |-> 0]}
  /\ Cardinality(polls') <= MaxPolls
  /\ UNCHANGED <<menu, checkout, submission, view, token, storedToken, badge, server, reloads>>

GetByPublicToken(p) ==
  /\ p \in polls /\ p.answer = "none"
  /\ polls' = (polls \ {p}) \cup
       (IF \E o \in orders : o.key = p.token
        THEN {[p EXCEPT !.answer = "found", !.stage = o.stage] : o \in {x \in orders : x.key = p.token}}
        ELSE {[p EXCEPT !.answer = "missing"]})
  /\ UNCHANGED <<menu, checkout, submission, view, token, storedToken, badge, server, reloads>>

PollArrives(p) ==
  /\ p \in polls /\ p.answer = "found"
  /\ polls' = polls \ {p}
  /\ badge' = [order |-> p.token, stage |-> p.stage]
  /\ UNCHANGED <<menu, checkout, submission, view, token, storedToken, server, reloads>>

resetToOrderView ==
  /\ token' = NoKey /\ storedToken' = NoKey /\ view' = "order"
  /\ cart' = <<>> /\ inputs' = Nobody
  /\ updateCartPreview(<<>>)

(* The answer is 404: the page gives the token up.                         *)
PollMisses(p) ==
  /\ p \in polls /\ p.answer = "missing"
  /\ polls' = polls \ {p}
  /\ resetToOrderView
  /\ UNCHANGED <<menu, submission, badge, server, reloads>>

LosePoll(p) ==
  /\ p \in polls
  /\ polls' = polls \ {p}
  /\ UNCHANGED <<menu, checkout, submission, view, token, storedToken, badge, server, reloads>>

NewOrder ==
  /\ view = "tracking" /\ menu # "loading"
  /\ resetToOrderView
  /\ UNCHANGED <<menu, submission, polls, badge, server, reloads>>

(* The kitchen moves the order on.                                         *)
Advance(o) ==
  /\ o \in orders /\ o.stage < Stages
  /\ orders' = (orders \ {o}) \cup {[o EXCEPT !.stage = @ + 1]}
  /\ UNCHANGED <<menu, checkout, submission, tracking, acknowledged, reloads>>

Reload ==
  /\ reloads < MaxReloads
  /\ reloads' = reloads + 1
  /\ menu' = "loading"
  /\ cart' = <<>> /\ inputs' = Nobody /\ previews' = {} /\ shown' = Total(<<>>)
  /\ enabled' = FALSE /\ isSubmitting' = FALSE
  /\ posts' = {[p EXCEPT !.live = FALSE] : p \in posts}
  /\ token' = storedToken /\ badge' = NoBadge
  /\ view' = IF storedToken = NoKey THEN "order" ELSE "tracking"
  /\ polls' = IF storedToken = NoKey THEN {}
              ELSE {[token |-> storedToken, answer |-> "none", stage |-> 0]}
  /\ UNCHANGED <<storedKey, drawn, storedToken, server>>

-----------------------------------------------------------------------------
Next ==
  \/ LoadMenu
  \/ \E i \in Items, q \in 0 .. MaxQuantity : changeQty(i, q)
  \/ \E i \in Items, opt \in Options : SelectOption(i, opt)
  \/ \E c \in previews : PreviewArrives(c) \/ PreviewFails(c)
  \/ \E i \in Customers \cup {Nobody} : TypeInputs(i)
  \/ \E key \in Keys : submitOrder(key)
  \/ \E p \in posts : CreateWeb(p) \/ SubmitSucceeds(p) \/ SubmitFails(p)
  \/ Poll
  \/ \E p \in polls : GetByPublicToken(p) \/ PollArrives(p) \/ PollMisses(p) \/ LosePoll(p)
  \/ NewOrder
  \/ \E o \in orders : Advance(o)
  \/ Reload

Spec == Init /\ [][Next]_vars

(* The timer goes on while the view is open, the server answers, requests  *)
(* for another token end one way or the other and not every answer is lost.*)
Fairness ==
  /\ WF_vars(Poll)
  /\ SF_vars(\E p \in polls : GetByPublicToken(p))
  /\ \A n \in 1 .. Stages : SF_vars(\E p \in polls : p.stage = n /\ PollArrives(p))
  /\ WF_vars(\E p \in polls : p.token # token /\ (LosePoll(p) \/ PollMisses(p)))

LiveSpec == Spec /\ Fairness

-----------------------------------------------------------------------------
(* Properties.                                                             *)

(* However answers and keystrokes interleave, the page never has two       *)
(* orders under way: the button stays off until the first is answered.     *)
OneLivePost == \A p, q \in posts : p.live /\ q.live => p = q

(* The button is on only over a cart and customer that can be ordered,     *)
(* although it is set by answers that were asked for before.               *)
EnabledOnlyIfOrderable == enabled => Orderable(cart, inputs)

(* Network failures and reloads never make a second order: an order the    *)
(* server has and the page was not told of is the one of the stored key,   *)
(* which the next attempt will carry.                                      *)
UnknownOrderIsRetried ==
  /\ \A o \in orders : o.key \in acknowledged \/ o.key = storedKey
  /\ \A o, n \in orders : o.key = n.key => o = n

(* Once an order has reached its last stage the tracking view, as long as  *)
(* it is open, shows it in the end and for good, although answers overtake *)
(* each other.                                                             *)
TrackingConverges ==
  <>[](view = "tracking" /\ \E o \in orders : o.key = token /\ o.stage = Stages)
    => <>[](badge = [order |-> token, stage |-> Stages])

(* Claims of the documents that do not hold.                               *)

(* docs/CUSTOMER_WEB_ORDERING.md: the summary shows the price of the cart  *)
(* in real time.  With no preview under way it must be this cart's.        *)
SummaryIsOfCart ==
  view = "order" /\ previews = {} /\ shown.kind = "total" => shown.of = cart

(* docs/CUSTOMER_WEB_ORDERING.md: the tracking token is kept in            *)
(* localStorage and the address; it is all the customer has.  Only opening *)
(* another order or asking for a new one may drop it.                      *)
TokenIsKept ==
  [][(storedToken \in acknowledged /\ storedToken' # storedToken)
        => (storedToken' \in acknowledged \/ NewOrder)]_vars
=============================================================================
