------------------------------ MODULE Checkout ------------------------------
(***************************************************************************)
(* Ordering: the idempotency key a request takes before it writes, the     *)
(* cart it prices then empties, the finished dishes and the promotion it   *)
(* takes, and what a cancellation gives back.                              *)
(*                                                                         *)
(* The key is committed on its own, before the order and again after it: a *)
(* worker may die between any two.  The order reads the cart, then writes  *)
(* in one transaction.  The forms of the back office write a row back as   *)
(* they have read it.                                                      *)
(***************************************************************************)
EXTENDS Integers, FiniteSets, FiniteSetsExt

CONSTANTS
  Customers,
  Keys,                        \* Idempotency-Key
  Requests, SentBy, KeyOf,     \* POST /orders: who sends it, under which key
  Plates,                      \* the menu items
  PlatesTracked, PlatesOnHand, \* tracks_stock and stock_quantity, at first
  Counts,                      \* what a count of a dish may find
  CartLimit,                   \* bound on the quantity of one line
  UsageLimit, PerUserLimit     \* of the promotion

ASSUME CheckoutAssumption ==
  /\ IsFiniteSet(Requests) /\ "none" \notin Requests
  /\ Plates \cap {"none", "promotion", "saved"} = {}
  /\ SentBy \in [Requests -> Customers] /\ KeyOf \in [Requests -> Keys]
  /\ PlatesTracked \subseteq Plates /\ PlatesOnHand \in [Plates -> Nat]
  /\ Counts \subseteq Nat
  /\ CartLimit \in Nat /\ UsageLimit \in Nat /\ PerUserLimit \in Nat

VARIABLES
  cart,       \* quantities in the cart of each customer
  key,        \* [status, reply] of each key, and whether it was ever purged
  request,    \* [at, basket] of each request
  order,      \* [status, basket, taken] of the order a request made
  stock,      \* [tracked, quantity] of each dish
  usedCount, redemptions,   \* Promotion.used_count, PromotionRedemption
  form,       \* the one back-office write of a behaviour, and the row it has read
  given,      \* history: the stock staff gave
  overwritten \* history: rows a form wrote back over a newer state

purchases == <<key, request, order>>
goods == <<stock, given>>
coupons == <<usedCount, redemptions>>
forms == <<form, overwritten>>
checkoutVars == <<cart, purchases, goods, coupons, forms>>

Empty == [p \in Plates |-> 0]
NoOrder == [status |-> "none", basket |-> Empty, taken |-> Empty]
NoForm == [row |-> "none"]
FreeKey == [status |-> "free", reply |-> "none", purged |-> FALSE]

CheckoutInit ==
  /\ cart = [c \in Customers |-> Empty]
  /\ key = [k \in Keys |-> FreeKey]
  /\ request = [r \in Requests |-> [at |-> "idle", basket |-> Empty]]
  /\ order = [r \in Requests |-> NoOrder]
  /\ stock = [p \in Plates |-> [tracked |-> p \in PlatesTracked, quantity |-> PlatesOnHand[p]]]
  /\ usedCount = 0 /\ redemptions = {}
  /\ form = NoForm
  /\ given = PlatesOnHand
  /\ overwritten = {}

-----------------------------------------------------------------------------
AddToCart(c, p) ==
  /\ cart[c][p] < CartLimit
  /\ cart' = [cart EXCEPT ![c][p] = @ + 1]
  /\ UNCHANGED <<purchases, goods, coupons, forms>>

-----------------------------------------------------------------------------
(* The request.  reserve inserts the key; the second one finds it there.   *)
Step(r, from, to) ==
  /\ request[r].at = from
  /\ request' = [request EXCEPT ![r] = [at |-> to, basket |-> Empty]]

ReservableInFlight(k) == key[k].status # "completed"   \* mutant: taken over
Reservable(k) == key[k].status = "free"

Reserve(r) ==
  /\ Step(r, "idle", "reserved") /\ Reservable(KeyOf[r])
  /\ key' = [key EXCEPT ![KeyOf[r]].status = "inFlight"]
  /\ UNCHANGED <<cart, order, goods, coupons, forms>>

ToldToWait(r) ==
  /\ Step(r, "idle", "ended") /\ key[KeyOf[r]].status = "inFlight"
  /\ UNCHANGED <<cart, key, order, goods, coupons, forms>>

Replay(r) ==
  /\ Step(r, "idle", "ended") /\ key[KeyOf[r]].status = "completed"
  /\ UNCHANGED <<cart, key, order, goods, coupons, forms>>

PriceCart(r) ==
  /\ request[r].at = "reserved"
  /\ request' = [request EXCEPT ![r] = [at |-> "priced", basket |-> cart[SentBy[r]]]]
  /\ UNCHANGED <<cart, key, order, goods, coupons, forms>>

(* StockService.consume: conditional on the stock of a tracked dish.       *)
InStock(b, p) == b[p] = 0 \/ ~stock[p].tracked \/ b[p] <= stock[p].quantity
TakenFrom(b) == [p \in Plates |-> IF stock[p].tracked THEN b[p] ELSE 0]

(* PromotionService.redeem, under the lock of the promotion.               *)
RedeemedBy(c) == {r \in redemptions : SentBy[r] = c}
QuotedOnly(c) == TRUE                            \* mutant: not checked under the lock
MayRedeem(c) == usedCount < UsageLimit /\ Cardinality(RedeemedBy(c)) < PerUserLimit

(* The transaction of create_from_cart: all of it, or none.                *)
Place(r, withCode) ==
  LET b == request[r].basket IN
  /\ Step(r, "priced", "created")
  /\ b # Empty /\ \A p \in Plates : InStock(b, p)
  /\ stock' = [p \in Plates |-> [stock[p] EXCEPT !.quantity = @ - TakenFrom(b)[p]]]
  /\ \/ withCode /\ MayRedeem(SentBy[r])
        /\ usedCount' = usedCount + 1 /\ redemptions' = redemptions \cup {r}
     \/ ~withCode /\ UNCHANGED coupons
  /\ order' = [order EXCEPT ![r] = [status |-> "open", basket |-> b, taken |-> TakenFrom(b)]]
  /\ cart' = [cart EXCEPT ![SentBy[r]] = Empty]
  /\ UNCHANGED <<key, given, forms>>

(* Empty cart, kitchen closed, address, stock or code: nothing is written. *)
Refused(r) ==
  /\ \E at \in {"reserved", "priced"} : Step(r, at, "failed")
  /\ UNCHANGED <<cart, key, order, goods, coupons, forms>>

ReleaseKey(r) ==
  /\ Step(r, "failed", "ended")
  /\ key' = [key EXCEPT ![KeyOf[r]] = IF @.status = "inFlight" THEN [@ EXCEPT !.status = "free"] ELSE @]
  /\ UNCHANGED <<cart, order, goods, coupons, forms>>

Complete(r) ==
  /\ Step(r, "created", "ended")
  /\ key' = [key EXCEPT ![KeyOf[r]] = [@ EXCEPT !.status = "completed", !.reply = r]]
  /\ UNCHANGED <<cart, order, goods, coupons, forms>>

AtWork == {"reserved", "priced", "failed", "created"}
RequestDies(r) ==
  /\ \E at \in AtWork : Step(r, at, "ended")
  /\ UNCHANGED <<cart, key, order, goods, coupons, forms>>

(* 72 hours later no request under the key is still at work.               *)
PurgesCompleted(k) == key[k].status = "completed"    \* mutant: "les cles consommees"
Purges(k) == key[k].status # "free"
Purge(k) ==
  /\ Purges(k) /\ \A r \in Requests : KeyOf[r] = k => request[r].at \notin AtWork
  /\ key' = [key EXCEPT ![k] = [FreeKey EXCEPT !.purged = TRUE]]
  /\ UNCHANGED <<cart, request, order, goods, coupons, forms>>

-----------------------------------------------------------------------------
(* The cancellation of an order: promotion and dishes go back.             *)
RestoresNothing(b, p) == 0                       \* mutant
Restored(b, p) == IF stock[p].tracked THEN b[p] ELSE 0

CancelOrder(r) ==
  /\ order[r].status = "open"
  /\ order' = [order EXCEPT ![r].status = "cancelled"]
  /\ stock' = [p \in Plates |->
       [stock[p] EXCEPT !.quantity = @ + Restored(order[r].basket, p)]]
  /\ redemptions' = redemptions \ {r}
  /\ usedCount' = IF r \in redemptions /\ usedCount > 0 THEN usedCount - 1 ELSE usedCount
  /\ UNCHANGED <<cart, key, request, given, forms>>

-----------------------------------------------------------------------------
(* The back office: the count of a dish, and two forms on whole rows.      *)
SetStock(p, n) ==
  /\ form = NoForm /\ stock[p].quantity # n
  /\ form' = [row |-> "saved"]
  /\ stock' = [stock EXCEPT ![p].quantity = n]
  /\ given' = [given EXCEPT ![p] = @ + n - stock[p].quantity]
  /\ UNCHANGED <<cart, purchases, coupons, overwritten>>

OpenDishForm(p) ==
  /\ form = NoForm
  /\ form' = [row |-> p, read |-> stock[p]]
  /\ UNCHANGED <<cart, purchases, goods, coupons, overwritten>>

(* Whoever starts or stops the tracking also makes its count their own.    *)
SaveDishForm(p, tracked) ==
  /\ form.row = p
  /\ stock' = [stock EXCEPT ![p] = [tracked |-> tracked, quantity |-> form.read.quantity]]
  /\ overwritten' = IF stock[p] # stock'[p] THEN overwritten \cup {p} ELSE overwritten
  /\ form' = [row |-> "saved"]
  /\ UNCHANGED <<cart, purchases, given, coupons>>

OpenPromotionForm ==
  /\ form = NoForm
  /\ form' = [row |-> "promotion", read |-> usedCount]
  /\ UNCHANGED <<cart, purchases, goods, coupons, overwritten>>

SavePromotionForm ==
  /\ form.row = "promotion"
  /\ usedCount' = form.read
  /\ overwritten' = IF usedCount # form.read THEN overwritten \cup {"promotion"} ELSE overwritten
  /\ form' = [row |-> "saved"]
  /\ UNCHANGED <<cart, purchases, goods, redemptions>>

-----------------------------------------------------------------------------
Proceeds(r) ==
  \/ PriceCart(r) \/ Refused(r) \/ ReleaseKey(r) \/ Complete(r)
  \/ \E withCode \in BOOLEAN : Place(r, withCode)

CheckoutNext ==
  \/ \E c \in Customers, p \in Plates : AddToCart(c, p)
  \/ \E r \in Requests :
       \/ Reserve(r) \/ ToldToWait(r) \/ Replay(r) \/ Proceeds(r)
       \/ RequestDies(r) \/ CancelOrder(r)
  \/ \E k \in Keys : Purge(k)
  \/ \E p \in Plates :
       \/ \E n \in Counts : SetStock(p, n)
       \/ OpenDishForm(p) \/ \E tracked \in BOOLEAN : SaveDishForm(p, tracked)
  \/ OpenPromotionForm \/ SavePromotionForm

(* A request at work goes on, unless its worker dies; beat calls the purge *)
(* every day.                                                              *)
CheckoutFairness ==
  /\ \A r \in Requests : WF_checkoutVars(Proceeds(r))
  /\ \A k \in Keys : WF_checkoutVars(Purge(k))

CheckoutSpec == CheckoutInit /\ [][CheckoutNext]_checkoutVars /\ CheckoutFairness

-----------------------------------------------------------------------------
CheckoutTypeOK ==
  /\ cart \in [Customers -> [Plates -> 0..CartLimit]]
  /\ key \in [Keys -> [status : {"free", "inFlight", "completed"},
                       reply : Requests \cup {"none"}, purged : BOOLEAN]]
  /\ request \in [Requests ->
       [at : {"idle", "ended"} \cup AtWork,
        basket : [Plates -> 0..CartLimit]]]
  /\ order \in [Requests -> [status : {"none", "open", "cancelled"},
       basket : [Plates -> 0..CartLimit], taken : [Plates -> 0..CartLimit]]]
  /\ stock \in [Plates -> [tracked : BOOLEAN, quantity : Nat]]
  /\ usedCount \in Nat /\ redemptions \subseteq Requests
  /\ form.row \in Plates \cup {"none", "promotion", "saved"}
  /\ given \in [Plates -> Int]
  /\ overwritten \subseteq Plates \cup {"promotion"}

(* A customer whose network cut out sends the same request again, to a     *)
(* worker that may have died anywhere: as long as the key was not purged,  *)
(* one order at most comes out of it, and it is the one a replay shows.    *)
OneOrderPerKey ==
  \A k \in Keys : ~key[k].purged =>
    LET made == {r \in Requests : KeyOf[r] = k /\ order[r].status # "none"} IN
    /\ Cardinality(made) <= 1
    /\ key[k].status = "completed" => made = {key[k].reply}

(* Units are on the shelf or in open orders, whatever orders, refusals,    *)
(* cancellations and counts cross - as long as no form of the back office  *)
(* writes the dish back as it was.                                         *)
OpenOrders == {r \in Requests : order[r].status = "open"}
StockAddsUp ==
  \A p \in Plates \ overwritten :
    stock[p].quantity + SumFunctionOnSet([r \in Requests |-> order[r].taken[p]], OpenOrders)
      = given[p]

(* The quota of a code bounds the open orders that carry it, not the       *)
(* quotes given; the limit per customer, counted on the redemptions, holds *)
(* even when a form writes an old used_count back.                         *)
QuotaHolds ==
  /\ redemptions \subseteq OpenOrders
  /\ \A c \in Customers : Cardinality(RedeemedBy(c)) <= PerUserLimit
  /\ "promotion" \notin overwritten =>
       usedCount = Cardinality(redemptions) /\ usedCount <= UsageLimit

(* A key whose worker died does not stay taken for ever.                   *)
InFlightKeysAreFreed == \A k \in Keys : key[k].status = "inFlight" ~> key[k].status # "inFlight"

(* "Un article dont le suivi de stock a ete active apres la commande ne    *)
(* recoit rien": a cancellation gives back no more than the order took.    *)
RestoreInventsNothing ==
  [][\A r \in Requests, p \in Plates :
       order[r].status = "open" /\ order'[r].status = "cancelled" =>
         stock'[p].quantity - stock[p].quantity <= order[r].taken[p]]_checkoutVars
=============================================================================
