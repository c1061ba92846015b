----------------------------- MODULE SplitBill ------------------------------
(***************************************************************************)
(* The division of an order between guests, equally or by the amounts its  *)
(* customer sends.  Payables counts on it: whoever collects all the shares *)
(* of an order has collected the order, and each share can be paid.        *)
(***************************************************************************)
EXTENDS Integers, FiniteSets, Functions

CONSTANTS
  MaxTotal, MaxGuests,   \* bounds: of an order, of the guests who share it
  SentAmounts,           \* amounts a customer may send, whatever they are
  NoAmount               \* none was sent for a guest, or there is none yet

ASSUME SplitBillAssumption ==
  /\ MaxTotal \in Nat /\ MaxGuests \in Nat
  /\ SentAmounts \subseteq Int /\ NoAmount \notin Int

VARIABLES
  bill,      \* the total of the order, in minor units
  shares,    \* the amount of each share, once the bill is divided
  evenly     \* whether it was divided equally

billVars == <<bill, shares, evenly>>

NoShares == [g \in {} |-> 0]

BillInit == bill = NoAmount /\ shares = NoShares /\ evenly = FALSE

-----------------------------------------------------------------------------
(* Money.allocate: each rounded down, and the rest dealt out unit by unit  *)
(* from the first guest on.                                                *)
RoundedDown(amount, weights) ==
  [g \in DOMAIN weights |-> (amount * weights[g]) \div SumFunction(weights)]

DealtOutAgain(remainder, n, g) == 0              \* mutant: the rest is lost
DealtOut(remainder, n, g) == Cardinality({i \in 0..(remainder - 1) : (i % n) + 1 = g})

allocate(amount, weights) ==
  LET base == RoundedDown(amount, weights)
      remainder == amount - SumFunction(base)
  IN  [g \in DOMAIN weights |->
         base[g] + DealtOut(remainder, Cardinality(DOMAIN weights), g)]

(* _allocate: amounts for all or for none, each positive, of the right sum *)
(* - or enough to give a unit to each.                                     *)
Said(sent) == {g \in DOMAIN sent : sent[g] # NoAmount}

Divisible(sent) ==
  \/ Said(sent) = {} /\ bill >= Cardinality(DOMAIN sent)
  \/ /\ Said(sent) = DOMAIN sent
     /\ \A g \in DOMAIN sent : sent[g] > 0
     /\ SumFunction(sent) = bill

_allocate(sent) ==
  IF Said(sent) = {} THEN allocate(bill, [g \in DOMAIN sent |-> 1]) ELSE sent

-----------------------------------------------------------------------------
PlaceOrder ==
  /\ bill = NoAmount /\ bill' \in 0..MaxTotal
  /\ UNCHANGED <<shares, evenly>>

(* create: once, between two guests at least; a refusal writes nothing.    *)
DivideBill(n, sent) ==
  /\ bill # NoAmount /\ shares = NoShares
  /\ n >= 2 /\ Divisible(sent)
  /\ shares' = _allocate(sent) /\ evenly' = (Said(sent) = {})
  /\ UNCHANGED bill

-----------------------------------------------------------------------------
BillNext ==
  \/ PlaceOrder
  \/ \E n \in 1..MaxGuests : \E sent \in [1..n -> SentAmounts \cup {NoAmount}] :
       DivideBill(n, sent)

BillSpec == BillInit /\ [][BillNext]_billVars

-----------------------------------------------------------------------------
BillTypeOK ==
  /\ bill \in 0..MaxTotal \cup {NoAmount} /\ evenly \in BOOLEAN
  /\ \/ shares = NoShares
     \/ bill # NoAmount /\ \E n \in 2..MaxGuests : shares \in [1..n -> Int]

(* "Sans perdre d'unite mineure", "chaque part est positive": the shares   *)
(* add up to the bill to the last unit, none is empty, and two guests who  *)
(* share equally pay the same to one unit, the first ones more.            *)
BillHolds ==
  shares # NoShares =>
    /\ SumFunction(shares) = bill
    /\ \A g \in DOMAIN shares : shares[g] >= 1
    /\ evenly => \A g, h \in DOMAIN shares :
                   g <= h => shares[h] <= shares[g] /\ shares[g] <= shares[h] + 1
=============================================================================
