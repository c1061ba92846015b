------------------------------ MODULE Payables ------------------------------
(***************************************************************************)
(* What a customer can be asked to pay: an order as a whole, or the shares *)
(* of a split order.  Amounts are abstracted to what the code compares     *)
(* them for.  Shares are positive and add up to the total of the order     *)
(* (SplitService._allocate refuses anything else), so a set of distinct    *)
(* payables is worth at least the total exactly when it holds the whole    *)
(* order or every share of it.                                             *)
(***************************************************************************)
CONSTANTS Orders,   \* the orders, each standing for its full amount
          Shares,   \* the shares of the orders that may be split
          ShareOf   \* the order each share belongs to

ASSUME PayablesAssumption ==
  /\ Orders \cap Shares = {}
  /\ ShareOf \in [Shares -> Orders]
  /\ \A o \in Orders : \E s \in Shares : ShareOf[s] = o

Payables == Orders \cup Shares

OrderOf(p) == IF p \in Orders THEN p ELSE ShareOf[p]

SharesOf(o) == {s \in Shares : ShareOf[s] = o}

(* settled_total(order) >= order.total                                     *)
Covered(o, paid) == o \in paid \/ SharesOf(o) \subseteq paid
=============================================================================
