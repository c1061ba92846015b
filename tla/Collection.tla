----------------------------- MODULE Collection -----------------------------
(***************************************************************************)
(* What the payments of an order promise, before webhooks, workers, locks  *)
(* and crashes: money is collected one payable at a time, each payable at  *)
(* most once, and the collection that covers a pending order confirms it   *)
(* in the same step.                                                       *)
(***************************************************************************)
EXTENDS Payables, Machines

VARIABLES collected,   \* the payables whose money has been recorded
          order        \* the status of each order

Init ==
  /\ collected = {}
  /\ order = [o \in Orders |-> "pending"]

Collect(p) ==
  /\ p \notin collected
  /\ collected' = collected \cup {p}
  /\ order' =
       IF Covered(OrderOf(p), collected') /\ order[OrderOf(p)] = "pending"
         THEN [order EXCEPT ![OrderOf(p)] = "confirmed"]
         ELSE order

(* The kitchen, the couriers and cancellations move the order on their own.*)
Move(o) ==
  /\ order' \in {[order EXCEPT ![o] = s] : s \in OrderNext[order[o]]}
  /\ UNCHANGED collected

Next ==
  \/ \E p \in Payables : Collect(p)
  \/ \E o \in Orders : Move(o)

Spec == Init /\ [][Next]_<<collected, order>>
=============================================================================
