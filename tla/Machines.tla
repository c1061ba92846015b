------------------------------ MODULE Machines ------------------------------
(***************************************************************************)
(* The declarative state machines of the backend.  common/state_machine.py *)
(* turns a transition table into three questions: is the target the        *)
(* current state (is_noop), is the transition declared (can), and raise    *)
(* when it is not (validate).  The tables below are the ones the order,    *)
(* payment and delivery services consult before they write a status.       *)
(***************************************************************************)

OrderStatus ==
  {"pending", "confirmed", "preparing", "ready", "picked_up", "on_the_way",
   "delivered", "cancelled"}

(* ORDER_TRANSITIONS: cancellation stays legal until the meal leaves.      *)
OrderNext ==
  [ s \in OrderStatus |->
      CASE s = "pending"    -> {"confirmed", "cancelled"}
        [] s = "confirmed"  -> {"preparing", "cancelled"}
        [] s = "preparing"  -> {"ready", "cancelled"}
        [] s = "ready"      -> {"picked_up", "cancelled"}
        [] s = "picked_up"  -> {"on_the_way"}
        [] s = "on_the_way" -> {"delivered"}
        [] OTHER            -> {} ]

PaymentStatus ==
  {"pending", "processing", "completed", "failed", "cancelled", "refunded"}

(* PAYMENT_TRANSITIONS: a collected payment never goes back down (P1).     *)
PaymentNext ==
  [ s \in PaymentStatus |->
      CASE s = "pending"    -> {"processing", "failed", "cancelled"}
        [] s = "processing" -> {"completed", "failed"}
        [] s = "completed"  -> {"refunded"}
        [] OTHER            -> {} ]

DeliveryStatus ==
  {"offered", "accepted", "picked_up", "on_the_way", "delivered", "declined",
   "cancelled"}

(* DELIVERY_TRANSITIONS: what is accepted is no longer declined.           *)
DeliveryNext ==
  [ s \in DeliveryStatus |->
      CASE s = "offered"    -> {"accepted", "declined", "cancelled"}
        [] s = "accepted"   -> {"picked_up", "cancelled"}
        [] s = "picked_up"  -> {"on_the_way"}
        [] s = "on_the_way" -> {"delivered"}
        [] OTHER            -> {} ]

(* StateMachine.can for each table.                                        *)
OrderCan(from, to)   == to \in OrderNext[from]
PaymentCan(from, to) == to \in PaymentNext[from]
DeliveryCan(from, to) == from \in DeliveryStatus /\ to \in DeliveryNext[from]
=============================================================================
