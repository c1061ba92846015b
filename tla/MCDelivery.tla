----------------------------- MODULE MCDelivery -----------------------------
(***************************************************************************)
(* Instances of Delivery for TLC: a courier who may serve both orders, and *)
(* one who may only serve the first; then two couriers for one order.      *)
(***************************************************************************)
EXTENDS Delivery

CONSTANTS o1, o2, c1, c2

MCCompatible == {<<o1, c1>>, <<o1, c2>>, <<o2, c1>>}
OneOrder     == {<<o1, c1>>, <<o1, c2>>}
=============================================================================
