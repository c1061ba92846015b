------------------------------ MODULE Carriage ------------------------------
(***************************************************************************)
(* What the assignment of couriers promises: a meal is carried by one      *)
(* courier at a time, a courier carries one meal at a time, only the one   *)
(* who carries a meal hands it over, and a meal handed over is never       *)
(* carried again.                                                          *)
(***************************************************************************)
CONSTANT Courses  \* pairs of an order and a courier

VARIABLES
  carried,    \* courses under way
  handedOver  \* courses whose meal has been delivered and credited

vars == <<carried, handedOver>>

SameMeal(p, q)    == p[1] = q[1]
SameCourier(p, q) == p[2] = q[2]

Init == carried = {} /\ handedOver = {}

Take(p) ==
  /\ \A q \in carried : ~SameMeal(p, q) /\ ~SameCourier(p, q)
  /\ \A q \in handedOver : ~SameMeal(p, q)
  /\ carried' = carried \cup {p}
  /\ UNCHANGED handedOver

LetGo(p) ==
  /\ p \in carried
  /\ carried' = carried \ {p}
  /\ UNCHANGED handedOver

HandOver(p) ==
  /\ p \in carried
  /\ carried' = carried \ {p}
  /\ handedOver' = handedOver \cup {p}

Next == \E p \in Courses : Take(p) \/ LetGo(p) \/ HandOver(p)

Spec == Init /\ [][Next]_vars
=============================================================================
