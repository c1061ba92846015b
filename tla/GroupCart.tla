----------------------------- MODULE GroupCart ------------------------------
(***************************************************************************)
(* A shared cart: friends join by a code and add lines until the host      *)
(* locks it, confirms it into one order, or cancels it, or until its time  *)
(* is up and a task expires it.                                            *)
(*                                                                         *)
(* Every handler takes the row of the cart first and reads its status      *)
(* under the lock, so each is one step; the task reads a list of carts     *)
(* before it takes them one by one.                                        *)
(***************************************************************************)
EXTENDS Naturals, FiniteSets

CONSTANTS
  Guests, Host,
  LineIds, MostOfALine   \* the lines members add, and a bound on a quantity

ASSUME GroupCartAssumption == Host \in Guests /\ MostOfALine \in Nat \ {0}

VARIABLES
  group,      \* GroupCart.status
  late,       \* closes_at has passed
  members,
  lines,      \* [member, quantity] of each line, a quantity of 0 without it
  orders,     \* the orders confirm created: what each was made of
  expiring,   \* the task has read the cart in its list
  seen        \* history: the lines as the host locked them

groupVars == <<group, late, members, lines, orders, expiring, seen>>

NoLine == [member |-> Host, quantity |-> 0]

GROUP_CART_TRANSITIONS == [
  open      |-> {"locked", "cancelled", "expired"},
  locked    |-> {"confirmed", "cancelled", "expired"},
  confirmed |-> {}, cancelled |-> {}, expired |-> {}]
EXPIRABLE == {"open", "locked"}

GroupInit ==
  /\ group = "open" /\ late = FALSE /\ members = {Host}
  /\ lines = [l \in LineIds |-> NoLine]
  /\ orders = {} /\ expiring = FALSE
  /\ seen = {}

-----------------------------------------------------------------------------
(* _assert_contributable: open, and in time, whatever the task has done.   *)
ContributableUnlessFinal == GROUP_CART_TRANSITIONS[group] # {}   \* mutant: only final ones refuse
Contributable == group = "open" /\ ~late

TimeIsUp ==
  /\ ~late /\ late' = TRUE
  /\ UNCHANGED <<group, members, lines, orders, expiring, seen>>

join(g) ==
  /\ Contributable
  /\ members' = members \cup {g}
  /\ UNCHANGED <<group, late, lines, orders, expiring, seen>>

(* A member adds to a line like the one added, or makes it.                *)
add_line(l, g) ==
  /\ Contributable /\ g \in members
  /\ lines[l].quantity = 0 \/ lines[l].member = g
  /\ lines[l].quantity < MostOfALine
  /\ lines' = [lines EXCEPT ![l] = [member |-> g, quantity |-> @.quantity + 1]]
  /\ UNCHANGED <<group, late, members, orders, expiring, seen>>

MayTouch(l, g) == lines[l].quantity > 0 /\ g \in {lines[l].member, Host}

set_quantity(l, g, n) ==
  /\ Contributable /\ MayTouch(l, g) /\ lines[l].quantity # n
  /\ lines' = [lines EXCEPT ![l].quantity = n]
  /\ UNCHANGED <<group, late, members, orders, expiring, seen>>

remove_line(l, g) ==
  /\ Contributable /\ MayTouch(l, g)
  /\ lines' = [lines EXCEPT ![l] = NoLine]
  /\ UNCHANGED <<group, late, members, orders, expiring, seen>>

-----------------------------------------------------------------------------
Held == {<<l, lines[l]>> : l \in {k \in LineIds : lines[k].quantity > 0}}
_transition(target) == group' = target /\ target \in GROUP_CART_TRANSITIONS[group]

lock ==
  /\ _transition("locked")
  /\ seen' = Held
  /\ UNCHANGED <<late, members, lines, orders, expiring>>

(* confirm locks an open cart on its way.  An order refused rolls all back.*)
Confirmable == group \in EXPIRABLE

confirm ==
  /\ Confirmable /\ Held # {}
  /\ orders' = orders \cup {<<Cardinality(orders), Held>>}
  /\ group' = "confirmed"
  /\ seen' = IF group = "open" THEN Held ELSE seen
  /\ UNCHANGED <<late, members, lines, expiring>>

cancel_group ==
  /\ _transition("cancelled")
  /\ UNCHANGED <<late, members, lines, orders, expiring, seen>>

-----------------------------------------------------------------------------
(* expire_due: a list, then each cart read again under its lock.           *)
ReadLate ==
  /\ ~expiring /\ late /\ group \in EXPIRABLE
  /\ expiring' = TRUE
  /\ UNCHANGED <<group, late, members, lines, orders, seen>>

ExpireLate ==
  /\ expiring /\ expiring' = FALSE
  /\ IF group \in EXPIRABLE THEN _transition("expired") ELSE UNCHANGED group
  /\ UNCHANGED <<late, members, lines, orders, seen>>

TaskStops ==
  /\ expiring /\ expiring' = FALSE
  /\ UNCHANGED <<group, late, members, lines, orders, seen>>

-----------------------------------------------------------------------------
GroupNext ==
  \/ TimeIsUp \/ lock \/ confirm \/ cancel_group
  \/ ReadLate \/ ExpireLate \/ TaskStops
  \/ \E g \in Guests : join(g)
  \/ \E l \in LineIds, g \in Guests :
       \/ add_line(l, g) \/ remove_line(l, g)
       \/ \E n \in 1..MostOfALine : set_quantity(l, g, n)

GroupSpec == GroupInit /\ [][GroupNext]_groupVars

-----------------------------------------------------------------------------
GroupTypeOK ==
  /\ group \in DOMAIN GROUP_CART_TRANSITIONS
  /\ late \in BOOLEAN /\ expiring \in BOOLEAN
  /\ members \subseteq Guests /\ Host \in members
  /\ lines \in [LineIds -> [member : Guests, quantity : 0..MostOfALine]]

(* The host locks the cart, reads what everyone has put in, and confirms:  *)
(* one order comes out, made of those lines and no other, whatever friends *)
(* and the task do meanwhile; none comes out of a cart that ended another  *)
(* way.                                                                    *)
OneOrderOfWhatWasSeen ==
  /\ group \in {"locked", "confirmed"} => Held = seen
  /\ Cardinality(orders) = IF group = "confirmed" THEN 1 ELSE 0
  /\ \A o \in orders : o[2] = seen
=============================================================================
