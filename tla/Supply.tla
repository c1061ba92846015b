------------------------------- MODULE Supply -------------------------------
(***************************************************************************)
(* What an order takes from its kitchen, in one specification: who serves  *)
(* the address (Territory) and when (Calendar), the raw material           *)
(* (Warehouse), the dishes, the coupon and the key of the request          *)
(* (Checkout), the shared carts (GroupCart), the rows all of them lock     *)
(* (RowLocks).  The six share no variable: a behaviour follows one of      *)
(* them, the focus, and every property is about one.                       *)
(***************************************************************************)
EXTENDS Warehouse, Checkout, GroupCart, RowLocks, Territory, Calendar

VARIABLE focus

orderVars == <<warehouseVars, checkoutVars, groupVars, locksVars>>
placeVars == <<territoryVars, calendarVars>>
supplyVars == <<focus, orderVars, placeVars>>

SupplyInit ==
  /\ focus \in {"warehouse", "checkout", "group", "locks", "territory", "calendar"}
  /\ WarehouseInit /\ CheckoutInit /\ GroupInit /\ LocksInit
  /\ TerritoryInit /\ CalendarInit
  /\ whose = "kitchen" => focus = "calendar"     \* whose is told apart there only

WarehouseStep ==
  /\ focus = "warehouse" /\ WarehouseNext
  /\ UNCHANGED <<focus, checkoutVars, groupVars, locksVars, placeVars>>
CheckoutStep ==
  /\ focus = "checkout" /\ CheckoutNext
  /\ UNCHANGED <<focus, warehouseVars, groupVars, locksVars, placeVars>>
GroupStep ==
  /\ focus = "group" /\ GroupNext
  /\ UNCHANGED <<focus, warehouseVars, checkoutVars, locksVars, placeVars>>
LocksStep ==
  /\ focus = "locks" /\ LocksNext
  /\ UNCHANGED <<focus, warehouseVars, checkoutVars, groupVars, placeVars>>
TerritoryStep ==
  focus = "territory" /\ TerritoryNext /\ UNCHANGED <<focus, orderVars, calendarVars>>
CalendarStep ==
  focus = "calendar" /\ CalendarNext /\ UNCHANGED <<focus, orderVars, territoryVars>>

SupplyNext ==
  \/ WarehouseStep \/ CheckoutStep \/ GroupStep \/ LocksStep
  \/ TerritoryStep \/ CalendarStep

(* CheckoutFairness, owed where the behaviour follows the checkout.        *)
SupplyFairness ==
  /\ \A r \in Requests : WF_checkoutVars(focus = "checkout" /\ Proceeds(r))
  /\ \A k \in Keys : WF_checkoutVars(focus = "checkout" /\ Purge(k))

SupplySpec == SupplyInit /\ [][SupplyNext]_supplyVars /\ SupplyFairness

(* Every variable of the six has its type.                                 *)
SupplyTypeOK ==
  /\ WarehouseTypeOK /\ CheckoutTypeOK /\ GroupTypeOK /\ LocksTypeOK
  /\ TerritoryTypeOK /\ CalendarTypeOK
=============================================================================
