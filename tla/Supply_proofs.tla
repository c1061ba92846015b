---------------------------- MODULE Supply_proofs ----------------------------
(***************************************************************************)
(* Proofs about what an order takes from its kitchen (Supply), for any     *)
(* menu, recipes, zones, customers, requests and slips: each part keeps an *)
(* invariant of its own, and every step of the composition is a step or a  *)
(* stutter of each part.                                                   *)
(***************************************************************************)
EXTENDS Supply, Sums_proofs, TLAPS

-----------------------------------------------------------------------------
(* Every step of the composition is a step, or a stutter, of each part.    *)
LEMMA SupplySteps ==
  ASSUME [SupplyNext]_supplyVars
  PROVE  /\ [WarehouseNext]_warehouseVars
         /\ [CheckoutNext]_checkoutVars
         /\ [GroupNext]_groupVars
         /\ [LocksNext]_locksVars
         /\ [TerritoryNext]_territoryVars
         /\ [CalendarNext]_calendarVars
<1> USE DEF supplyVars, orderVars, placeVars
<1>1. CASE SupplyNext
  BY <1>1 DEF SupplyNext, WarehouseStep, CheckoutStep, GroupStep, LocksStep,
              TerritoryStep, CalendarStep
<1>2. CASE UNCHANGED supplyVars
  BY <1>2
<1> QED
  BY <1>1, <1>2

-----------------------------------------------------------------------------
(* The shared cart.                                                        *)

(* The one order of a confirmed cart, and what it was made of.             *)
TheOrder == orders = IF group = "confirmed" THEN {<<0, seen>>} ELSE {}
SeenIsHeld == group \in {"locked", "confirmed"} => Held = seen
GroupInv == GroupTypeOK /\ TheOrder /\ SeenIsHeld

LEMMA GroupStatuses ==
  DOMAIN GROUP_CART_TRANSITIONS = {"open", "locked", "confirmed", "cancelled", "expired"}
BY DEF GROUP_CART_TRANSITIONS

LEMMA GroupInvGives == GroupInv => OneOrderOfWhatWasSeen
<1> SUFFICES ASSUME GroupInv PROVE OneOrderOfWhatWasSeen
  OBVIOUS
<1>1. Cardinality({}) = 0 /\ Cardinality({<<0, seen>>}) = 1
  BY FS_EmptySet, FS_Singleton
<1>2. Cardinality(orders) = IF group = "confirmed" THEN 1 ELSE 0
  BY <1>1 DEF GroupInv, TheOrder
<1>3. \A o \in orders : o[2] = seen
  BY DEF GroupInv, TheOrder
<1> QED
  BY <1>2, <1>3 DEF OneOrderOfWhatWasSeen, GroupInv, SeenIsHeld

LEMMA InitGroup == GroupInit => GroupInv
<1> SUFFICES ASSUME GroupInit PROVE GroupInv
  OBVIOUS
<1>1. NoLine \in [member : Guests, quantity : 0..MostOfALine]
  BY GroupCartAssumption DEF NoLine
<1>2. GroupTypeOK
  BY <1>1, GroupStatuses, GroupCartAssumption DEF GroupInit, GroupTypeOK
<1> QED
  BY <1>2 DEF GroupInit, GroupInv, TheOrder, SeenIsHeld

LEMMA StepGroup == GroupInv /\ [GroupNext]_groupVars => GroupInv'
<1> SUFFICES ASSUME GroupInv, [GroupNext]_groupVars PROVE GroupInv'
  OBVIOUS
<1> USE GroupStatuses DEF GroupInv
<1>0. ASSUME UNCHANGED lines PROVE Held' = Held
  BY <1>0 DEF Held
<1>1. ASSUME UNCHANGED <<lines, group, orders, seen>> PROVE TheOrder' /\ SeenIsHeld'
  BY <1>0, <1>1 DEF TheOrder, SeenIsHeld
<1>2. ASSUME group = "open", UNCHANGED <<group, orders, seen>> PROVE TheOrder' /\ SeenIsHeld'
  BY <1>2 DEF TheOrder, SeenIsHeld
<1>3. CASE TimeIsUp \/ ReadLate \/ TaskStops \/ UNCHANGED groupVars
  BY <1>1, <1>3 DEF TimeIsUp, ReadLate, TaskStops, groupVars, GroupTypeOK
<1>4. ASSUME NEW g \in Guests, join(g) PROVE GroupInv'
  BY <1>1, <1>4 DEF join, GroupTypeOK
<1>5. ASSUME NEW l \in LineIds, NEW g \in Guests, add_line(l, g) PROVE GroupInv'
  <2>1. GroupTypeOK'
    BY <1>5, GroupCartAssumption DEF add_line, GroupTypeOK
  <2> QED  BY <1>2, <1>5, <2>1 DEF add_line, Contributable
<1>6. ASSUME NEW l \in LineIds, NEW g \in Guests, remove_line(l, g) PROVE GroupInv'
  <2>1. GroupTypeOK'
    BY <1>6, GroupCartAssumption DEF remove_line, GroupTypeOK, NoLine
  <2> QED  BY <1>2, <1>6, <2>1 DEF remove_line, Contributable
<1>7. ASSUME NEW l \in LineIds, NEW g \in Guests, NEW n \in 1..MostOfALine,
             set_quantity(l, g, n)
      PROVE  GroupInv'
  <2>1. GroupTypeOK'
    BY <1>7, GroupCartAssumption DEF set_quantity, GroupTypeOK
  <2> QED  BY <1>2, <1>7, <2>1 DEF set_quantity, Contributable
<1>8. ASSUME NEW target \in {"locked", "cancelled", "expired"}, _transition(target)
      PROVE  group' = target /\ group \in {"open", "locked"} /\ orders = {}
  BY <1>8 DEF _transition, GROUP_CART_TRANSITIONS, TheOrder, GroupTypeOK
<1>9. CASE lock
  BY <1>0, <1>8, <1>9 DEF lock, GroupTypeOK, TheOrder, SeenIsHeld
<1>10. CASE cancel_group
  BY <1>8, <1>10 DEF cancel_group, GroupTypeOK, TheOrder, SeenIsHeld
<1>11. CASE ExpireLate
  <2>1. CASE group \in EXPIRABLE
    BY <1>8, <1>11, <2>1 DEF ExpireLate, GroupTypeOK, TheOrder, SeenIsHeld
  <2>2. CASE group \notin EXPIRABLE
    BY <1>1, <1>11, <2>2 DEF ExpireLate, GroupTypeOK
  <2> QED  BY <2>1, <2>2
<1>12. CASE confirm
  <2>1. /\ group \in {"open", "locked"} /\ group' = "confirmed"
        /\ orders' = orders \cup {<<Cardinality(orders), Held>>}
        /\ seen' = IF group = "open" THEN Held ELSE seen
        /\ UNCHANGED <<late, members, lines, expiring>>
    BY <1>12 DEF confirm, Confirmable, EXPIRABLE
  <2>2. orders = {} /\ Cardinality(orders) = 0
    BY <2>1, FS_EmptySet DEF TheOrder
  <2>3. seen' = Held
    BY <2>1 DEF SeenIsHeld
  <2>4. TheOrder' /\ SeenIsHeld'
    BY <1>0, <2>1, <2>2, <2>3 DEF TheOrder, SeenIsHeld
  <2> QED  BY <2>1, <2>4 DEF GroupTypeOK
<1> QED
  BY <1>3, <1>4, <1>5, <1>6, <1>7, <1>9, <1>10, <1>11, <1>12 DEF GroupNext

(* Whatever friends add, the host touches and the task expires, one order  *)
(* at most comes out of a shared cart, made of the lines its host locked.  *)
THEOREM OneOrderHolds == SupplySpec => []OneOrderOfWhatWasSeen
<1>1. SupplyInit => GroupInv
  BY InitGroup DEF SupplyInit
<1>2. GroupInv /\ [SupplyNext]_supplyVars => GroupInv'
  BY StepGroup, SupplySteps
<1> QED
  BY <1>1, <1>2, GroupInvGives, PTL DEF SupplySpec

-----------------------------------------------------------------------------
(* Who serves an address.                                                  *)

(* Zones that compete have a strongest one, whatever they are: those of    *)
(* the kitchen before those of the city, each by their precedence.         *)
LEMMA SomeZoneWins ==
  ASSUME NEW S, S \subseteq Zones, S # {}, NEW k
  PROVE  Strongest(S, k) \in S
<1> DEFINE Own == {z \in S : Owner[z] = k}
           Best == IF Own # {} THEN Own ELSE S
           Ranks == {Precedence[z] : z \in Best}
<1>1. Best \subseteq S /\ Best # {} /\ Ranks # {} /\ Ranks \subseteq Nat
  BY TerritoryAssumption
<1>2. PICK least \in Ranks : \A n \in Ranks : least <= n
  <2> HIDE DEF Ranks
  <2> QED  BY <1>1, LeastNatural
<1>3. PICK z \in Best : Precedence[z] = least
  BY <1>2
<1>4. \A y \in Best \ {z} : Precedence[z] < Precedence[y]
  <2> SUFFICES ASSUME NEW y \in Best, y # z PROVE Precedence[z] < Precedence[y]
    OBVIOUS
  <2>1. Precedence[y] \in Nat /\ Precedence[z] \in Nat /\ Precedence[y] # Precedence[z]
    BY <1>1, TerritoryAssumption
  <2>2. Precedence[z] <= Precedence[y]
    BY <1>2, <1>3
  <2> QED  BY <2>1, <2>2
<1>5. z \in S /\ \A y \in S \ {z} : Stronger(z, y, k)
  <2> SUFFICES ASSUME NEW y \in S \ {z} PROVE Stronger(z, y, k)
    BY <1>1
  <2>1. CASE y \in Best
    <3>1. Precedence[z] < Precedence[y]
      BY <1>4, <2>1
    <3>2. Owner[z] = k <=> Owner[y] = k
      BY <1>3, <2>1
    <3> QED  BY <3>1, <3>2 DEF Stronger
  <2>2. CASE y \notin Best
    BY <1>3, <2>2 DEF Stronger
  <2> QED  BY <2>1, <2>2
<1> QED
  BY <1>5 DEF Strongest

LEMMA ResolvedIsZone ==
  ASSUME NEW k, NEW open
  PROVE  Resolved(k, open) # NoZone <=> Competing(k, open) # {}
<1>1. Competing(k, open) \subseteq Zones
  BY TerritoryAssumption DEF Competing, Candidates
<1> QED
  BY <1>1, SomeZoneWins, TerritoryAssumption DEF Resolved

LEMMA ServingHasZone ==
  ASSUME NEW k \in Kitchens
  PROVE  Competing(k, Zones) # {} <=>
           \E z \in covering_zones : \/ Owner[z] = TheCity /\ CityOf[z] = CityOf[Anchor[k]]
                                     \/ Owner[z] = k
<1>1. \A z \in Covering : z \in Zones /\ k # TheCity
  BY TerritoryAssumption
<1>2. \A z : z \in Competing(k, Zones) <=>
        /\ z \in Covering /\ zone[z] = "published"
        /\ \/ Owner[z] = TheCity /\ CityOf[z] = CityOf[Anchor[k]]
           \/ Owner[z] = k
  BY <1>1 DEF Competing, Candidates, Concurs
<1> QED
  BY <1>2 DEF covering_zones, IsActive

LEMMA NearestIsOne ==
  ASSUME NEW S, S \subseteq Kitchens, S # {} PROVE Nearest(S) \in S
<1> DEFINE Far == {Distance[k] : k \in S}
<1>1. Far # {} /\ Far \subseteq Nat
  BY TerritoryAssumption
<1>2. PICK least \in Far : \A n \in Far : least <= n
  <2> HIDE DEF Far
  <2> QED  BY <1>1, LeastNatural
<1>3. PICK k \in S : Distance[k] = least
  BY <1>2
<1>4. \A j \in S : Distance[k] <= Distance[j]
  BY <1>2, <1>3
<1> QED
  BY <1>4 DEF Nearest

LEMMA SameRule == SameRuleBothWays
<1>1. ASSUME NEW k \in Kitchens
      PROVE  k \in Desservantes <=>
               /\ kitchen[k].active /\ IsActive(Anchor[k])
               /\ Resolved(k, Zones) # NoZone
  <2>1. k \in Desservantes <=>
          /\ kitchen[k].active /\ IsActive(Anchor[k])
          /\ \E z \in covering_zones : \/ Owner[z] = TheCity /\ CityOf[z] = CityOf[Anchor[k]]
                                       \/ Owner[z] = k
    BY DEF Desservantes
  <2> QED  BY <2>1, ServingHasZone, ResolvedIsZone
<1>2. ASSUME NEW open \in SUBSET Kitchens, Chosen(open) # NoKitchen
      PROVE  Chosen(open) \in Desservantes
  <2> DEFINE able == {k \in Desservantes : Orderable(k, open)}
  <2>1. Desservantes \subseteq Kitchens /\ able \subseteq Desservantes
    BY DEF Desservantes
  <2>2. /\ able # {} => Nearest(able) \in able
        /\ Desservantes # {} => Nearest(Desservantes) \in Desservantes
    <3> HIDE DEF able
    <3> QED  BY <2>1, NearestIsOne
  <2>3. \/ able # {} /\ Chosen(open) = Nearest(able)
        \/ Desservantes # {} /\ Chosen(open) = Nearest(Desservantes)
        \/ Chosen(open) = NoKitchen
    BY DEF Chosen
  <2> QED  BY <1>2, <2>1, <2>2, <2>3
<1>3. Desservantes \subseteq Kitchens
  BY DEF Desservantes
<1> QED
  BY <1>1, <1>2, <1>3 DEF SameRuleBothWays

(* The kitchens the house may choose for an address are those that the     *)
(* address, asked kitchen by kitchen, finds a zone for: for any map of     *)
(* zones and kitchens.                                                     *)
THEOREM SameRuleHolds == SupplySpec => []SameRuleBothWays
<1> QED
  BY SameRule, PTL

(* A sheet is of a place, and its row is one of that place.                *)
LEMMA SheetIsOfAPlace ==
  ASSUME TerritoryTypeOK, NEW c \in Clerks
  PROVE  /\ sheet[c].on \in Kitchens => sheet[c].row \in KitchenRow
         /\ sheet[c].on \in Zones => sheet[c].row \in ZoneRow
<1>1. \/ sheet[c] = Closed
      \/ sheet[c].on \in Kitchens /\ sheet[c].row \in KitchenRow
      \/ sheet[c].on \in Zones /\ sheet[c].row \in ZoneRow
  BY DEF TerritoryTypeOK
<1> QED
  BY <1>1, TerritoryAssumption DEF Closed

LEMMA PublishedIsARow ==
  ASSUME NEW status \in DOMAIN RESTAURANT_TRANSITIONS, NEW accepts \in BOOLEAN
  PROVE  Published([status |-> status, accepts |-> accepts]) \in KitchenRow
BY DEF Published, KitchenRow

LEMMA MovedIsARow ==
  ASSUME NEW current \in KitchenRow, NEW read \in KitchenRow,
         NEW target \in DOMAIN RESTAURANT_TRANSITIONS
  PROVE  Moved(current, read, target) \in KitchenRow
BY DEF Moved, KitchenRow

LEMMA PlaceVerdicts ==
  ASSUME NEW k, NEW open, Verdict(k, open) = "served" PROVE Resolved(k, open) # NoZone
BY DEF Verdict, BlockedCode

LEMMA InitTerritoryTypes == TerritoryInit => TerritoryTypeOK
<1> SUFFICES ASSUME TerritoryInit PROVE TerritoryTypeOK
  OBVIOUS
<1>1. \A k \in Kitchens :
        Published([status |-> FirstStatus[k], accepts |-> TRUE]) \in KitchenRow
  BY TerritoryAssumption, PublishedIsARow
<1> QED
  BY <1>1, TerritoryAssumption DEF TerritoryInit, TerritoryTypeOK

LEMMA StepTerritoryTypes ==
  TerritoryTypeOK /\ [TerritoryNext]_territoryVars => TerritoryTypeOK'
<1> SUFFICES ASSUME TerritoryTypeOK, [TerritoryNext]_territoryVars PROVE TerritoryTypeOK'
  OBVIOUS
<1> DEFINE Sheets == {Closed} \cup [on : Kitchens, row : KitchenRow]
                              \cup [on : Zones, row : ZoneRow]
           Placings == {NotPlacing} \cup [at : {"judged"}, kitchen : Kitchens, zone : Zones]
<1>0. /\ zone \in [Zones -> DOMAIN ZONE_TRANSITIONS]
      /\ kitchen \in [Kitchens -> KitchenRow]
      /\ sheet \in [Clerks -> Sheets] /\ placing \in Placings
      /\ overtaken \subseteq Kitchens
  BY DEF TerritoryTypeOK
<1>1. ASSUME zone' \in [Zones -> DOMAIN ZONE_TRANSITIONS],
             kitchen' \in [Kitchens -> KitchenRow],
             sheet' \in [Clerks -> Sheets], placing' \in Placings,
             overtaken' \subseteq Kitchens
      PROVE  TerritoryTypeOK'
  BY <1>1 DEF TerritoryTypeOK
<1> HIDE DEF Sheets, Placings
<1>2. NotPlacing \in Placings
  BY DEF Placings
<1>c. ASSUME NEW c \in Clerks, CloseSheet(c) PROVE sheet' \in [Clerks -> Sheets]
  <2>1. Closed \in Sheets
    BY DEF Sheets
  <2> QED  BY <1>0, <1>c, <2>1 DEF CloseSheet
<1>3. CASE UNCHANGED territoryVars
  BY <1>0, <1>1, <1>3 DEF territoryVars
<1>4. ASSUME NEW z \in Zones, NEW target \in DOMAIN ZONE_TRANSITIONS, transition_zone(z, target)
      PROVE  TerritoryTypeOK'
  BY <1>0, <1>1, <1>4 DEF transition_zone
<1>5. ASSUME NEW c \in Clerks, NEW x \in Zones \cup Kitchens, OpenSheet(c, x)
      PROVE  TerritoryTypeOK'
  <2>1. [on |-> x, row |-> RowOf(x)] \in Sheets
    <3>1. x \in Zones => RowOf(x) \in ZoneRow
      BY <1>0 DEF RowOf, ZoneRow
    <3>2. x \in Kitchens => RowOf(x) \in KitchenRow
      BY <1>0, TerritoryAssumption DEF RowOf
    <3> QED  BY <1>5, <3>1, <3>2 DEF Sheets
  <2> QED  BY <1>0, <1>1, <1>5, <2>1 DEF OpenSheet
<1>6. ASSUME NEW c \in Clerks, SaveZoneSheet(c) PROVE TerritoryTypeOK'
  <2>1. sheet[c].row.status \in DOMAIN ZONE_TRANSITIONS
    BY <1>6, SheetIsOfAPlace DEF SaveZoneSheet, ZoneRow
  <2> QED  BY <1>0, <1>1, <1>c, <1>6, <2>1 DEF SaveZoneSheet
<1>7. ASSUME NEW c \in Clerks, NEW accepts \in BOOLEAN, SaveSheet(c, accepts)
      PROVE  TerritoryTypeOK'
  <2>1. sheet[c].row.status \in DOMAIN RESTAURANT_TRANSITIONS
    BY <1>7, SheetIsOfAPlace DEF SaveSheet, KitchenRow
  <2>2. Published([status |-> sheet[c].row.status, accepts |-> accepts]) \in KitchenRow
    BY <1>7, <2>1, PublishedIsARow
  <2> QED  BY <1>0, <1>1, <1>c, <1>7, <2>2 DEF SaveSheet
<1>8. ASSUME NEW c \in Clerks, NEW target \in DOMAIN RESTAURANT_TRANSITIONS,
             transition_to(c, target)
      PROVE  TerritoryTypeOK'
  <2>1. sheet[c].on \in Kitchens /\ sheet[c].row \in KitchenRow
    BY <1>8, SheetIsOfAPlace DEF transition_to
  <2>2. Moved(kitchen[sheet[c].on], sheet[c].row, target) \in KitchenRow
    BY <1>0, <1>8, <2>1, MovedIsARow
  <2> QED  BY <1>0, <1>1, <1>c, <1>8, <2>1, <2>2 DEF transition_to
<1>9. ASSUME NEW c \in Clerks, DropSheet(c) PROVE TerritoryTypeOK'
  BY <1>0, <1>1, <1>c, <1>9 DEF DropSheet
<1>10. CASE EndOrder
  BY <1>0, <1>1, <1>2, <1>10 DEF EndOrder
<1>11. ASSUME NEW k \in Kitchens, NEW open, can_accept_order(k, open) PROVE TerritoryTypeOK'
  <2>1. Resolved(k, open) # NoZone
    BY <1>11, PlaceVerdicts DEF can_accept_order
  <2>2. Resolved(k, open) \in Zones
    <3>1. Competing(k, open) \subseteq Zones
      BY TerritoryAssumption DEF Competing, Candidates
    <3> QED  BY <2>1, <3>1, SomeZoneWins DEF Resolved
  <2>3. [at |-> "judged", kitchen |-> k, zone |-> Resolved(k, open)] \in Placings
    BY <1>11, <2>2 DEF Placings
  <2> QED  BY <1>0, <1>1, <1>11, <2>3 DEF can_accept_order
<1> QED
  BY <1>3, <1>4, <1>5, <1>6, <1>7, <1>8, <1>9, <1>10, <1>11 DEF TerritoryNext

(* The kitchen whose row an order holds is published, not suspended, and   *)
(* takes orders; and the flag of a kitchen that no request has written     *)
(* from an overtaken row says what its status says.                        *)
PlacingInv ==
  /\ TerritoryTypeOK
  /\ NoOrderAfterThePause

OpenRow(row) == row.active /\ row.status # "inactive" /\ row.accepts
Aligned(row) == row.active <=> row.status = "active"

LEMMA PlacingByRows ==
  NoOrderAfterThePause <=>
    /\ placing.at = "judged" => OpenRow(kitchen[placing.kitchen])
    /\ \A k \in Kitchens \ overtaken : Aligned(kitchen[k])
BY DEF NoOrderAfterThePause, OpenRow, Aligned

LEMMA PublishedIsAligned ==
  ASSUME NEW status \in DOMAIN RESTAURANT_TRANSITIONS, NEW accepts \in BOOLEAN
  PROVE  Aligned(Published([status |-> status, accepts |-> accepts]))
BY DEF Published, Aligned

(* A status written from a row that is still the row: the flag follows.    *)
LEMMA MovedIsAligned ==
  ASSUME NEW current \in KitchenRow, NEW read \in KitchenRow,
         NEW target \in DOMAIN RESTAURANT_TRANSITIONS, current.active = read.active
  PROVE  Aligned(Moved(current, read, target))
<1>1. current.active \in BOOLEAN /\ read.active \in BOOLEAN
  BY DEF KitchenRow
<1>2. CASE target = "active"
  BY <1>1, <1>2 DEF Moved, Aligned
<1>3. CASE target # "active"
  BY <1>1, <1>3 DEF Moved, Aligned
<1> QED
  BY <1>2, <1>3

LEMMA InitPlacing == TerritoryInit => PlacingInv
<1> SUFFICES ASSUME TerritoryInit PROVE NoOrderAfterThePause
  BY InitTerritoryTypes DEF PlacingInv
<1>1. \A k \in Kitchens : Aligned(kitchen[k])
  BY TerritoryAssumption, PublishedIsAligned DEF TerritoryInit
<1>2. placing.at # "judged"
  BY DEF TerritoryInit, NotPlacing
<1> QED
  BY <1>1, <1>2, PlacingByRows

LEMMA StepPlacing == PlacingInv /\ [TerritoryNext]_territoryVars => PlacingInv'
<1> SUFFICES ASSUME PlacingInv, [TerritoryNext]_territoryVars PROVE NoOrderAfterThePause'
  BY StepTerritoryTypes DEF PlacingInv
<1>0. /\ TerritoryTypeOK
      /\ placing.at = "judged" => OpenRow(kitchen[placing.kitchen])
      /\ \A k \in Kitchens \ overtaken : Aligned(kitchen[k])
  BY PlacingByRows DEF PlacingInv
<1>a. ASSUME placing'.at = "judged" => OpenRow(kitchen'[placing'.kitchen]),
             \A k \in Kitchens \ overtaken' : Aligned(kitchen'[k])
      PROVE  NoOrderAfterThePause'
  BY <1>a DEF NoOrderAfterThePause, OpenRow, Aligned
<1>1. ASSUME UNCHANGED <<kitchen, placing, overtaken>> PROVE NoOrderAfterThePause'
  BY <1>0, <1>1, <1>a
<1>2. ASSUME NEW z \in Zones, NEW target \in DOMAIN ZONE_TRANSITIONS, transition_zone(z, target)
      PROVE  NoOrderAfterThePause'
  BY <1>1, <1>2 DEF transition_zone
<1>3. ASSUME NEW c \in Clerks, NEW x \in Zones \cup Kitchens, OpenSheet(c, x)
      PROVE  NoOrderAfterThePause'
  BY <1>1, <1>3 DEF OpenSheet
<1>4. ASSUME NEW c \in Clerks, SaveZoneSheet(c) \/ DropSheet(c) PROVE NoOrderAfterThePause'
  BY <1>1, <1>4 DEF SaveZoneSheet, DropSheet
<1>5. ASSUME NEW k \in Kitchens \ ShareLocked, NEW row, UNCHANGED placing,
             kitchen' = [kitchen EXCEPT ![k] = row],
             \/ Aligned(row) /\ overtaken' = overtaken \ {k}
             \/ overtaken' = overtaken \cup {k}
      PROVE  NoOrderAfterThePause'
  <2>1. placing.at = "judged" => placing.kitchen # k
    BY <1>5 DEF ShareLocked, HeldBy
  <2>2. \A j \in Kitchens : kitchen'[j] = IF j = k THEN row ELSE kitchen[j]
    BY <1>0, <1>5 DEF TerritoryTypeOK
  <2>3. placing.at = "judged" => placing.kitchen \in Kitchens
    BY <1>0 DEF TerritoryTypeOK, NotPlacing
  <2>4. \A j \in Kitchens \ overtaken' : Aligned(kitchen'[j])
    BY <1>0, <1>5, <2>2
  <2> QED  BY <1>0, <1>5, <1>a, <2>1, <2>2, <2>3, <2>4
<1>6. ASSUME NEW c \in Clerks, NEW accepts \in BOOLEAN, SaveSheet(c, accepts)
      PROVE  NoOrderAfterThePause'
  <2>1. sheet[c].row.status \in DOMAIN RESTAURANT_TRANSITIONS
    BY <1>0, <1>6, SheetIsOfAPlace DEF SaveSheet, KitchenRow
  <2>2. Aligned(Published([status |-> sheet[c].row.status, accepts |-> accepts]))
    BY <1>6, <2>1, PublishedIsAligned
  <2> QED  BY <1>5, <1>6, <2>2 DEF SaveSheet
<1>7. ASSUME NEW c \in Clerks, NEW target \in DOMAIN RESTAURANT_TRANSITIONS,
             transition_to(c, target)
      PROVE  NoOrderAfterThePause'
  <2> DEFINE k == sheet[c].on
             read == sheet[c].row
             row == Moved(kitchen[k], read, target)
  <2>1. /\ k \in Kitchens \ ShareLocked /\ UNCHANGED placing
        /\ kitchen' = [kitchen EXCEPT ![k] = row]
        /\ overtaken' = IF Fresh(k, read) THEN overtaken \ {k} ELSE overtaken \cup {k}
    BY <1>7 DEF transition_to
  <2>2. read \in KitchenRow /\ kitchen[k] \in KitchenRow
    BY <1>0, <1>7, <2>1, SheetIsOfAPlace DEF TerritoryTypeOK
  <2>3. Fresh(k, read) => Aligned(row)
    BY <1>7, <2>2, MovedIsAligned DEF Fresh
  <2> HIDE DEF k, read, row
  <2> QED  BY <1>5, <2>1, <2>3
<1>8. ASSUME NEW k \in Kitchens, NEW open, can_accept_order(k, open) PROVE NoOrderAfterThePause'
  BY <1>0, <1>8, <1>a DEF can_accept_order, Orderable, OpenRow
<1>9. CASE EndOrder
  BY <1>0, <1>9, <1>a DEF EndOrder, NotPlacing
<1>10. CASE UNCHANGED territoryVars
  BY <1>1, <1>10 DEF territoryVars
<1> QED
  BY <1>2, <1>3, <1>4, <1>6, <1>7, <1>8, <1>9, <1>10 DEF TerritoryNext

(* However the requests of staff interleave with an order being written,   *)
(* its kitchen stays published and takes orders until it commits; and only *)
(* a status written from an overtaken row leaves a flag that contradicts   *)
(* it.                                                                     *)
THEOREM NoOrderAfterThePauseHolds == SupplySpec => []NoOrderAfterThePause
<1>1. SupplyInit => PlacingInv
  BY InitPlacing DEF SupplyInit
<1>2. PlacingInv /\ [SupplyNext]_supplyVars => PlacingInv'
  BY StepPlacing, SupplySteps
<1> QED
  BY <1>1, <1>2, PTL DEF SupplySpec, PlacingInv

-----------------------------------------------------------------------------
(* When a place is open, and when it says it opens again.                  *)

(* A slot that holds at an hour is one of today's, or one of yesterday's   *)
(* that crosses midnight: no other day reaches that hour.                  *)
LEMMA SlotsCover ==
  ASSUME NEW slots, slots \subseteq Slot, NEW t \in Nat, t >= DayHours,
         \A s \in slots : s.opens # s.closes
  PROVE  slots_cover(slots, t) <=> \E s \in slots : SlotHolds(s, t)
<1> DEFINE D == DayHours
           W == WeekDays
           day == t \div D
           at == t % D
<1>1. D \in Int /\ D > 0 /\ W \in Int /\ W > 0
  BY CalendarAssumption
<1>2. day \in Int /\ at \in Int /\ 0 <= at /\ at < D /\ t = D * day + at
  BY <1>1, Divided
<1>3. day >= 1
  <2>1. ~(day <= 0)
    <3> SUFFICES ASSUME day <= 0 PROVE FALSE
      OBVIOUS
    <3>1. D * day <= D * 0 /\ D * 0 = 0
      BY <1>1, <1>2, Multiples
    <3> QED  BY <1>1, <1>2, <3>1
  <2> QED  BY <1>2, <2>1
<1>4. Weekday(t) = day % W /\ Yesterday(t) = (day - 1) % W
  <2>1. ((day % W) + W - 1) % W = (day - 1) % W
    BY <1>1, <1>2, DayBefore
  <2> QED  BY <2>1 DEF Weekday, Yesterday
<1> HIDE DEF day, at
<1>5. /\ D * day \in Int /\ day * D = D * day
      /\ (day - 1) * D = D * day - D
  BY <1>1, <1>2, Multiples
<1>6. ASSUME NEW s \in slots
      PROVE  /\ s.opens \in Int /\ 0 <= s.opens /\ s.opens < D
             /\ s.closes \in Int /\ 0 <= s.closes /\ s.closes < D /\ s.opens # s.closes
  BY <1>1 DEF Slot
<1> DEFINE From(s, d) == d * D + s.opens
           To(s, d) == d * D + s.closes + (IF s.closes < s.opens THEN D ELSE 0)
<1>7. ASSUME NEW s \in slots
      PROVE  SlotHolds(s, t) <=>
               \E d \in 0..day : d % W = s.weekday /\ From(s, d) <= t /\ t < To(s, d)
  BY DEF SlotHolds, day
<1>8. ASSUME NEW s \in slots, NEW d \in 0..day, d # day, d # day - 1 PROVE ~(t < To(s, d))
  <2>1. d \in Int /\ d + 1 \in Int /\ d + 1 < day /\ day \in Int
    BY <1>2, <1>8
  <2>2. D * (d + 1) + D <= D * day
    BY <1>1, <2>1, Multiples
  <2>3. D * (d + 1) = D * d + D /\ D * d \in Int /\ d * D = D * d
    BY <1>1, <2>1, Multiples
  <2>4. To(s, d) <= D * d + D + D
    BY <1>1, <1>6, <2>3
  <2>5. To(s, d) \in Int
    BY <1>1, <1>6, <2>3
  <2> HIDE DEF To
  <2> QED  BY <1>1, <1>2, <1>5, <2>2, <2>3, <2>4, <2>5
<1>9. ASSUME NEW s \in slots
      PROVE  TodayCovers(s, t) <=>
               s.weekday = day % W /\ From(s, day) <= t /\ t < To(s, day)
  <2>1. TodayCovers(s, t) <=>
          /\ s.weekday = day % W /\ s.opens <= at
          /\ s.closes < s.opens \/ at < s.closes
    BY <1>4 DEF TodayCovers, CrossesMidnight, at
  <2>2. From(s, day) <= t <=> s.opens <= at
    BY <1>1, <1>2, <1>5, <1>6
  <2>3. t < To(s, day) <=> s.closes < s.opens \/ at < s.closes
    BY <1>1, <1>2, <1>5, <1>6
  <2> HIDE DEF From, To
  <2> QED  BY <2>1, <2>2, <2>3
<1>10. ASSUME NEW s \in slots
       PROVE  s.weekday = Yesterday(t) /\ CrossesMidnight(s) /\ t % D < s.closes <=>
                s.weekday = (day - 1) % W /\ From(s, day - 1) <= t /\ t < To(s, day - 1)
  <2>1. From(s, day - 1) <= t
    BY <1>1, <1>2, <1>5, <1>6
  <2>2. t < To(s, day - 1) <=> s.closes < s.opens /\ at < s.closes
    BY <1>1, <1>2, <1>5, <1>6
  <2> HIDE DEF From, To
  <2> QED  BY <1>4, <2>1, <2>2 DEF CrossesMidnight, at
<1>11. day \in 0..day /\ day - 1 \in 0..day
  BY <1>2, <1>3
<1> HIDE DEF From, To
<1>12. ASSUME NEW s \in slots
       PROVE  SlotHolds(s, t) <=>
                \/ TodayCovers(s, t)
                \/ s.weekday = Yesterday(t) /\ CrossesMidnight(s) /\ t % D < s.closes
  BY <1>7, <1>8, <1>9, <1>10, <1>11
<1> QED
  BY <1>12 DEF slots_cover

(* The earliest of some instants is not changed by others that come later. *)
LEMMA SameEarliest ==
  ASSUME NEW S, NEW T, T \subseteq Nat, S \subseteq T,
         \A m \in T : (\A u \in T : m <= u) => m \in S
  PROVE  Earliest(S) = Earliest(T)
<1>1. CASE T = {}
  BY <1>1
<1>2. CASE T # {}
  <2>1. PICK m \in T : \A u \in T : m <= u
    BY <1>2, LeastNatural
  <2>2. m \in S /\ m \in Nat
    BY <2>1
  <2>3. Min(T) = m
    <3>1. \A x \in T : (\A y \in T : x =< y) => x = m
      BY <2>1, <2>2
    <3> QED  BY <2>1, <3>1 DEF Min
  <2>4. Min(S) = m
    <3>1. \A x \in S : (\A y \in S : x =< y) => x = m
      BY <2>1, <2>2
    <3>2. \A y \in S : m =< y
      BY <2>1
    <3> QED  BY <2>2, <3>1, <3>2 DEF Min
  <2> QED  BY <1>2, <2>2, <2>3, <2>4 DEF Earliest
<1> QED
  BY <1>1, <1>2

(* What the types say of a calendar.                                       *)
LEMMA CalendarFacts ==
  ASSUME CalendarTypeOK
  PROVE  /\ DayHours \in Int /\ DayHours > 0 /\ WeekDays \in Int /\ WeekDays > 0
         /\ hour \in Nat /\ hour >= DayHours
         /\ week \subseteq Slot /\ \A s \in week : s.opens # s.closes
         /\ \A e \in exceptions : e.span.from \in Nat /\ e.span.to \in Nat
<1>1. WeekDays * DayHours >= DayHours
  <2>1. DayHours * 1 <= DayHours * WeekDays /\ DayHours * 1 = DayHours
        /\ DayHours * WeekDays = WeekDays * DayHours
    BY CalendarAssumption, Multiples
  <2>2. DayHours * WeekDays \in Int
    BY CalendarAssumption, Multiples
  <2> QED  BY <2>1, <2>2
<1>2. WeekDays * DayHours \in Int
  BY CalendarAssumption
<1>3. hour \in Nat /\ hour >= DayHours
  BY <1>1, <1>2, CalendarAssumption DEF CalendarTypeOK
<1>4. \A e \in exceptions : e.span \in Spans
  BY DEF CalendarTypeOK, Exception
<1> QED
  BY <1>3, <1>4, CalendarAssumption DEF CalendarTypeOK

(* The readers of the code and the line of time agree, hour by hour.       *)
LEMMA OpenAsTheClockSays ==
  ASSUME CalendarTypeOK, NEW t \in Nat, t >= hour
  PROVE  IsOpen(t) <=> OpenByTheClock(t)
<1>1. slots_cover(week, t) <=> \E s \in week : SlotHolds(s, t)
  BY CalendarFacts, SlotsCover
<1>2. whose = "zone" \/ whose = "kitchen"
  BY DEF CalendarTypeOK
<1> QED
  BY <1>1, <1>2 DEF IsOpen, ZoneIsOpen, KitchenIsOpen, OpenByTheClock

(* The first hour of a slot that holds when the one before did not.        *)
LEMMA SlotStarts ==
  ASSUME CalendarTypeOK, NEW s \in week, NEW m \in Nat, m > hour,
         SlotHolds(s, m), ~SlotHolds(s, m - 1)
  PROVE  \E d \in Nat : /\ d % WeekDays = s.weekday /\ Today <= d
                        /\ m = d * DayHours + s.opens
<1> DEFINE D == DayHours
<1>1. /\ D \in Int /\ D > 0 /\ hour \in Nat
      /\ s.opens \in Int /\ 0 <= s.opens /\ s.opens < D /\ s.closes \in Int
  BY CalendarFacts DEF Slot
<1>2. PICK d \in 0..(m \div D) :
        /\ d % WeekDays = s.weekday /\ d * D + s.opens <= m
        /\ m < d * D + s.closes + (IF s.closes < s.opens THEN D ELSE 0)
  BY DEF SlotHolds
<1>3. m \div D \in Int /\ d \in Nat /\ d * D = D * d /\ D * d \in Int
  BY <1>1, Divided, Multiples
<1>4. m - 1 \in Int /\ m - 1 >= 0
  BY <1>1
<1>5. d * D + s.opens > m - 1
  <2>1. SUFFICES ASSUME d * D + s.opens <= m - 1 PROVE FALSE
    BY <1>1, <1>3, <1>4
  <2>2. d \in 0..((m - 1) \div D)
    <3> DEFINE q == (m - 1) \div D
               r == (m - 1) % D
    <3>1. q \in Int /\ r \in Int /\ 0 <= r /\ r < D /\ m - 1 = D * q + r
      BY <1>1, <1>4, Divided
    <3>2. D * d <= D * q + r
      BY <1>1, <1>3, <2>1, <3>1
    <3>3. d <= q
      <4> HIDE DEF q, r
      <4> QED  BY <1>1, <1>3, <3>1, <3>2, DayOfAnHour
    <3> QED  BY <1>3, <3>1, <3>3
  <2>3. m - 1 < d * D + s.closes + (IF s.closes < s.opens THEN D ELSE 0)
    <3>1. d * D + s.closes + (IF s.closes < s.opens THEN D ELSE 0) \in Int
      BY <1>1, <1>3
    <3> QED  BY <1>2, <3>1
  <2>4. SlotHolds(s, m - 1)
    BY <1>2, <2>1, <2>2, <2>3 DEF SlotHolds
  <2> QED  BY <2>4
<1>6. m = d * D + s.opens
  BY <1>1, <1>2, <1>3, <1>5
<1>7. Today <= d
  <2> DEFINE q == hour \div D
             r == hour % D
  <2>1. q \in Int /\ r \in Int /\ 0 <= r /\ r < D /\ hour = D * q + r
    BY <1>1, Divided
  <2>2. D * q \in Int
    BY <1>1, <2>1, Multiples
  <2>3. D * q <= D * d + s.opens
    <3> HIDE DEF q, r
    <3> QED  BY <1>1, <1>3, <1>6, <2>1, <2>2
  <2>4. q <= d
    <3> HIDE DEF q, r
    <3> QED  BY <1>1, <1>3, <2>1, <2>3, DayOfAnHour
  <2> QED  BY <2>4 DEF Today
<1> QED
  BY <1>2, <1>3, <1>6, <1>7

(* When a place opens, something of its calendar begins or ends.           *)
LEMMA SomethingChanges ==
  ASSUME CalendarTypeOK, NEW m \in Nat, m > hour, OpenByTheClock(m), ~OpenByTheClock(m - 1)
  PROVE  \/ \E e \in Unfinished : m = e.span.to
         \/ whose = "zone" /\ \E e \in Unfinished : m = e.span.from
         \/ \E s \in week : \E d \in Nat :
              /\ d % WeekDays = s.weekday /\ Today <= d
              /\ m = d * DayHours + s.opens
<1>1. hour \in Nat /\ \A e \in exceptions : e.span.from \in Nat /\ e.span.to \in Nat
  BY CalendarFacts
<1>2. CASE UnderWay("closed", m - 1)
  <2>1. PICK e \in exceptions : e.kind = "closed" /\ Covers(e, m - 1)
    BY <1>2 DEF UnderWay
  <2>2. ~Covers(e, m)
    BY <2>1 DEF OpenByTheClock, UnderWay
  <2>3. m = e.span.to
    BY <1>1, <2>1, <2>2 DEF Covers
  <2> QED  BY <1>1, <2>3 DEF Unfinished
<1>3. CASE ~UnderWay("closed", m - 1) /\ whose = "zone" /\ UnderWay("open", m)
  <2>1. PICK e \in exceptions : e.kind = "open" /\ Covers(e, m)
    BY <1>3 DEF UnderWay
  <2>2. ~Covers(e, m - 1)
    BY <1>3, <2>1 DEF OpenByTheClock, UnderWay
  <2>3. m = e.span.from /\ e.span.to > hour
    BY <1>1, <2>1, <2>2 DEF Covers
  <2> QED  BY <1>3, <2>3 DEF Unfinished
<1>4. CASE ~UnderWay("closed", m - 1) /\ ~(whose = "zone" /\ UnderWay("open", m))
  <2>1. ~(whose = "zone" /\ week = {}) /\ \A s \in week : ~SlotHolds(s, m - 1)
    BY <1>4 DEF OpenByTheClock
  <2>2. PICK s \in week : SlotHolds(s, m)
    BY <1>4, <2>1 DEF OpenByTheClock
  <2> QED  BY <2>1, <2>2, SlotStarts
<1> QED
  BY <1>2, <1>3, <1>4

(* A start of a slot, in the days that are searched.                       *)
LEMMA StartsHave ==
  ASSUME NEW days, NEW d \in days, NEW s \in week, d % WeekDays = s.weekday
  PROVE  d * DayHours + s.opens \in Starts(days)
<1>1. <<d, s>> \in {q \in days \X week : q[1] % WeekDays = q[2].weekday}
  OBVIOUS
<1> QED
  BY <1>1 DEF Starts

LEMMA StartsAre ==
  ASSUME NEW days, NEW t \in Starts(days)
  PROVE  \E d \in days, s \in week : t = d * DayHours + s.opens
BY DEF Starts

(* Each reader tries every hour at which its place may open, and no hour   *)
(* beyond the end of its search.                                           *)
LEMMA ZoneTries ==
  ASSUME CalendarTypeOK, whose = "zone", \A e \in exceptions : e.span.to < EndOfSearch
  PROVE  /\ ZoneBounds \subseteq {t \in Nat : hour < t /\ t < EndOfSearch}
         /\ \A m \in Nat :
              hour < m /\ m < EndOfSearch /\ OpenByTheClock(m) /\ ~OpenByTheClock(m - 1) =>
                m \in ZoneBounds
<1> DEFINE D == DayHours
           W == WeekDays
<1>1. /\ D \in Int /\ D > 0 /\ W \in Int /\ W > 0 /\ hour \in Nat
      /\ \A e \in exceptions : e.span.from \in Nat /\ e.span.to \in Nat
  BY CalendarFacts
<1>2. Today \in Nat
  <2> DEFINE q == hour \div D
             r == hour % D
  <2>1. q \in Int /\ r \in Int /\ 0 <= r /\ r < D /\ hour = D * q + r
    BY <1>1, Divided
  <2>2. D * 0 = 0 /\ D * 0 <= D * q + r
    BY <1>1, <2>1
  <2>3. 0 <= q
    <3> HIDE DEF q, r
    <3> QED  BY <1>1, <2>1, <2>2, DayOfAnHour
  <2> QED  BY <2>1, <2>3 DEF Today
<1>3. /\ EndOfSearch = D * (Today + W + 1) /\ EndOfSearch \in Int
  <2>1. Today + W + 1 \in Int
    BY <1>1, <1>2
  <2>2. D * (Today + W + 1) \in Int /\ D * (Today + W + 1) = (Today + W + 1) * D
    BY <1>1, <2>1, Multiples
  <2> QED  BY <2>2 DEF EndOfSearch
<1>4. ASSUME NEW d \in Nat, NEW s \in week
      PROVE  /\ d * D + s.opens \in Nat
             /\ d <= Today + W => d * D + s.opens < EndOfSearch
             /\ d * D + s.opens < EndOfSearch => d <= Today + W
  <2>1. s.opens \in Int /\ 0 <= s.opens /\ s.opens < D
    BY <1>1, CalendarFacts DEF Slot
  <2>2. d * D = D * d /\ D * d \in Int /\ D * d >= 0
    BY <1>1
  <2>3. d <= Today + W => D * d + D <= D * (Today + W + 1)
    <3>1. d < Today + W + 1 => D * d + D <= D * (Today + W + 1)
      BY <1>1, <1>2, Multiples
    <3> QED  BY <1>1, <1>2, <3>1
  <2>4. D * d + s.opens < D * (Today + W + 1) => d <= Today + W
    BY <1>1, <1>2, <2>1, DayOfAnHour
  <2> QED  BY <1>1, <1>3, <2>1, <2>2, <2>3, <2>4
<1>5. ASSUME NEW t \in ZoneBounds PROVE t \in Nat /\ hour < t /\ t < EndOfSearch
  <2>1. hour < t
    BY DEF ZoneBounds
  <2>2. CASE \E e \in Unfinished : t = e.span.from \/ t = e.span.to
    <3>1. PICK e \in exceptions : t = e.span.from \/ t = e.span.to
      BY <2>2 DEF Unfinished
    <3>2. e.span.from < e.span.to
      BY CalendarAssumption DEF CalendarTypeOK, Exception
    <3> QED  BY <1>1, <1>3, <2>1, <3>1, <3>2
  <2>3. CASE t \in Starts(Today..(Today + W))
    <3>1. PICK d \in Today..(Today + W), s \in week : t = d * D + s.opens
      BY <2>3, StartsAre
    <3>2. d \in Nat /\ d <= Today + W
      BY <1>1, <1>2
    <3> QED  BY <1>4, <2>1, <3>1, <3>2
  <2> QED  BY <2>2, <2>3 DEF ZoneBounds
<1>6. ASSUME NEW m \in Nat, hour < m, m < EndOfSearch, OpenByTheClock(m), ~OpenByTheClock(m - 1)
      PROVE  m \in ZoneBounds
  <2>1. CASE \E e \in Unfinished : m = e.span.to \/ m = e.span.from
    BY <1>1, <1>6, <2>1 DEF ZoneBounds
  <2>2. CASE \E s \in week : \E d \in Nat :
               d % W = s.weekday /\ Today <= d /\ m = d * D + s.opens
    <3>1. PICK s \in week, d \in Nat : d % W = s.weekday /\ Today <= d /\ m = d * D + s.opens
      BY <2>2
    <3>2. d \in Today..(Today + W)
      BY <1>1, <1>2, <1>4, <1>6, <3>1
    <3>3. m \in Starts(Today..(Today + W))
      BY <3>1, <3>2, StartsHave
    <3> QED  BY <1>1, <1>6, <3>3 DEF ZoneBounds
  <2> QED  BY <1>6, <2>1, <2>2, SomethingChanges
<1> QED
  BY <1>5, <1>6

LEMMA KitchenTries ==
  ASSUME CalendarTypeOK, whose = "kitchen"
  PROVE  /\ EndOfSearch \in Nat /\ KitchenBounds \subseteq {t \in Nat : hour <= t /\ t < EndOfSearch}
         /\ \A m \in Nat :
              hour < m /\ m < EndOfSearch /\ OpenByTheClock(m) /\ ~OpenByTheClock(m - 1) =>
                m \in KitchenBounds
<1> DEFINE D == DayHours
           W == WeekDays
<1>1. /\ D \in Int /\ D > 0 /\ W \in Int /\ W > 0 /\ hour \in Nat
      /\ \A e \in exceptions : e.span.from \in Nat /\ e.span.to \in Nat
  BY CalendarFacts
<1>2. Today \in Int /\ hour < D * (Today + 1)
  <2> DEFINE q == hour \div D
             r == hour % D
  <2>1. q \in Int /\ r \in Int /\ 0 <= r /\ r < D /\ hour = D * q + r
    BY <1>1, Divided
  <2>2. D * (q + 1) = D * q + D /\ D * q \in Int
    BY <1>1, <2>1, Multiples
  <2>3. hour < D * (q + 1)
    <3> HIDE DEF q, r
    <3> QED  BY <1>1, <2>1, <2>2
  <2> QED  BY <2>1, <2>3 DEF Today
<1>3. Limit = hour + D * (W + 1) /\ Limit \in Nat /\ EndOfSearch = Limit + 1
  <2>1. D * (W + 1) \in Int /\ D * (W + 1) >= 0 /\ D * (W + 1) = (W + 1) * D
    BY <1>1
  <2> QED  BY <1>1, <2>1 DEF Limit, EndOfSearch
<1>4. ASSUME NEW t \in KitchenBounds PROVE t \in Nat /\ hour <= t /\ t < EndOfSearch
  <2>1. hour <= t /\ t <= Limit
    BY DEF KitchenBounds
  <2>2. t \in Int
    <3>1. CASE t = hour \/ \E e \in Unfinished : t = e.span.to
      BY <1>1, <3>1 DEF Unfinished
    <3>2. CASE t \in Starts((Today - 1)..(Today + W + 1))
      <4>1. PICK d \in (Today - 1)..(Today + W + 1), s \in week : t = d * D + s.opens
        BY <3>2, StartsAre
      <4>2. d \in Int /\ s.opens \in Int
        BY <1>1, <1>2, CalendarFacts DEF Slot
      <4>3. d * D \in Int
        BY <1>1, <4>2
      <4> QED  BY <4>1, <4>2, <4>3
    <3> QED  BY <3>1, <3>2 DEF KitchenBounds
  <2> QED  BY <1>1, <1>3, <2>1, <2>2
<1>5. ASSUME NEW m \in Nat, hour < m, m < EndOfSearch, OpenByTheClock(m), ~OpenByTheClock(m - 1)
      PROVE  m \in KitchenBounds
  <2>1. m <= Limit
    BY <1>3, <1>5
  <2>2. CASE \E e \in Unfinished : m = e.span.to
    BY <1>1, <1>5, <2>1, <2>2 DEF KitchenBounds
  <2>3. CASE \E s \in week : \E d \in Nat :
               d % W = s.weekday /\ Today <= d /\ m = d * D + s.opens
    <3>1. PICK s \in week, d \in Nat : d % W = s.weekday /\ Today <= d /\ m = d * D + s.opens
      BY <2>3
    <3>2. s.opens \in Int /\ 0 <= s.opens /\ s.opens < D
      BY <1>1, CalendarFacts DEF Slot
    <3>3. m < D * (Today + W + 1 + 1)
      <4>1. D * (Today + W + 1 + 1) = D * (Today + 1) + D * (W + 1)
        BY <1>1, <1>2
      <4>2. D * (W + 1) \in Int /\ D * (Today + 1) \in Int
        BY <1>1, <1>2
      <4> QED  BY <1>1, <1>2, <1>3, <2>1, <4>1, <4>2
    <3>4. d <= Today + W + 1
      <4>1. d * D = D * d
        BY <1>1
      <4> QED  BY <1>1, <1>2, <3>1, <3>2, <3>3, <4>1, DayOfAnHour
    <3>5. d \in (Today - 1)..(Today + W + 1)
      BY <1>1, <1>2, <3>1, <3>4
    <3>6. m \in Starts((Today - 1)..(Today + W + 1))
      BY <3>1, <3>5, StartsHave
    <3> QED  BY <1>1, <1>5, <2>1, <3>6 DEF KitchenBounds
  <2> QED  BY <1>5, <2>2, <2>3, SomethingChanges
<1> QED
  BY <1>3, <1>4, <1>5

LEMMA CalendarTells == CalendarTypeOK => ReopensWhenTold
<1> SUFFICES ASSUME CalendarTypeOK PROVE ReopensWhenTold
  OBVIOUS
<1>1. hour \in Nat /\ (whose = "zone" \/ whose = "kitchen")
  BY CalendarFacts DEF CalendarTypeOK
<1>2. IsOpen(hour) <=> OpenByTheClock(hour)
  BY <1>1, OpenAsTheClockSays
<1>3. ASSUME ~IsOpen(hour), whose = "zone" => \A e \in exceptions : e.span.to < EndOfSearch
      PROVE  Reopens = Earliest({t \in hour..(EndOfSearch - 1) : OpenByTheClock(t)})
  <2> DEFINE Bounds == IF whose = "zone" THEN ZoneBounds ELSE KitchenBounds
             S == {t \in Bounds : IsOpen(t)}
             T == {t \in hour..(EndOfSearch - 1) : OpenByTheClock(t)}
  <2>1. Reopens = Earliest(S)
    BY <1>1 DEF Reopens, ZoneReopens, KitchenReopens, IsOpen
  <2>2. EndOfSearch \in Int
    <3>1. CASE whose = "kitchen"
      BY <3>1, KitchenTries
    <3>2. CASE whose = "zone"
      <4>1. /\ hour \div DayHours \in Int /\ WeekDays \in Int /\ DayHours \in Int
        BY <1>1, CalendarFacts, Divided
      <4>2. Today + WeekDays + 1 \in Int
        BY <4>1 DEF Today
      <4>3. (Today + WeekDays + 1) * DayHours \in Int
        BY <4>1, <4>2
      <4> QED  BY <3>2, <4>3 DEF EndOfSearch
    <3> QED  BY <1>1, <3>1, <3>2
  <2>3. /\ Bounds \subseteq {t \in Nat : hour <= t /\ t < EndOfSearch}
        /\ \A m \in Nat :
             hour < m /\ m < EndOfSearch /\ OpenByTheClock(m) /\ ~OpenByTheClock(m - 1) =>
               m \in Bounds
    <3>1. CASE whose = "zone"
      BY <1>1, <1>3, <3>1, ZoneTries
    <3>2. CASE whose = "kitchen"
      BY <3>2, KitchenTries
    <3> QED  BY <1>1, <3>1, <3>2
  <2> HIDE DEF Bounds
  <2>4. T \subseteq Nat
    BY <1>1, <2>2
  <2>5. ASSUME NEW t \in Bounds, IsOpen(t) PROVE t \in T
    <3>1. t \in Nat /\ hour <= t /\ t < EndOfSearch
      BY <2>3
    <3>2. OpenByTheClock(t)
      BY <1>1, <2>5, <3>1, OpenAsTheClockSays
    <3> QED  BY <1>1, <2>2, <3>1, <3>2
  <2>6. ASSUME NEW m \in T, \A u \in T : m <= u PROVE m \in S
    <3>1. m \in Nat /\ hour <= m /\ m < EndOfSearch /\ OpenByTheClock(m)
      BY <1>1, <2>2
    <3>2. m # hour
      BY <1>2, <1>3, <3>1
    <3>3. ~OpenByTheClock(m - 1)
      <4>1. m - 1 \in hour..(EndOfSearch - 1) /\ ~(m <= m - 1)
        BY <1>1, <2>2, <3>1, <3>2
      <4> QED  BY <2>6, <4>1
    <3>4. m \in Bounds
      BY <1>1, <2>3, <3>1, <3>2, <3>3
    <3> QED  BY <1>1, <3>1, <3>4, OpenAsTheClockSays
  <2>7. S \subseteq T
    BY <2>5
  <2> HIDE DEF S, T
  <2>8. Earliest(S) = Earliest(T)
    BY <2>4, <2>6, <2>7, SameEarliest
  <2> QED  BY <2>1, <2>8 DEF T
<1> QED
  BY <1>2, <1>3 DEF ReopensWhenTold

LEMMA InitCalendar == CalendarInit => CalendarTypeOK
BY CalendarAssumption DEF CalendarInit, CalendarTypeOK

LEMMA StepCalendar == CalendarTypeOK /\ [CalendarNext]_calendarVars => CalendarTypeOK'
<1> SUFFICES ASSUME CalendarTypeOK, [CalendarNext]_calendarVars PROVE CalendarTypeOK'
  OBVIOUS
<1> USE DEF CalendarTypeOK
<1>1. CASE UNCHANGED calendarVars
  BY <1>1 DEF calendarVars
<1>2. ASSUME NEW w \in Timetables, replace_zone_hours(w) \/ ChangeOneSlot(w) PROVE CalendarTypeOK'
  BY <1>2 DEF replace_zone_hours, ChangeOneSlot
<1>3. ASSUME NEW e \in Exception, AddException(e) \/ RemoveException(e) PROVE CalendarTypeOK'
  BY <1>3 DEF AddException, RemoveException
<1>4. CASE HourPasses
  BY <1>4, CalendarAssumption DEF HourPasses
<1> QED
  BY <1>1, <1>2, <1>3, <1>4 DEF CalendarNext

(* A place that is closed is said to open again at the first hour it does, *)
(* and at no other, for any week, any exceptions, any length of a day and  *)
(* of a week: midnight, closures and exceptional openings included.        *)
THEOREM ReopensWhenToldHolds == SupplySpec => []ReopensWhenTold
<1>1. SupplyInit => CalendarTypeOK
  BY InitCalendar DEF SupplyInit
<1>2. CalendarTypeOK /\ [SupplyNext]_supplyVars => CalendarTypeOK'
  BY StepCalendar, SupplySteps
<1> QED
  BY <1>1, <1>2, CalendarTells, PTL DEF SupplySpec

-----------------------------------------------------------------------------
(* The rows that orders, cancellations and fires lock.                     *)

LEMMA LengthsAdd ==
  ASSUME NEW A, NEW x \in Seq(A), NEW y \in Seq(A) PROVE Len(x \o y) = Len(x) + Len(y)
OBVIOUS

(* The n-th ingredient of an order, sorted, has n - 1 of them before it:   *)
(* they come in the order of their identifiers.                            *)
LEMMA SortedInOrder ==
  ASSUME NEW s \in Sales
  PROVE  /\ Len(MaterialRows[s]) \in Nat /\ DOMAIN Sorted[s] = 1..Len(MaterialRows[s])
         /\ \A n \in DOMAIN Sorted[s] : Sorted[s][n] \in Materials
         /\ \A i, j \in DOMAIN Sorted[s] : i < j => Rank[Sorted[s][i]] < Rank[Sorted[s][j]]
<1> DEFINE q == MaterialRows[s]
           M == ToSet(q)
           L == Len(q)
           pos == [m \in M |-> Cardinality(Before(s, m))]
<1>1. q \in Seq(Materials) /\ L \in Nat /\ DOMAIN q = 1..L /\ M \subseteq Materials
  BY RowLocksAssumption DEF ToSet
<1>2. IsFiniteSet(M) /\ Cardinality(M) = L
  <2>1. q \in [1..L -> M] /\ \A m \in M : \E n \in 1..L : q[n] = m
    BY <1>1 DEF ToSet
  <2>3. \A i, j \in 1..L : q[i] = q[j] => i = j
    BY <1>1, RowLocksAssumption
  <2>4. q \in Bijection(1..L, M)
    <3> HIDE DEF q, M, L
    <3> QED  BY <2>1, <2>3 DEF Bijection, Injection, Surjection, IsInjective
  <2>2. IsFiniteSet(1..L) /\ Cardinality(1..L) = L
    BY <1>1, FS_Interval
  <2> QED
    BY <2>2, <2>4, FS_Bijection DEF ExistsBijection
<1>3. \A m \in M : Rank[m] \in Nat
  BY <1>1, RowLocksAssumption
<1>4. ASSUME NEW m \in M
      PROVE  IsFiniteSet(Before(s, m)) /\ Cardinality(Before(s, m)) \in 0..(L - 1)
  <2>1. Before(s, m) \subseteq M /\ m \notin Before(s, m)
    BY <1>3 DEF Before
  <2>2. IsFiniteSet(Before(s, m)) /\ Cardinality(Before(s, m)) <= L
        /\ Cardinality(Before(s, m)) # L
    BY <1>2, <2>1, FS_Subset
  <2> QED  BY <1>1, <2>2, FS_CardinalityType
<1>5. ASSUME NEW a \in M, NEW b \in M, Rank[a] < Rank[b] PROVE pos[a] < pos[b]
  <2>1. Before(s, a) \subseteq Before(s, b) /\ a \in Before(s, b) /\ a \notin Before(s, a)
    BY <1>3, <1>5 DEF Before
  <2>2. Cardinality(Before(s, a)) <= Cardinality(Before(s, b))
        /\ Cardinality(Before(s, a)) # Cardinality(Before(s, b))
    BY <1>4, <2>1, FS_Subset
  <2> QED  BY <1>4, <2>2
<1>6. pos \in Injection(M, 0..(L - 1))
  <2>1. pos \in [M -> 0..(L - 1)]
    BY <1>4
  <2>2. ASSUME NEW a \in M, NEW b \in M, pos[a] = pos[b] PROVE a = b
    <3>1. ~(pos[a] < pos[b]) /\ ~(pos[b] < pos[a])
      BY <2>1, <2>2
    <3>2. Rank[a] = Rank[b]
      BY <1>3, <1>5, <3>1
    <3>3. \A k, l \in Materials : Rank[k] = Rank[l] => k = l
      BY RowLocksAssumption
    <3> QED  BY <1>1, <2>2, <3>2, <3>3
  <2> HIDE DEF pos
  <2> QED  BY <2>1, <2>2 DEF Injection, IsInjective
<1>7. pos \in Surjection(M, 0..(L - 1))
  <2>1. IsFiniteSet(0..(L - 1)) /\ Cardinality(0..(L - 1)) = L
    <3>1. L - 1 \in Int /\ ((L - 1) - 0) + 1 = L /\ (0 > L - 1 => L = 0)
      BY <1>1
    <3> HIDE DEF L
    <3> QED  BY <3>1, FS_Interval
  <2> QED  BY <1>2, <1>6, <2>1, FS_Injection
<1>8. ASSUME NEW n \in 1..L PROVE Sorted[s][n] \in M /\ pos[Sorted[s][n]] = n - 1
  <2>1. n - 1 \in 0..(L - 1)
    BY <1>1
  <2>2. \E m \in M : Cardinality(Before(s, m)) = n - 1
    BY <1>7, <2>1 DEF Surjection
  <2>3. Sorted[s][n] = CHOOSE m \in M : Cardinality(Before(s, m)) = n - 1
    BY <1>1 DEF Sorted
  <2> QED  BY <2>2, <2>3
<1>9. DOMAIN Sorted[s] = 1..L
  BY <1>1 DEF Sorted
<1>10. ASSUME NEW i \in 1..L, NEW j \in 1..L, i < j
       PROVE  Rank[Sorted[s][i]] < Rank[Sorted[s][j]]
  <2> DEFINE a == Sorted[s][i]
             b == Sorted[s][j]
  <2>1. a \in M /\ b \in M /\ pos[a] = i - 1 /\ pos[b] = j - 1
    BY <1>8
  <2> HIDE DEF a, b, pos
  <2>2. ~(pos[b] < pos[a]) /\ pos[a] # pos[b]
    BY <1>1, <1>10, <2>1
  <2>3. ~(Rank[b] < Rank[a]) /\ a # b
    BY <1>5, <2>1, <2>2
  <2>4. Rank[a] # Rank[b]
    BY <1>1, <2>1, <2>3, RowLocksAssumption
  <2>5. Rank[a] < Rank[b]
    BY <1>3, <2>1, <2>3, <2>4
  <2> QED  BY <2>5 DEF a, b
<1> QED
  BY <1>1, <1>8, <1>9, <1>10

(* Of two ingredients among the rows of a transaction, the later has the   *)
(* greater identifier.                                                     *)
LEMMA RowsClimb ==
  ASSUME NEW w \in Tasks
  PROVE  /\ Len(Rows(w)) \in Nat
         /\ \A i, j \in 1..Len(Rows(w)) :
              i < j /\ Rows(w)[i] \in Materials /\ Rows(w)[j] \in Materials =>
                Rank[Rows(w)[i]] < Rank[Rows(w)[j]]
<1> DEFINE s == Task[w].sale
           q == Sorted[s]
           L == Len(MaterialRows[s])
           AllRows == OtherRows \cup Materials
<1>1. s \in Sales /\ Task[w].kind \in Kinds /\ OtherRows \cap Materials = {}
  BY RowLocksAssumption
<1>2. DishRows[s] \in Seq(OtherRows) /\ CouponRow[s] \in Seq(OtherRows) /\ <<s>> \in Seq(OtherRows)
  <2>1. s \in OtherRows
    BY <1>1 DEF OtherRows
  <2> QED  BY <1>1, <2>1, RowLocksAssumption
<1>3. /\ L \in Nat /\ DOMAIN q = 1..L /\ \A n \in 1..L : q[n] \in Materials
      /\ \A i, j \in 1..L : i < j => Rank[q[i]] < Rank[q[j]]
  BY <1>1, SortedInOrder
<1>4. q \in Seq(Materials) /\ Len(q) = L
  <2>1. q = [n \in 1..L |-> q[n]]
    <3>1. q = [n \in DOMAIN MaterialRows[s] |->
                 CHOOSE m \in ToSet(MaterialRows[s]) : Cardinality(Before(s, m)) = n - 1]
      BY <1>1 DEF Sorted
    <3>2. q = [n \in DOMAIN q |-> q[n]]
      BY <3>1
    <3> HIDE DEF q
    <3> QED  BY <1>3, <3>2
  <2>2. q \in [1..L -> Materials]
    BY <1>3, <2>1
  <2> HIDE DEF q
  <2> QED  BY <1>3, <2>2
<1> HIDE DEF q
<1>5. ASSUME NEW h \in Seq(OtherRows), NEW t \in Seq(OtherRows), Rows(w) = h \o q \o t
      PROVE  /\ Len(Rows(w)) \in Nat
             /\ \A i, j \in 1..Len(Rows(w)) :
                  i < j /\ Rows(w)[i] \in Materials /\ Rows(w)[j] \in Materials =>
                    Rank[Rows(w)[i]] < Rank[Rows(w)[j]]
  <2>1. h \in Seq(AllRows) /\ q \in Seq(AllRows) /\ t \in Seq(AllRows)
    BY <1>4
  <2> HIDE DEF AllRows, L
  <2>2. /\ Len(Rows(w)) = Len(h) + L + Len(t) /\ Len(h) \in Nat /\ Len(t) \in Nat
        /\ \A n \in 1..Len(h) : Rows(w)[n] = h[n]
        /\ \A n \in 1..L : Rows(w)[Len(h) + n] = q[n]
        /\ \A n \in 1..Len(t) : Rows(w)[Len(h) + L + n] = t[n]
    <3>1. (h \o q) \in Seq(AllRows) /\ Len(h \o q) = Len(h) + L /\ Len(h) \in Nat
      BY <1>4, <2>1
    <3>2. Len(Rows(w)) = Len(h) + L + Len(t) /\ Len(t) \in Nat
      <4> DEFINE g == h \o q
      <4>1. g \in Seq(AllRows) /\ Len(g) = Len(h) + L /\ Rows(w) = g \o t
        BY <1>5, <3>1
      <4> HIDE DEF g
      <4>2. Len(t) \in Nat
        BY <2>1
      <4>3. Len(g \o t) = Len(g) + Len(t)
        BY <2>1, <4>1, LengthsAdd
      <4> QED  BY <4>1, <4>2, <4>3
    <3>3. ASSUME NEW n \in 1..(Len(h) + L) PROVE Rows(w)[n] = (h \o q)[n]
      BY <1>3, <1>5, <2>1, <3>1, <3>3
    <3>4. \A n \in 1..Len(h) : Rows(w)[n] = h[n]
      BY <1>3, <1>4, <2>1, <3>1, <3>3
    <3>5. \A n \in 1..L : Rows(w)[Len(h) + n] = q[n]
      BY <1>3, <1>4, <2>1, <3>1, <3>3
    <3>6. ASSUME NEW n \in 1..Len(t) PROVE Rows(w)[Len(h) + L + n] = t[n]
      <4> DEFINE g == h \o q
      <4>1. g \in Seq(AllRows) /\ Len(g) = Len(h) + L /\ Rows(w) = g \o t /\ Len(g) \in Nat
        BY <1>3, <1>5, <3>1
      <4> HIDE DEF g
      <4>2. (g \o t)[Len(g) + n] = t[n]
        BY <1>5, <2>1, <3>2, <3>6, <4>1
      <4> QED  BY <4>1, <4>2
    <3> QED  BY <3>1, <3>2, <3>4, <3>5, <3>6
  <2>3. ASSUME NEW n \in 1..Len(Rows(w)), Rows(w)[n] \in Materials
        PROVE  n - Len(h) \in 1..L /\ Rows(w)[n] = q[n - Len(h)]
    <3>1. n \notin 1..Len(h)
      <4> SUFFICES ASSUME n \in 1..Len(h) PROVE FALSE
        OBVIOUS
      <4>1. h[n] \in OtherRows
        BY <1>5
      <4> QED  BY <1>1, <2>2, <2>3, <4>1
    <3>2. n - (Len(h) + L) \notin 1..Len(t)
      <4> SUFFICES ASSUME n - (Len(h) + L) \in 1..Len(t) PROVE FALSE
        OBVIOUS
      <4>1. Rows(w)[n] = t[n - (Len(h) + L)]
        <5>1. Len(h) + L + (n - (Len(h) + L)) = n
          BY <1>3, <2>2
        <5> QED  BY <2>2, <5>1
      <4>2. t[n - (Len(h) + L)] \in OtherRows
        <5>1. \A k \in 1..Len(t) : t[k] \in OtherRows
          BY <1>5
        <5> QED  BY <5>1
      <4> QED  BY <1>1, <2>3, <4>1, <4>2
    <3>3. n - Len(h) \in 1..L
      BY <1>3, <2>2, <3>1, <3>2
    <3> QED  BY <2>2, <3>3
  <2>4. ASSUME NEW i \in 1..Len(Rows(w)), NEW j \in 1..Len(Rows(w)), i < j,
               Rows(w)[i] \in Materials, Rows(w)[j] \in Materials
        PROVE  Rank[Rows(w)[i]] < Rank[Rows(w)[j]]
    <3>1. i - Len(h) \in 1..L /\ Rows(w)[i] = q[i - Len(h)]
      BY <2>3, <2>4
    <3>2. j - Len(h) \in 1..L /\ Rows(w)[j] = q[j - Len(h)]
      BY <2>3, <2>4
    <3>3. i - Len(h) < j - Len(h)
      BY <2>2, <2>4
    <3> QED  BY <1>3, <3>1, <3>2, <3>3
  <2> QED  BY <1>3, <2>2, <2>4
<1>6. CASE Task[w].kind = "create"
  BY <1>2, <1>5, <1>6 DEF Rows, q
<1>7. CASE Task[w].kind = "cancel"
  <2> DEFINE h == <<s>> \o CouponRow[s] \o DishRows[s]
  <2>1. h \in Seq(OtherRows) /\ <<>> \in Seq(OtherRows)
    BY <1>2
  <2>2. Rows(w) = h \o q
    BY <1>7 DEF Rows, q
  <2>3. h \o q = h \o q \o <<>>
    BY <1>4, <2>1
  <2> HIDE DEF h
  <2> QED  BY <1>5, <2>1, <2>2, <2>3
<1>8. CASE Task[w].kind = "fire"
  <2> DEFINE h == <<s>>
  <2>1. h \in Seq(OtherRows) /\ <<>> \in Seq(OtherRows)
    BY <1>2
  <2>2. Rows(w) = h \o q
    BY <1>8 DEF Rows, q
  <2>3. h \o q = h \o q \o <<>>
    BY <1>4, <2>1
  <2> HIDE DEF h
  <2> QED  BY <1>5, <2>1, <2>2, <2>3
<1> QED
  BY <1>1, <1>6, <1>7, <1>8 DEF Kinds

(* Whoever waits for an ingredient waits for a transaction that has it and *)
(* wants a greater one: the greatest wanted of a set waits for nobody in it.*)
LEMMA NoCycle == LocksTypeOK => NoCycleOfIngredients
<1> SUFFICES ASSUME LocksTypeOK, NEW c \in Cycles, \A w \in c : OnIngredient(w)
             PROVE  FALSE
  BY DEF NoCycleOfIngredients
<1>1. c \subseteq Tasks /\ c # {} /\ \A v \in c : \E w \in c : WaitsFor(v, w)
  BY DEF Cycles, Stuck
<1>2. IsFiniteSet(c)
  BY <1>1, RowLocksAssumption, FS_Subset
<1> DEFINE next(w) == Rows(w)[held[w] + 1]
<1>3. ASSUME NEW w \in c
      PROVE  /\ ended[w] = "running" /\ held[w] \in Nat /\ held[w] < Len(Rows(w))
             /\ Wanted(w) = {next(w)} /\ next(w) \in Materials /\ Rank[next(w)] \in Nat
  <2>1. Wanted(w) # {} /\ Wanted(w) \subseteq Materials
    BY <1>1, <1>3 DEF WaitsFor, OnIngredient
  <2>2. ended[w] = "running" /\ held[w] < Len(Rows(w)) /\ Wanted(w) = {next(w)}
    BY <2>1 DEF Wanted
  <2>3. held[w] \in Nat
    BY <1>1 DEF LocksTypeOK
  <2> QED  BY <2>1, <2>2, <2>3, RowLocksAssumption
<1>4. ASSUME NEW v \in c, NEW w \in c, WaitsFor(v, w) PROVE Rank[next(v)] < Rank[next(w)]
  <2>1. next(v) \in Locked(w)
    BY <1>3, <1>4 DEF WaitsFor
  <2>2. PICK n \in 1..held[w] : next(v) = Rows(w)[n]
    BY <1>3, <2>1 DEF Locked
  <2>3. Len(Rows(w)) \in Nat /\ held[w] \in Nat /\ held[w] < Len(Rows(w))
    BY <1>1, <1>3, RowsClimb
  <2>4. n \in 1..Len(Rows(w)) /\ held[w] + 1 \in 1..Len(Rows(w)) /\ n < held[w] + 1
    BY <2>3
  <2>5. Rows(w)[n] \in Materials /\ Rows(w)[held[w] + 1] \in Materials
    BY <1>3, <2>2
  <2> QED  BY <1>1, <2>2, <2>4, <2>5, RowsClimb
<1> DEFINE Above(v) == {u \in c : Rank[next(v)] <= Rank[next(u)]}
           Aboves == {Above(v) : v \in c}
<1> HIDE DEF next
<1>5. Aboves \subseteq SUBSET c /\ Aboves # {}
  BY <1>1
<1>6. PICK T \in Aboves : \A U \in Aboves : U \subseteq T => U = T
  <2> HIDE DEF Aboves
  <2> QED  BY <1>2, <1>5, SmallestSubset
<1>7. PICK v \in c : T = Above(v)
  OBVIOUS
<1>8. PICK w \in c : WaitsFor(v, w)
  BY <1>1
<1>9. Rank[next(v)] < Rank[next(w)] /\ Rank[next(v)] \in Nat /\ Rank[next(w)] \in Nat
  BY <1>3, <1>4, <1>8
<1>10. Above(w) \subseteq Above(v) /\ v \in Above(v) /\ v \notin Above(w)
  BY <1>3, <1>9
<1> QED
  BY <1>6, <1>7, <1>10

LEMMA InitLocks == LocksInit => LocksTypeOK
BY DEF LocksInit, LocksTypeOK

LEMMA StepLocks == LocksTypeOK /\ [LocksNext]_locksVars => LocksTypeOK'
BY DEF LocksTypeOK, LocksNext, KillOne, LockRow, CommitTask, locksVars, Cycles

(* No circle of transactions waits on rows of ingredients alone, for any   *)
(* orders, recipes and tasks: each locks them in the one order of rank.    *)
THEOREM NoCycleHolds == SupplySpec => []NoCycleOfIngredients
<1>1. SupplyInit => LocksTypeOK
  BY InitLocks DEF SupplyInit
<1>2. LocksTypeOK /\ [SupplyNext]_supplyVars => LocksTypeOK'
  BY StepLocks, SupplySteps
<1> QED
  BY <1>1, <1>2, NoCycle, PTL DEF SupplySpec

-----------------------------------------------------------------------------
(* The order: its key, its promotion, its dishes.                          *)

DishRow == [tracked : BOOLEAN, quantity : Nat]
FormIsARow ==
  /\ form.row \in Plates => form.read \in DishRow
  /\ form.row = "promotion" => form.read \in Nat
CheckoutTypes == CheckoutTypeOK /\ FormIsARow
KeyRow == [status : {"free", "inFlight", "completed"},
           reply : Requests \cup {"none"}, purged : BOOLEAN]

LEMMA KeyIsARow ==
  ASSUME NEW row \in KeyRow, NEW status \in {"free", "inFlight", "completed"},
         NEW reply \in Requests \cup {"none"}
  PROVE  /\ [row EXCEPT !.status = status] \in KeyRow
         /\ [row EXCEPT !.status = status, !.reply = reply] \in KeyRow
BY DEF KeyRow

LEMMA OrderIsARow ==
  ASSUME NEW S, NEW row \in [status : {"none", "open", "cancelled"}, basket : S, taken : S]
  PROVE  [row EXCEPT !.status = "cancelled"]
           \in [status : {"none", "open", "cancelled"}, basket : S, taken : S]
OBVIOUS

LEMMA QuantityIsARow ==
  ASSUME NEW row \in DishRow, NEW n \in Nat
  PROVE  [row EXCEPT !.quantity = n] \in DishRow
BY DEF DishRow

LEMMA InitCheckoutTypes == CheckoutInit => CheckoutTypes
<1> SUFFICES ASSUME CheckoutInit PROVE CheckoutTypes
  OBVIOUS
<1> USE CheckoutAssumption DEF CheckoutInit
<1>1. Empty \in [Plates -> 0..CartLimit]
  BY DEF Empty
<1>2. /\ cart \in [Customers -> [Plates -> 0..CartLimit]]
      /\ request \in [Requests -> [at : {"idle", "ended"} \cup AtWork,
                                   basket : [Plates -> 0..CartLimit]]]
  BY <1>1
<1>3. key \in [Keys -> [status : {"free", "inFlight", "completed"},
                        reply : Requests \cup {"none"}, purged : BOOLEAN]]
  BY DEF FreeKey
<1>4. NoOrder \in [status : {"none", "open", "cancelled"},
                   basket : [Plates -> 0..CartLimit], taken : [Plates -> 0..CartLimit]]
  BY <1>1 DEF NoOrder
<1>5. stock \in [Plates -> DishRow]
  <2>1. ASSUME NEW p \in Plates
        PROVE  [tracked |-> p \in PlatesTracked, quantity |-> PlatesOnHand[p]] \in DishRow
    <3>1. (p \in PlatesTracked) \in BOOLEAN /\ PlatesOnHand[p] \in Nat
      OBVIOUS
    <3> QED  BY <3>1, Zenon DEF DishRow
  <2> QED  BY <2>1
<1>6. given \in [Plates -> Int] /\ usedCount \in Nat /\ redemptions \subseteq Requests
  OBVIOUS
<1>7. form.row = "none" /\ FormIsARow
  BY DEF NoForm, FormIsARow
<1> QED
  BY <1>2, <1>3, <1>4, <1>5, <1>6, <1>7 DEF CheckoutTypes, CheckoutTypeOK, DishRow

LEMMA StepCheckoutTypes == CheckoutTypes /\ [CheckoutNext]_checkoutVars => CheckoutTypes'
<1> SUFFICES ASSUME CheckoutTypes, [CheckoutNext]_checkoutVars PROVE CheckoutTypes'
  OBVIOUS
<1> USE CheckoutAssumption
    DEF CheckoutTypes, CheckoutTypeOK, checkoutVars, purchases, goods, coupons, forms
<1>0. Empty \in [Plates -> 0..CartLimit]
  BY DEF Empty
<1>a. key \in [Keys -> KeyRow] /\ stock \in [Plates -> DishRow] /\ \A r \in Requests : KeyOf[r] \in Keys
  BY DEF KeyRow, DishRow
<1>1. ASSUME UNCHANGED forms PROVE FormIsARow'
  BY <1>1 DEF FormIsARow
<1>2. ASSUME NEW r \in Requests, NEW from, NEW to \in {"idle", "ended"} \cup AtWork,
             Step(r, from, to)
      PROVE  request' \in [Requests -> [at : {"idle", "ended"} \cup AtWork,
                                        basket : [Plates -> 0..CartLimit]]]
  BY <1>0, <1>2 DEF Step
<1>3. CASE UNCHANGED checkoutVars
  BY <1>1, <1>3
<1>4. ASSUME NEW c \in Customers, NEW p \in Plates, AddToCart(c, p) PROVE CheckoutTypes'
  <2>1. cart' \in [Customers -> [Plates -> 0..CartLimit]]
    BY <1>4 DEF AddToCart
  <2> QED  BY <1>1, <1>4, <2>1 DEF AddToCart
<1>5. ASSUME NEW r \in Requests, Reserve(r) PROVE CheckoutTypes'
  <2>1. key' = [key EXCEPT ![KeyOf[r]] = [key[KeyOf[r]] EXCEPT !.status = "inFlight"]]
    BY <1>5 DEF Reserve
  <2>3. key[KeyOf[r]] \in KeyRow /\ "none" \in Requests \cup {"none"} /\ r \in Requests \cup {"none"}
    BY <1>a
  <2>4. [key[KeyOf[r]] EXCEPT !.status = "inFlight"] \in KeyRow
    BY <2>3, KeyIsARow
  <2>2. key' \in [Keys -> KeyRow]
    BY <1>a, <2>1, <2>4
  <2> QED  BY <1>1, <1>2, <1>5, <2>2 DEF Reserve, AtWork, KeyRow
<1>6. ASSUME NEW r \in Requests, ToldToWait(r) \/ Replay(r) \/ Refused(r) \/ RequestDies(r)
      PROVE  CheckoutTypes'
  BY <1>1, <1>2, <1>6 DEF ToldToWait, Replay, Refused, RequestDies, AtWork
<1>7. ASSUME NEW r \in Requests, PriceCart(r) PROVE CheckoutTypes'
  BY <1>1, <1>7 DEF PriceCart, AtWork
<1>8. ASSUME NEW r \in Requests, ReleaseKey(r) PROVE CheckoutTypes'
  <2>1. key' = [key EXCEPT ![KeyOf[r]] =
                  IF key[KeyOf[r]].status = "inFlight"
                  THEN [key[KeyOf[r]] EXCEPT !.status = "free"] ELSE key[KeyOf[r]]]
    BY <1>8 DEF ReleaseKey
  <2>2. key[KeyOf[r]] \in KeyRow /\ "none" \in Requests \cup {"none"}
    BY <1>a
  <2>3. [key[KeyOf[r]] EXCEPT !.status = "free"] \in KeyRow
    BY <2>2, KeyIsARow
  <2>4. key' \in [Keys -> KeyRow]
    BY <1>a, <2>1, <2>2, <2>3
  <2> QED  BY <1>1, <1>2, <1>8, <2>4 DEF ReleaseKey, AtWork, KeyRow
<1>9. ASSUME NEW r \in Requests, Complete(r) PROVE CheckoutTypes'
  <2>1. key' = [key EXCEPT ![KeyOf[r]] =
                  [key[KeyOf[r]] EXCEPT !.status = "completed", !.reply = r]]
    BY <1>9 DEF Complete
  <2>3. key[KeyOf[r]] \in KeyRow /\ "none" \in Requests \cup {"none"} /\ r \in Requests \cup {"none"}
    BY <1>a
  <2>4. [key[KeyOf[r]] EXCEPT !.status = "completed", !.reply = r] \in KeyRow
    BY <2>3, KeyIsARow
  <2>2. key' \in [Keys -> KeyRow]
    BY <1>a, <2>1, <2>4
  <2> QED  BY <1>1, <1>2, <1>9, <2>2 DEF Complete, AtWork, KeyRow
<1>10. ASSUME NEW r \in Requests, NEW withCode \in BOOLEAN, Place(r, withCode)
       PROVE  CheckoutTypes'
  <2> DEFINE b == request[r].basket
  <2>1. b \in [Plates -> 0..CartLimit]
    OBVIOUS
  <2>2. TakenFrom(b) \in [Plates -> 0..CartLimit]
    BY <2>1 DEF TakenFrom
  <2>3. order' \in [Requests -> [status : {"none", "open", "cancelled"},
          basket : [Plates -> 0..CartLimit], taken : [Plates -> 0..CartLimit]]]
    <3>1. order' = [order EXCEPT ![r] = [status |-> "open", basket |-> b, taken |-> TakenFrom(b)]]
      BY <1>10 DEF Place
    <3> HIDE DEF b
    <3> QED  BY <2>1, <2>2, <3>1
  <2>4. stock' \in [Plates -> [tracked : BOOLEAN, quantity : Nat]]
    <3>1. stock' = [p \in Plates |-> [stock[p] EXCEPT !.quantity = @ - TakenFrom(b)[p]]]
      BY <1>10 DEF Place
    <3>2. \A p \in Plates : InStock(b, p)
      BY <1>10 DEF Place
    <3>3. ASSUME NEW p \in Plates
          PROVE  [stock[p] EXCEPT !.quantity = @ - TakenFrom(b)[p]] \in DishRow
      <4> HIDE DEF b
      <4>1. stock[p].quantity \in Nat /\ b[p] \in Nat
        BY <2>1
      <4>2. TakenFrom(b)[p] = IF stock[p].tracked THEN b[p] ELSE 0
        BY DEF TakenFrom
      <4>3. stock[p].quantity - TakenFrom(b)[p] \in Nat
        BY <3>2, <4>1, <4>2 DEF InStock
      <4> QED  BY <1>a, <4>3, QuantityIsARow
    <3> HIDE DEF b
    <3>4. stock' \in [Plates -> DishRow]
      BY <3>1, <3>3
    <3> QED  BY <3>4 DEF DishRow
  <2>5. cart' \in [Customers -> [Plates -> 0..CartLimit]]
    BY <1>0, <1>10 DEF Place
  <2>6. usedCount' \in Nat /\ redemptions' \subseteq Requests
    BY <1>10 DEF Place
  <2> QED  BY <1>1, <1>2, <1>10, <2>3, <2>4, <2>5, <2>6 DEF Place, AtWork
<1>11. ASSUME NEW r \in Requests, CancelOrder(r) PROVE CheckoutTypes'
  <2>1. stock' \in [Plates -> [tracked : BOOLEAN, quantity : Nat]]
    <3>1. ASSUME NEW p \in Plates
          PROVE  [stock[p] EXCEPT !.quantity = @ + Restored(order[r].basket, p)] \in DishRow
      <4>1. stock[p].quantity \in Nat /\ order[r].basket[p] \in Nat
        OBVIOUS
      <4>2. stock[p].quantity + Restored(order[r].basket, p) \in Nat
        BY <4>1 DEF Restored
      <4> QED  BY <1>a, <4>2, QuantityIsARow
    <3>2. stock' = [p \in Plates |->
                     [stock[p] EXCEPT !.quantity = @ + Restored(order[r].basket, p)]]
      BY <1>11 DEF CancelOrder
    <3>3. stock' \in [Plates -> DishRow]
      BY <3>1, <3>2
    <3> QED  BY <3>3 DEF DishRow
  <2>2. order' \in [Requests -> [status : {"none", "open", "cancelled"},
          basket : [Plates -> 0..CartLimit], taken : [Plates -> 0..CartLimit]]]
    <3>1. order' = [order EXCEPT ![r] = [order[r] EXCEPT !.status = "cancelled"]]
      BY <1>11 DEF CancelOrder
    <3>2. [order[r] EXCEPT !.status = "cancelled"] \in [status : {"none", "open", "cancelled"},
            basket : [Plates -> 0..CartLimit], taken : [Plates -> 0..CartLimit]]
      <4>1. order[r] \in [status : {"none", "open", "cancelled"},
              basket : [Plates -> 0..CartLimit], taken : [Plates -> 0..CartLimit]]
        OBVIOUS
      <4> QED  BY <4>1, OrderIsARow
    <3> QED  BY <3>1, <3>2
  <2>3. usedCount' \in Nat /\ redemptions' \subseteq Requests
    BY <1>11 DEF CancelOrder
  <2> QED  BY <1>1, <1>11, <2>1, <2>2, <2>3 DEF CancelOrder
<1>12. ASSUME NEW k \in Keys, Purge(k) PROVE CheckoutTypes'
  BY <1>1, <1>12 DEF Purge, FreeKey
<1>13. ASSUME NEW p \in Plates, NEW n \in Counts, SetStock(p, n) PROVE CheckoutTypes'
  <2>1. n \in Nat /\ stock' = [stock EXCEPT ![p] = [stock[p] EXCEPT !.quantity = n]]
    BY <1>13 DEF SetStock
  <2>2. [stock[p] EXCEPT !.quantity = n] \in DishRow
    BY <1>a, <2>1, QuantityIsARow
  <2>3. stock' \in [Plates -> DishRow]
    BY <1>a, <2>1, <2>2
  <2>4. stock[p].quantity \in Nat /\ given[p] \in Int /\ given[p] + n - stock[p].quantity \in Int
    BY <2>1
  <2>5. given' \in [Plates -> Int]
    BY <1>13, <2>4 DEF SetStock
  <2> QED  BY <1>13, <2>3, <2>5 DEF SetStock, FormIsARow, DishRow
<1>14. ASSUME NEW p \in Plates, OpenDishForm(p) PROVE CheckoutTypes'
  BY <1>14 DEF OpenDishForm, FormIsARow, DishRow
<1>15. ASSUME NEW p \in Plates, NEW counted \in BOOLEAN, SaveDishForm(p, counted)
       PROVE  CheckoutTypes'
  <2>1. form.read.quantity \in Nat
    BY <1>15 DEF SaveDishForm, FormIsARow, DishRow
  <2>2. stock' \in [Plates -> [tracked : BOOLEAN, quantity : Nat]]
    BY <1>15, <2>1 DEF SaveDishForm
  <2> QED  BY <1>15, <2>2 DEF SaveDishForm, FormIsARow
<1>16. CASE OpenPromotionForm
  BY <1>16 DEF OpenPromotionForm, FormIsARow
<1>17. CASE SavePromotionForm
  BY <1>17 DEF SavePromotionForm, FormIsARow
<1> QED
  BY <1>3, <1>4, <1>5, <1>6, <1>7, <1>8, <1>9, <1>10, <1>11, <1>12, <1>13, <1>14,
     <1>15, <1>16, <1>17 DEF CheckoutNext, Proceeds

-----------------------------------------------------------------------------
(* Idempotency keys.                                                       *)

Made(r) == order[r].status # "none"
Working(r) == request[r].at \in AtWork

(* A request at work holds its key alone, and made an order once it is     *)
(* past the transaction of the order, never before.                        *)
OneAtWork ==
  \A r \in Requests : Working(r) =>
    /\ key[KeyOf[r]].status = "inFlight"
    /\ \A s \in Requests : Working(s) /\ KeyOf[s] = KeyOf[r] => s = r
MadeInTime ==
  \A r \in Requests :
    /\ request[r].at \in {"idle", "reserved", "priced", "failed"} => ~Made(r)
    /\ request[r].at = "created" => Made(r)

(* While a key is not purged, an order made under it is the only one, no   *)
(* other request works under it, and a completed key shows it.             *)
MadeAlone ==
  \A r \in Requests : Made(r) /\ ~key[KeyOf[r]].purged =>
    /\ key[KeyOf[r]].status # "free"
    /\ key[KeyOf[r]].status = "completed" => key[KeyOf[r]].reply = r
    /\ \A s \in Requests : KeyOf[s] = KeyOf[r] /\ (Made(s) \/ Working(s)) => s = r
ReplyIsMade ==
  \A k \in Keys : key[k].status = "completed" /\ ~key[k].purged =>
    key[k].reply \in Requests /\ KeyOf[key[k].reply] = k /\ Made(key[k].reply)

KeysInv == OneAtWork /\ MadeInTime /\ MadeAlone /\ ReplyIsMade

LEMMA InitKeys == CheckoutInit => KeysInv
BY CheckoutAssumption
   DEF CheckoutInit, KeysInv, OneAtWork, MadeInTime, MadeAlone, ReplyIsMade, Made, Working,
       AtWork, NoOrder, FreeKey

LEMMA KeysInvGives == KeysInv => OneOrderPerKey
<1> SUFFICES ASSUME KeysInv, NEW k \in Keys, ~key[k].purged
             PROVE  LET made == {r \in Requests : KeyOf[r] = k /\ order[r].status # "none"} IN
                    /\ Cardinality(made) <= 1
                    /\ key[k].status = "completed" => made = {key[k].reply}
  BY DEF OneOrderPerKey
<1> DEFINE made == {r \in Requests : KeyOf[r] = k /\ order[r].status # "none"}
<1>1. \A r, s \in made : r = s
  BY DEF KeysInv, MadeAlone, Made
<1>2. Cardinality(made) <= 1
  <2>1. CASE made = {}
    BY <2>1, FS_EmptySet
  <2>2. ASSUME NEW r \in made PROVE Cardinality(made) <= 1
    <3>1. made = {r}
      BY <1>1
    <3> HIDE DEF made
    <3>2. Cardinality({r}) = 1
      BY FS_Singleton
    <3> QED  BY <3>1, <3>2
  <2> QED  BY <2>1, <2>2
<1>3. ASSUME key[k].status = "completed" PROVE made = {key[k].reply}
  <2>1. key[k].reply \in made
    BY <1>3 DEF KeysInv, ReplyIsMade, Made
  <2> QED  BY <1>1, <2>1
<1> QED
  BY <1>2, <1>3

(* What a request changes of itself, its key and its order.                *)
LEMMA RequestMoves ==
  ASSUME CheckoutTypeOK, NEW r \in Requests, NEW from, NEW to, Step(r, from, to)
  PROVE  /\ request[r].at = from
         /\ \A s \in Requests : request'[s].at = IF s = r THEN to ELSE request[s].at
BY DEF Step, CheckoutTypeOK

LEMMA StepKeys == CheckoutTypes /\ KeysInv /\ [CheckoutNext]_checkoutVars => KeysInv'
<1> SUFFICES ASSUME CheckoutTypes, KeysInv, [CheckoutNext]_checkoutVars PROVE KeysInv'
  OBVIOUS
<1> USE CheckoutAssumption DEF checkoutVars, purchases, KeysInv
<1>0. /\ CheckoutTypeOK /\ \A r \in Requests : KeyOf[r] \in Keys
      /\ key \in [Keys -> KeyRow] /\ \A k \in Keys : key[k] \in KeyRow
  BY DEF CheckoutTypes, CheckoutTypeOK, KeyRow
<1>1. ASSUME UNCHANGED purchases PROVE KeysInv'
  BY <1>1 DEF OneAtWork, MadeInTime, MadeAlone, ReplyIsMade, Made, Working
<1>2. ASSUME UNCHANGED order PROVE \A s : Made(s)' = Made(s)
  BY <1>2 DEF Made
<1>3. ASSUME NEW r \in Requests, Reserve(r) PROVE KeysInv'
  <2>1. /\ request[r].at = "idle" /\ key[KeyOf[r]].status = "free"
        /\ \A s \in Requests : request'[s].at = IF s = r THEN "reserved" ELSE request[s].at
    BY <1>0, <1>3, RequestMoves DEF Reserve, Reservable
  <2>2. key' = [key EXCEPT ![KeyOf[r]] = [key[KeyOf[r]] EXCEPT !.status = "inFlight"]]
    BY <1>3 DEF Reserve
  <2>3. \A j \in Keys : key'[j] = IF j = KeyOf[r] THEN [key[j] EXCEPT !.status = "inFlight"] ELSE key[j]
    BY <1>0, <2>2
  <2>4. \A j \in Keys : /\ key'[j].status = IF j = KeyOf[r] THEN "inFlight" ELSE key[j].status
                       /\ key'[j].purged = key[j].purged /\ key'[j].reply = key[j].reply
    BY <1>0, <2>3 DEF KeyRow
  <2>5. \A s : Made(s)' = Made(s)
    BY <1>2, <1>3 DEF Reserve
  <2>6. \A s \in Requests : Working(s)' = (s = r \/ Working(s))
    BY <2>1 DEF Working, AtWork
  <2>7. \A s \in Requests : Working(s) => KeyOf[s] # KeyOf[r]
    BY <2>1 DEF OneAtWork
  <2>8. OneAtWork'
    BY <1>0, <2>4, <2>6, <2>7 DEF OneAtWork
  <2>9. MadeInTime'
    BY <2>1, <2>5 DEF MadeInTime
  <2>10. MadeAlone'
    BY <1>0, <2>1, <2>4, <2>5, <2>6 DEF MadeAlone
  <2>11. ReplyIsMade'
    BY <1>0, <2>4, <2>5 DEF ReplyIsMade
  <2> QED  BY <2>8, <2>9, <2>10, <2>11
<1>4. ASSUME NEW r \in Requests, NEW from, NEW to \in {"ended", "failed"}, Step(r, from, to),
             from \in AtWork \cup {"idle"}, to = "failed" => from \in {"reserved", "priced"},
             UNCHANGED <<key, order>>
      PROVE  KeysInv'
  <2>1. /\ request[r].at = from
        /\ \A s \in Requests : request'[s].at = IF s = r THEN to ELSE request[s].at
    BY <1>0, <1>4, RequestMoves
  <2>2. \A s : Made(s)' = Made(s)
    BY <1>2, <1>4
  <2>3. \A s \in Requests : Working(s)' => Working(s)
    BY <1>4, <2>1 DEF Working, AtWork
  <2>4. OneAtWork'
    BY <1>0, <1>4, <2>3 DEF OneAtWork
  <2>5. MadeInTime'
    BY <1>4, <2>1, <2>2 DEF MadeInTime
  <2>6. MadeAlone'
    BY <1>0, <1>4, <2>2, <2>3 DEF MadeAlone
  <2>7. ReplyIsMade'
    BY <1>0, <1>4, <2>2 DEF ReplyIsMade
  <2> QED  BY <2>4, <2>5, <2>6, <2>7
<1>5. ASSUME NEW r \in Requests, ToldToWait(r) \/ Replay(r) PROVE KeysInv'
  BY <1>4, <1>5 DEF ToldToWait, Replay, AtWork
<1>6. ASSUME NEW r \in Requests, Refused(r) PROVE KeysInv'
  BY <1>4, <1>6 DEF Refused, AtWork
<1>7. ASSUME NEW r \in Requests, RequestDies(r) PROVE KeysInv'
  BY <1>4, <1>7 DEF RequestDies, AtWork
<1>8. ASSUME NEW r \in Requests, PriceCart(r) PROVE KeysInv'
  <2>1. /\ request[r].at = "reserved" /\ UNCHANGED <<key, order>>
        /\ \A s \in Requests : request'[s].at = IF s = r THEN "priced" ELSE request[s].at
    BY <1>0, <1>8 DEF PriceCart, CheckoutTypeOK
  <2>2. \A s : Made(s)' = Made(s)
    BY <1>2, <2>1
  <2>3. \A s \in Requests : Working(s)' = Working(s)
    BY <2>1 DEF Working, AtWork
  <2>4. OneAtWork'
    BY <1>0, <2>1, <2>3 DEF OneAtWork
  <2>5. MadeInTime'
    BY <2>1, <2>2 DEF MadeInTime
  <2>6. MadeAlone'
    BY <1>0, <2>1, <2>2, <2>3 DEF MadeAlone
  <2>7. ReplyIsMade'
    BY <1>0, <2>1, <2>2 DEF ReplyIsMade
  <2> QED  BY <2>4, <2>5, <2>6, <2>7
<1>9. ASSUME NEW r \in Requests, NEW withCode \in BOOLEAN, Place(r, withCode) PROVE KeysInv'
  <2>1. /\ request[r].at = "priced" /\ UNCHANGED key
        /\ \A s \in Requests : request'[s].at = IF s = r THEN "created" ELSE request[s].at
    BY <1>0, <1>9, RequestMoves DEF Place
  <2>2. \A s \in Requests : Made(s)' = (s = r \/ Made(s))
    BY <1>0, <1>9 DEF Place, Made, CheckoutTypeOK
  <2>3. \A s \in Requests : Working(s)' = Working(s)
    BY <2>1 DEF Working, AtWork
  <2>4. key[KeyOf[r]].status = "inFlight" /\ ~Made(r) /\ Working(r)
    BY <2>1 DEF OneAtWork, MadeInTime, Working, AtWork
  <2>5. \A s \in Requests : KeyOf[s] = KeyOf[r] /\ ~key[KeyOf[r]].purged => ~Made(s)
    BY <2>4 DEF MadeAlone
  <2>6. OneAtWork'
    BY <1>0, <2>1, <2>3 DEF OneAtWork
  <2>7. MadeInTime'
    BY <2>1, <2>2 DEF MadeInTime
  <2>8. \A s \in Requests : Working(s) /\ KeyOf[s] = KeyOf[r] => s = r
    BY <2>4 DEF OneAtWork
  <2>9. MadeAlone'
    BY <1>0, <2>1, <2>2, <2>3, <2>4, <2>5, <2>8 DEF MadeAlone
  <2>10. ReplyIsMade'
    BY <1>0, <2>1, <2>2 DEF ReplyIsMade
  <2> QED  BY <2>6, <2>7, <2>9, <2>10
<1>10. ASSUME NEW r \in Requests, ReleaseKey(r) PROVE KeysInv'
  <2>1. /\ request[r].at = "failed"
        /\ \A s \in Requests : request'[s].at = IF s = r THEN "ended" ELSE request[s].at
    BY <1>0, <1>10, RequestMoves DEF ReleaseKey
  <2>2. Working(r) /\ key[KeyOf[r]].status = "inFlight" /\ ~Made(r)
    BY <2>1 DEF OneAtWork, MadeInTime, Working, AtWork
  <2>3. key' = [key EXCEPT ![KeyOf[r]] = [key[KeyOf[r]] EXCEPT !.status = "free"]]
    BY <1>10, <2>2 DEF ReleaseKey
  <2>4. \A j \in Keys : key'[j] = IF j = KeyOf[r] THEN [key[j] EXCEPT !.status = "free"] ELSE key[j]
    BY <1>0, <2>3
  <2>5. \A j \in Keys : /\ key'[j].status = IF j = KeyOf[r] THEN "free" ELSE key[j].status
                       /\ key'[j].purged = key[j].purged /\ key'[j].reply = key[j].reply
    BY <1>0, <2>4 DEF KeyRow
  <2>6. \A s : Made(s)' = Made(s)
    BY <1>2, <1>10 DEF ReleaseKey
  <2>7. \A s \in Requests : Working(s)' = (s # r /\ Working(s))
    BY <2>1 DEF Working, AtWork
  <2>8. \A s \in Requests : Working(s) /\ KeyOf[s] = KeyOf[r] => s = r
    BY <2>2 DEF OneAtWork
  <2>9. \A s \in Requests : KeyOf[s] = KeyOf[r] /\ ~key[KeyOf[r]].purged => ~Made(s)
    BY <2>2 DEF MadeAlone
  <2>10. OneAtWork'
    BY <1>0, <2>5, <2>7, <2>8 DEF OneAtWork
  <2>11. MadeInTime'
    BY <2>1, <2>6 DEF MadeInTime
  <2>12. MadeAlone'
    BY <1>0, <2>5, <2>6, <2>7, <2>9 DEF MadeAlone
  <2>13. ReplyIsMade'
    BY <1>0, <2>5, <2>6 DEF ReplyIsMade
  <2> QED  BY <2>10, <2>11, <2>12, <2>13
<1>11. ASSUME NEW r \in Requests, Complete(r) PROVE KeysInv'
  <2>1. /\ request[r].at = "created"
        /\ \A s \in Requests : request'[s].at = IF s = r THEN "ended" ELSE request[s].at
    BY <1>0, <1>11, RequestMoves DEF Complete
  <2>2. Working(r) /\ key[KeyOf[r]].status = "inFlight" /\ Made(r)
    BY <2>1 DEF OneAtWork, MadeInTime, Working, AtWork
  <2>3. key' = [key EXCEPT ![KeyOf[r]] =
                  [key[KeyOf[r]] EXCEPT !.status = "completed", !.reply = r]]
    BY <1>11 DEF Complete
  <2>4. \A j \in Keys : key'[j] = IF j = KeyOf[r]
                                   THEN [key[j] EXCEPT !.status = "completed", !.reply = r]
                                   ELSE key[j]
    BY <1>0, <2>3
  <2>5. \A j \in Keys : /\ key'[j].status = IF j = KeyOf[r] THEN "completed" ELSE key[j].status
                       /\ key'[j].purged = key[j].purged
                       /\ key'[j].reply = IF j = KeyOf[r] THEN r ELSE key[j].reply
    <3> TAKE j \in Keys
    <3>1. key[j] \in KeyRow
      BY <1>0
    <3>2. CASE j = KeyOf[r]
      <4>1. key'[j] = [key[j] EXCEPT !.status = "completed", !.reply = r]
        BY <2>4, <3>2
      <4> QED  BY <3>1, <3>2, <4>1 DEF KeyRow
    <3>3. CASE j # KeyOf[r]
      BY <2>4, <3>3
    <3> QED  BY <3>2, <3>3
  <2>6. \A s : Made(s)' = Made(s)
    BY <1>2, <1>11 DEF Complete
  <2>7. \A s \in Requests : Working(s)' = (s # r /\ Working(s))
    BY <2>1 DEF Working, AtWork
  <2>8. \A s \in Requests : Working(s) /\ KeyOf[s] = KeyOf[r] => s = r
    BY <2>2 DEF OneAtWork
  <2>9. OneAtWork'
    BY <1>0, <2>5, <2>7, <2>8 DEF OneAtWork
  <2>10. MadeInTime'
    BY <2>1, <2>6 DEF MadeInTime
  <2>11. \A s \in Requests : Made(s) /\ ~key[KeyOf[s]].purged /\ KeyOf[s] = KeyOf[r] => s = r
    BY <2>2 DEF MadeAlone
  <2>12. MadeAlone'
    BY <1>0, <2>5, <2>6, <2>7, <2>11 DEF MadeAlone
  <2>13. ReplyIsMade'
    BY <1>0, <2>2, <2>5, <2>6 DEF ReplyIsMade
  <2> QED  BY <2>9, <2>10, <2>12, <2>13
<1>12. ASSUME NEW r \in Requests, CancelOrder(r) PROVE KeysInv'
  <2>1. \A s \in Requests : Made(s)' = Made(s)
    BY <1>0, <1>12 DEF CancelOrder, Made, CheckoutTypeOK
  <2>2. UNCHANGED <<key, request>>
    BY <1>12 DEF CancelOrder
  <2>3. \A s : Working(s)' = Working(s)
    BY <2>2 DEF Working
  <2>4. OneAtWork'
    BY <1>0, <2>2, <2>3 DEF OneAtWork
  <2>5. MadeInTime'
    BY <2>1, <2>2 DEF MadeInTime
  <2>6. MadeAlone'
    BY <1>0, <2>1, <2>2, <2>3 DEF MadeAlone
  <2>7. ReplyIsMade'
    BY <1>0, <2>1, <2>2 DEF ReplyIsMade
  <2> QED  BY <2>4, <2>5, <2>6, <2>7
<1>13. ASSUME NEW k \in Keys, Purge(k) PROVE KeysInv'
  <2>1. \A s : Made(s)' = Made(s)
    BY <1>2, <1>13 DEF Purge
  <2>2. \A s \in Requests : Working(s) => KeyOf[s] # k
    BY <1>13 DEF Purge, Working
  <2>3. UNCHANGED request /\ key' = [key EXCEPT ![k] = [FreeKey EXCEPT !.purged = TRUE]]
    BY <1>13 DEF Purge
  <2>4. \A j \in Keys : key'[j] = IF j = k THEN [FreeKey EXCEPT !.purged = TRUE] ELSE key[j]
    BY <1>0, <2>3
  <2>5. /\ key'[k].purged /\ key'[k].status = "free"
        /\ \A j \in Keys \ {k} : key'[j] = key[j]
    BY <2>4 DEF FreeKey
  <2>6. \A s : Working(s)' = Working(s)
    BY <2>3 DEF Working
  <2>7. OneAtWork'
    BY <1>0, <2>2, <2>5, <2>6 DEF OneAtWork
  <2>8. MadeInTime'
    BY <2>1, <2>3 DEF MadeInTime
  <2>9. MadeAlone'
    BY <1>0, <2>1, <2>5, <2>6 DEF MadeAlone
  <2>10. ReplyIsMade'
    BY <1>0, <2>1, <2>5 DEF ReplyIsMade
  <2> QED  BY <2>7, <2>8, <2>9, <2>10
<1>14. ASSUME NEW c \in Customers, NEW p \in Plates, AddToCart(c, p) PROVE KeysInv'
  BY <1>1, <1>14 DEF AddToCart
<1>15. ASSUME NEW p \in Plates, NEW n \in Counts, SetStock(p, n) PROVE KeysInv'
  BY <1>1, <1>15 DEF SetStock
<1>16. ASSUME NEW p \in Plates, OpenDishForm(p) \/ \E counted \in BOOLEAN : SaveDishForm(p, counted)
       PROVE  KeysInv'
  BY <1>1, <1>16 DEF OpenDishForm, SaveDishForm
<1>17. CASE OpenPromotionForm \/ SavePromotionForm \/ UNCHANGED checkoutVars
  BY <1>1, <1>17 DEF OpenPromotionForm, SavePromotionForm
<1> QED
  BY <1>3, <1>5, <1>6, <1>7, <1>8, <1>9, <1>10, <1>11, <1>12, <1>13, <1>14, <1>15,
     <1>16, <1>17 DEF CheckoutNext, Proceeds

(* A customer who sends the same request again, to workers that may die    *)
(* anywhere, gets one order, and the one a replay shows, while the key was *)
(* not purged.                                                             *)
THEOREM OneOrderPerKeyHolds == SupplySpec => []OneOrderPerKey
<1>1. SupplyInit => CheckoutTypes /\ KeysInv
  BY InitCheckoutTypes, InitKeys DEF SupplyInit
<1>2. CheckoutTypes /\ KeysInv /\ [SupplyNext]_supplyVars => (CheckoutTypes /\ KeysInv)'
  BY StepCheckoutTypes, StepKeys, SupplySteps
<1> QED
  BY <1>1, <1>2, KeysInvGives, PTL DEF SupplySpec

-----------------------------------------------------------------------------
(* The promotion.                                                          *)

LEMMA RedeemedAreFinite ==
  ASSUME CheckoutTypeOK, NEW c
  PROVE  /\ IsFiniteSet(redemptions) /\ Cardinality(redemptions) \in Nat
         /\ IsFiniteSet(RedeemedBy(c)) /\ Cardinality(RedeemedBy(c)) \in Nat
<1>1. redemptions \subseteq Requests /\ RedeemedBy(c) \subseteq Requests
  BY DEF CheckoutTypeOK, RedeemedBy
<1> QED
  BY <1>1, CheckoutAssumption, FS_Subset, FS_CardinalityType

LEMMA InitQuota == CheckoutInit => QuotaHolds
<1> SUFFICES ASSUME CheckoutInit PROVE QuotaHolds
  OBVIOUS
<1>1. redemptions = {} /\ usedCount = 0 /\ \A c : RedeemedBy(c) = {}
  BY DEF CheckoutInit, RedeemedBy
<1>2. Cardinality({}) = 0
  BY FS_EmptySet
<1> QED
  BY <1>1, <1>2, CheckoutAssumption DEF QuotaHolds

LEMMA StepQuota ==
  CheckoutTypes /\ KeysInv /\ QuotaHolds /\ [CheckoutNext]_checkoutVars => QuotaHolds'
<1> SUFFICES ASSUME CheckoutTypes, KeysInv, QuotaHolds, [CheckoutNext]_checkoutVars
             PROVE  QuotaHolds'
  OBVIOUS
<1> USE CheckoutAssumption DEF checkoutVars, purchases, coupons, forms
<1>0. CheckoutTypeOK /\ order \in [Requests -> [status : {"none", "open", "cancelled"},
                basket : [Plates -> 0..CartLimit], taken : [Plates -> 0..CartLimit]]]
  BY DEF CheckoutTypes, CheckoutTypeOK
<1>1. ASSUME UNCHANGED <<order, redemptions>>,
             "promotion" \notin overwritten' =>
               usedCount' = usedCount /\ "promotion" \notin overwritten
      PROVE  QuotaHolds'
  <2>1. OpenOrders' = OpenOrders /\ \A c : RedeemedBy(c)' = RedeemedBy(c)
    BY <1>1 DEF OpenOrders, RedeemedBy
  <2> QED  BY <1>1, <2>1 DEF QuotaHolds
<1>2. ASSUME NEW r \in Requests, NEW withCode \in BOOLEAN, Place(r, withCode)
      PROVE  QuotaHolds'
  <2>1. request[r].at = "priced" /\ UNCHANGED overwritten
    BY <1>0, <1>2, RequestMoves DEF Place
  <2>2. order[r].status = "none"
    BY <2>1 DEF KeysInv, MadeInTime, Made
  <2>3. OpenOrders' = OpenOrders \cup {r}
    BY <1>0, <1>2 DEF Place, OpenOrders
  <2>4. r \notin redemptions
    BY <2>2 DEF QuotaHolds, OpenOrders
  <2>5. CASE UNCHANGED coupons
    <3>1. \A c : RedeemedBy(c)' = RedeemedBy(c)
      BY <2>5 DEF RedeemedBy
    <3> QED  BY <2>1, <2>3, <2>5, <3>1 DEF QuotaHolds
  <2>6. CASE MayRedeem(SentBy[r]) /\ usedCount' = usedCount + 1
             /\ redemptions' = redemptions \cup {r}
    <3>1. Cardinality(redemptions \cup {r}) = Cardinality(redemptions) + 1
      BY <2>4, RedeemedAreFinite, <1>0, FS_AddElement
    <3>2. ASSUME NEW c \in Customers PROVE Cardinality(RedeemedBy(c)') <= PerUserLimit
      <4>1. CASE c = SentBy[r]
        <5>1. RedeemedBy(c)' = RedeemedBy(c) \cup {r}
          BY <2>6, <4>1 DEF RedeemedBy
        <5>2. r \notin RedeemedBy(c)
          BY <2>4 DEF RedeemedBy
        <5>3. Cardinality(RedeemedBy(c) \cup {r}) = Cardinality(RedeemedBy(c)) + 1
          BY <5>2, RedeemedAreFinite, <1>0, FS_AddElement
        <5> QED  BY <1>0, <2>6, <4>1, <5>1, <5>3, RedeemedAreFinite DEF MayRedeem
      <4>2. CASE c # SentBy[r]
        <5>1. RedeemedBy(c)' = RedeemedBy(c)
          BY <2>6, <4>2 DEF RedeemedBy
        <5> QED  BY <5>1 DEF QuotaHolds
      <4> QED  BY <4>1, <4>2
    <3>3. "promotion" \notin overwritten =>
            usedCount' = Cardinality(redemptions') /\ usedCount' <= UsageLimit
      <4>1. usedCount \in Nat /\ usedCount < UsageLimit
        BY <1>0, <2>6 DEF MayRedeem, CheckoutTypeOK
      <4> QED  BY <2>6, <3>1, <4>1 DEF QuotaHolds
    <3>4. redemptions' \subseteq OpenOrders'
      BY <2>3, <2>6 DEF QuotaHolds
    <3> QED  BY <2>1, <3>2, <3>3, <3>4 DEF QuotaHolds
  <2> QED  BY <1>2, <2>5, <2>6 DEF Place
<1>3. ASSUME NEW r \in Requests, CancelOrder(r) PROVE QuotaHolds'
  <2>1. /\ redemptions' = redemptions \ {r} /\ UNCHANGED overwritten
        /\ usedCount' = IF r \in redemptions /\ usedCount > 0 THEN usedCount - 1 ELSE usedCount
    BY <1>3 DEF CancelOrder
  <2>2. OpenOrders' = OpenOrders \ {r}
    BY <1>0, <1>3 DEF CancelOrder, OpenOrders
  <2>3. ASSUME NEW c \in Customers PROVE Cardinality(RedeemedBy(c)') <= PerUserLimit
    <3>1. RedeemedBy(c)' \subseteq RedeemedBy(c)
      BY <2>1 DEF RedeemedBy
    <3>2. RedeemedBy(c)' = RedeemedBy(c) \ {r}
      BY <2>1 DEF RedeemedBy
    <3>3. /\ Cardinality(RedeemedBy(c) \ {r}) <= Cardinality(RedeemedBy(c))
          /\ Cardinality(RedeemedBy(c) \ {r}) \in Nat
      BY <1>0, RedeemedAreFinite, FS_Subset, FS_CardinalityType
    <3>4. Cardinality(RedeemedBy(c)) <= PerUserLimit /\ Cardinality(RedeemedBy(c)) \in Nat
      BY <1>0, RedeemedAreFinite DEF QuotaHolds
    <3> QED  BY <3>2, <3>3, <3>4
  <2>4. ASSUME "promotion" \notin overwritten
        PROVE  usedCount' = Cardinality(redemptions') /\ usedCount' <= UsageLimit
    <3>1. usedCount = Cardinality(redemptions) /\ usedCount <= UsageLimit /\ usedCount \in Nat
      BY <1>0, <2>4 DEF QuotaHolds, CheckoutTypeOK
    <3>2. CASE r \in redemptions
      <4>1. Cardinality(redemptions \ {r}) = Cardinality(redemptions) - 1
        BY <3>2, <1>0, RedeemedAreFinite, FS_RemoveElement
      <4>2. Cardinality(redemptions \ {r}) \in Nat
        BY <1>0, RedeemedAreFinite, FS_Subset, FS_CardinalityType
      <4> QED  BY <2>1, <3>1, <3>2, <4>1, <4>2
    <3>3. CASE r \notin redemptions
      <4>1. redemptions' = redemptions
        BY <2>1, <3>3
      <4> QED  BY <2>1, <3>1, <3>3, <4>1
    <3> QED  BY <3>2, <3>3
  <2>5. redemptions' \subseteq OpenOrders'
    BY <2>1, <2>2 DEF QuotaHolds
  <2> QED  BY <2>1, <2>3, <2>4, <2>5 DEF QuotaHolds
<1>4. CASE SavePromotionForm
  BY <1>1, <1>4 DEF SavePromotionForm
<1>5. ASSUME NEW p \in Plates, NEW counted \in BOOLEAN, SaveDishForm(p, counted) PROVE QuotaHolds'
  BY <1>1, <1>5 DEF SaveDishForm
<1>6. ASSUME NEW p \in Plates, OpenDishForm(p) \/ \E n \in Counts : SetStock(p, n)
      PROVE  QuotaHolds'
  BY <1>1, <1>6 DEF OpenDishForm, SetStock
<1>7. CASE OpenPromotionForm \/ UNCHANGED checkoutVars
  BY <1>1, <1>7 DEF OpenPromotionForm
<1>8. ASSUME NEW r \in Requests,
             \/ Reserve(r) \/ ToldToWait(r) \/ Replay(r) \/ RequestDies(r)
             \/ PriceCart(r) \/ Refused(r) \/ ReleaseKey(r) \/ Complete(r)
      PROVE  QuotaHolds'
  BY <1>1, <1>8 DEF Reserve, ToldToWait, Replay, RequestDies, PriceCart, Refused,
                    ReleaseKey, Complete
<1>9. ASSUME NEW c \in Customers, NEW p \in Plates, AddToCart(c, p) PROVE QuotaHolds'
  BY <1>1, <1>9 DEF AddToCart
<1>10. ASSUME NEW k \in Keys, Purge(k) PROVE QuotaHolds'
  BY <1>1, <1>10 DEF Purge
<1> QED
  BY <1>2, <1>3, <1>4, <1>5, <1>6, <1>7, <1>8, <1>9, <1>10 DEF CheckoutNext, Proceeds

(* The quota of a code bounds the open orders that carry it, the limit per *)
(* customer holds even when a form writes an old count back.               *)
THEOREM QuotaStays == SupplySpec => []QuotaHolds
<1>1. SupplyInit => CheckoutTypes /\ KeysInv /\ QuotaHolds
  BY InitCheckoutTypes, InitKeys, InitQuota DEF SupplyInit
<1>2. CheckoutTypes /\ KeysInv /\ QuotaHolds /\ [SupplyNext]_supplyVars
        => (CheckoutTypes /\ KeysInv /\ QuotaHolds)'
  BY StepCheckoutTypes, StepKeys, StepQuota, SupplySteps
<1> QED
  BY <1>1, <1>2, PTL DEF SupplySpec

-----------------------------------------------------------------------------
(* The dishes.                                                             *)

(* What an open order took of a dish no form wrote back: the whole of its  *)
(* basket when the dish is tracked, which it has always been or never.     *)
TrackedAsBefore ==
  \A p \in Plates \ overwritten :
    /\ stock[p].tracked = (p \in PlatesTracked)
    /\ \A r \in OpenOrders :
         order[r].taken[p] = IF p \in PlatesTracked THEN order[r].basket[p] ELSE 0
StockInv == TrackedAsBefore /\ StockAddsUp

TakenOf(p) == [r \in Requests |-> order[r].taken[p]]
OnOrders(p) == SumFunctionOnSet(TakenOf(p), OpenOrders)

LEMMA OrdersAreFinite == IsFiniteSet(OpenOrders) /\ OpenOrders \subseteq Requests
BY CheckoutAssumption, FS_Subset DEF OpenOrders

LEMMA InitStock == CheckoutInit => StockInv
<1> SUFFICES ASSUME CheckoutInit PROVE StockInv
  OBVIOUS
<1>1. OpenOrders = {}
  BY DEF CheckoutInit, OpenOrders, NoOrder
<1>2. ASSUME NEW p \in Plates
      PROVE  /\ stock[p].tracked = (p \in PlatesTracked) /\ stock[p].quantity = given[p]
             /\ given[p] \in Int
  BY CheckoutAssumption DEF CheckoutInit
<1>3. \A p : SumFunctionOnSet([r \in Requests |-> order[r].taken[p]], {}) = 0
  BY SumOfNone
<1>4. TrackedAsBefore
  BY <1>1, <1>2, Zenon DEF TrackedAsBefore
<1>5. StockAddsUp
  BY <1>1, <1>2, <1>3 DEF StockAddsUp
<1> QED
  BY <1>4, <1>5 DEF StockInv

LEMMA StepStock ==
  CheckoutTypes /\ KeysInv /\ StockInv /\ [CheckoutNext]_checkoutVars => StockInv'
<1> SUFFICES ASSUME CheckoutTypes, KeysInv, StockInv, [CheckoutNext]_checkoutVars
             PROVE  StockInv'
  OBVIOUS
<1> USE DEF StockInv
<1>0. /\ CheckoutTypeOK /\ stock \in [Plates -> DishRow] /\ given \in [Plates -> Int]
      /\ order \in [Requests -> [status : {"none", "open", "cancelled"},
                basket : [Plates -> 0..CartLimit], taken : [Plates -> 0..CartLimit]]]
      /\ CartLimit \in Nat
  BY CheckoutAssumption DEF CheckoutTypes, CheckoutTypeOK, DishRow
<1>1. ASSUME UNCHANGED <<order, stock, given, overwritten>> PROVE StockInv'
  BY <1>1 DEF TrackedAsBefore, StockAddsUp, OpenOrders
<1>2. ASSUME NEW p \in Plates
      PROVE  \A r \in Requests : TakenOf(p)[r] \in Nat
  BY <1>0 DEF TakenOf
<1>3. ASSUME NEW r \in Requests, NEW withCode \in BOOLEAN, Place(r, withCode) PROVE StockInv'
  <2>1. PICK b : b = request[r].basket
    OBVIOUS
  <2>2. request[r].at = "priced" /\ UNCHANGED <<given, overwritten>>
    BY <1>0, <1>3, RequestMoves DEF Place, forms
  <2>3. order[r].status = "none"
    BY <2>2 DEF KeysInv, MadeInTime, Made
  <2>4. order' = [order EXCEPT ![r] = [status |-> "open", basket |-> b, taken |-> TakenFrom(b)]]
    BY <1>3, <2>1 DEF Place
  <2>5. OpenOrders' = OpenOrders \cup {r} /\ r \notin OpenOrders
    BY <1>0, <2>3, <2>4 DEF OpenOrders
  <2>6. b \in [Plates -> 0..CartLimit]
    BY <1>0, <2>1 DEF CheckoutTypeOK
  <2>7. stock' = [p \in Plates |-> [stock[p] EXCEPT !.quantity = @ - TakenFrom(b)[p]]]
    BY <1>3, <2>1 DEF Place
  <2>8. ASSUME NEW p \in Plates
        PROVE  /\ stock'[p].tracked = stock[p].tracked
               /\ stock'[p].quantity = stock[p].quantity - TakenFrom(b)[p]
    BY <1>0, <2>7 DEF DishRow
  <2>9. ASSUME NEW p \in Plates
        PROVE  TakenFrom(b)[p] \in Nat /\ TakenFrom(b)[p] = IF stock[p].tracked THEN b[p] ELSE 0
    <3>1. b[p] \in Nat
      BY <1>0, <2>6
    <3> QED  BY <3>1 DEF TakenFrom
  <2>10. /\ order'[r] = [status |-> "open", basket |-> b, taken |-> TakenFrom(b)]
         /\ \A s \in Requests \ {r} : order'[s] = order[s]
    BY <1>0, <2>4
  <2>11. TrackedAsBefore'
    <3> SUFFICES ASSUME NEW p \in Plates \ overwritten
                 PROVE  /\ stock'[p].tracked = (p \in PlatesTracked)
                        /\ \A s \in OpenOrders \cup {r} :
                             order'[s].taken[p] = IF p \in PlatesTracked THEN order'[s].basket[p] ELSE 0
      BY <2>2, <2>5 DEF TrackedAsBefore
    <3>1. stock[p].tracked = (p \in PlatesTracked) /\ stock'[p].tracked = stock[p].tracked
      BY <2>8 DEF TrackedAsBefore
    <3>2. order'[r].taken[p] = IF p \in PlatesTracked THEN order'[r].basket[p] ELSE 0
      <4>1. TakenFrom(b)[p] = IF stock[p].tracked THEN b[p] ELSE 0
        BY <2>9
      <4>2. TakenFrom(b)[p] = IF p \in PlatesTracked THEN b[p] ELSE 0
        BY <3>1, <4>1, Zenon
      <4>3. order'[r].taken[p] = TakenFrom(b)[p] /\ order'[r].basket[p] = b[p]
        BY <2>10
      <4> QED  BY <4>2, <4>3
    <3>3. ASSUME NEW s \in OpenOrders
          PROVE  order'[s].taken[p] = IF p \in PlatesTracked THEN order'[s].basket[p] ELSE 0
      BY <2>5, <2>10, OrdersAreFinite DEF TrackedAsBefore
    <3> QED  BY <3>1, <3>2, <3>3
  <2>12. ASSUME NEW p \in Plates \ overwritten
         PROVE  OnOrders(p)' = OnOrders(p) + TakenFrom(b)[p]
    <3>1. \A s \in OpenOrders \cup {r} : TakenOf(p)'[s] \in Int
      BY <1>2, <2>9, <2>10, OrdersAreFinite DEF TakenOf
    <3>2. TakenOf(p)'[r] = TakenFrom(b)[p] /\ \A s \in OpenOrders : TakenOf(p)'[s] = TakenOf(p)[s]
      BY <2>5, <2>10, OrdersAreFinite DEF TakenOf
    <3>3. PICK f, g : f = TakenOf(p) /\ g = TakenOf(p)'
      OBVIOUS
    <3>4. PICK S : S = OpenOrders
      OBVIOUS
    <3>5. SumFunctionOnSet(g, S \cup {r}) = g[r] + SumFunctionOnSet(g, S)
      BY <2>5, <3>1, <3>3, <3>4, OrdersAreFinite, SumPutsIn
    <3>6. SumFunctionOnSet(f, S) = SumFunctionOnSet(g, S)
      BY <3>2, <3>3, <3>4, OrdersAreFinite, SumLooksAt
    <3>7. SumFunctionOnSet(f, S) \in Int
      BY <1>2, <3>3, <3>4, OrdersAreFinite, SumType
    <3>8. OnOrders(p)' = SumFunctionOnSet(g, S \cup {r}) /\ OnOrders(p) = SumFunctionOnSet(f, S)
      BY <2>5, <3>3, <3>4 DEF OnOrders
    <3>9. g[r] = TakenFrom(b)[p] /\ TakenFrom(b)[p] \in Nat
      BY <2>9, <3>2, <3>3
    <3> QED  BY <3>5, <3>6, <3>7, <3>8, <3>9
  <2>13. StockAddsUp'
    <3> SUFFICES ASSUME NEW p \in Plates \ overwritten
                 PROVE  stock'[p].quantity + OnOrders(p)' = given[p]
      BY <2>2 DEF StockAddsUp, OnOrders, TakenOf
    <3>1. stock[p].quantity \in Nat /\ OnOrders(p) \in Int
      BY <1>0, <1>2, OrdersAreFinite, SumType DEF DishRow, OnOrders
    <3>2. stock[p].quantity + OnOrders(p) = given[p]
      BY DEF StockAddsUp, OnOrders, TakenOf
    <3> QED  BY <2>8, <2>9, <2>12, <3>1, <3>2
  <2> QED  BY <2>11, <2>13
<1>4. ASSUME NEW r \in Requests, CancelOrder(r) PROVE StockInv'
  <2>1. PICK b : b = order[r].basket
    OBVIOUS
  <2>2. order[r].status = "open" /\ UNCHANGED <<given, overwritten>>
    BY <1>4 DEF CancelOrder, forms
  <2>3. order' = [order EXCEPT ![r].status = "cancelled"]
    BY <1>4 DEF CancelOrder
  <2>4. OpenOrders' = OpenOrders \ {r} /\ r \in OpenOrders
    BY <1>0, <2>2, <2>3 DEF OpenOrders
  <2>5. /\ \A s \in Requests : order'[s].taken = order[s].taken /\ order'[s].basket = order[s].basket
    BY <1>0, <2>3
  <2>6. stock' = [p \in Plates |-> [stock[p] EXCEPT !.quantity = @ + Restored(b, p)]]
    BY <1>4, <2>1 DEF CancelOrder
  <2>7. ASSUME NEW p \in Plates
        PROVE  /\ stock'[p].tracked = stock[p].tracked
               /\ stock'[p].quantity = stock[p].quantity + Restored(b, p)
    BY <1>0, <2>6 DEF DishRow
  <2>8. ASSUME NEW p \in Plates \ overwritten PROVE Restored(b, p) = order[r].taken[p]
    BY <2>1, <2>4 DEF Restored, TrackedAsBefore
  <2>9. TrackedAsBefore'
    BY <2>2, <2>4, <2>5, <2>7, OrdersAreFinite DEF TrackedAsBefore
  <2>10. ASSUME NEW p \in Plates \ overwritten
         PROVE  OnOrders(p) = order[r].taken[p] + OnOrders(p)'
    <3>1. PICK f, S : f = TakenOf(p) /\ S = OpenOrders
      OBVIOUS
    <3>2. TakenOf(p)' = TakenOf(p)
      BY <2>5 DEF TakenOf
    <3>3. SumFunctionOnSet(f, S) = f[r] + SumFunctionOnSet(f, S \ {r})
      BY <1>2, <2>4, <3>1, OrdersAreFinite, SumTakesOut
    <3>4. OnOrders(p)' = SumFunctionOnSet(f, S \ {r}) /\ OnOrders(p) = SumFunctionOnSet(f, S)
      BY <2>4, <3>1, <3>2 DEF OnOrders
    <3> QED  BY <3>1, <3>3, <3>4 DEF TakenOf
  <2>11. StockAddsUp'
    <3> SUFFICES ASSUME NEW p \in Plates \ overwritten
                 PROVE  stock'[p].quantity + OnOrders(p)' = given[p]
      BY <2>2 DEF StockAddsUp, OnOrders, TakenOf
    <3>1. stock[p].quantity \in Nat /\ order[r].taken[p] \in Nat
      BY <1>0 DEF DishRow
    <3>2. OnOrders(p)' \in Int
      <4>1. PICK f, S : f = TakenOf(p) /\ S = OpenOrders \ {r}
        OBVIOUS
      <4>2. OnOrders(p)' = SumFunctionOnSet(f, S)
        BY <2>4, <2>5, <4>1 DEF OnOrders, TakenOf
      <4>3. IsFiniteSet(S) /\ \A s \in S : f[s] \in Int
        BY <1>2, <4>1, OrdersAreFinite, FS_Subset
      <4> QED  BY <4>2, <4>3, SumType
    <3>3. stock[p].quantity + OnOrders(p) = given[p]
      BY DEF StockAddsUp, OnOrders, TakenOf
    <3> QED  BY <2>7, <2>8, <2>10, <3>1, <3>2, <3>3
  <2> QED  BY <2>9, <2>11
<1>5. ASSUME NEW p \in Plates, NEW n \in Counts, SetStock(p, n) PROVE StockInv'
  <2>1. /\ UNCHANGED <<order, overwritten>> /\ n \in Nat
        /\ stock' = [stock EXCEPT ![p].quantity = n]
        /\ given' = [given EXCEPT ![p] = given[p] + n - stock[p].quantity]
    BY <1>5, CheckoutAssumption DEF SetStock, purchases
  <2>2. /\ \A q \in Plates : stock'[q].tracked = stock[q].tracked
        /\ \A q \in Plates \ {p} : stock'[q] = stock[q] /\ given'[q] = given[q]
        /\ stock'[p].quantity = n /\ given'[p] = given[p] + n - stock[p].quantity
    BY <1>0, <2>1 DEF DishRow
  <2>3. OpenOrders' = OpenOrders /\ \A q : OnOrders(q)' = OnOrders(q)
    BY <2>1 DEF OpenOrders, OnOrders, TakenOf
  <2>4. TrackedAsBefore'
    BY <2>1, <2>2, <2>3 DEF TrackedAsBefore
  <2>5. ASSUME NEW q \in Plates \ overwritten PROVE stock'[q].quantity + OnOrders(q)' = given'[q]
    <3>1. stock[q].quantity \in Nat /\ given[q] \in Int /\ OnOrders(q) \in Int
      BY <1>0, <1>2, OrdersAreFinite, SumType DEF DishRow, OnOrders
    <3>2. stock[q].quantity + OnOrders(q) = given[q]
      BY DEF StockAddsUp, OnOrders, TakenOf
    <3> QED  BY <2>1, <2>2, <2>3, <3>1, <3>2
  <2> QED  BY <2>1, <2>4, <2>5 DEF StockAddsUp, OnOrders, TakenOf
<1>6. ASSUME NEW p \in Plates, NEW counted \in BOOLEAN, SaveDishForm(p, counted) PROVE StockInv'
  <2>1. UNCHANGED <<order, given>> /\ overwritten \subseteq overwritten'
    BY <1>6 DEF SaveDishForm, purchases
  <2>2. \A q \in Plates \ overwritten' : stock'[q] = stock[q]
    BY <1>0, <1>6 DEF SaveDishForm
  <2> QED  BY <2>1, <2>2 DEF TrackedAsBefore, StockAddsUp, OpenOrders
<1>7. CASE SavePromotionForm
  <2>1. UNCHANGED <<order, stock, given>> /\ overwritten \subseteq overwritten'
    BY <1>7 DEF SavePromotionForm, purchases, goods
  <2> QED  BY <2>1 DEF TrackedAsBefore, StockAddsUp, OpenOrders
<1> USE DEF checkoutVars, purchases, goods, forms
<1>8. ASSUME NEW p \in Plates, OpenDishForm(p) PROVE StockInv'
  BY <1>1, <1>8 DEF OpenDishForm
<1>9. CASE OpenPromotionForm \/ UNCHANGED checkoutVars
  BY <1>1, <1>9 DEF OpenPromotionForm
<1>10. ASSUME NEW r \in Requests,
              \/ Reserve(r) \/ ToldToWait(r) \/ Replay(r) \/ RequestDies(r)
              \/ PriceCart(r) \/ Refused(r) \/ ReleaseKey(r) \/ Complete(r)
       PROVE  StockInv'
  BY <1>1, <1>10 DEF Reserve, ToldToWait, Replay, RequestDies, PriceCart, Refused,
                     ReleaseKey, Complete
<1>11. ASSUME NEW c \in Customers, NEW p \in Plates, AddToCart(c, p) PROVE StockInv'
  BY <1>1, <1>11 DEF AddToCart
<1>12. ASSUME NEW k \in Keys, Purge(k) PROVE StockInv'
  BY <1>1, <1>12 DEF Purge
<1> QED
  BY <1>3, <1>4, <1>5, <1>6, <1>7, <1>8, <1>9, <1>10, <1>11, <1>12 DEF CheckoutNext, Proceeds

(* Units are on the shelf or in open orders, whatever crosses, as long as  *)
(* no form of the back office wrote the dish back as it was.               *)
THEOREM StockStays == SupplySpec => []StockAddsUp
<1>1. SupplyInit => CheckoutTypes /\ KeysInv /\ StockInv
  BY InitCheckoutTypes, InitKeys, InitStock DEF SupplyInit
<1>2. CheckoutTypes /\ KeysInv /\ StockInv /\ [SupplyNext]_supplyVars
        => (CheckoutTypes /\ KeysInv /\ StockInv)'
  BY StepCheckoutTypes, StepKeys, StepStock, SupplySteps
<1> QED
  BY <1>1, <1>2, PTL DEF SupplySpec, StockInv

(* Only the cancellation of an order gives dishes back.                    *)
LEMMA OnlyCancellationsCancel ==
  ASSUME CheckoutTypes, [CheckoutNext]_checkoutVars, NEW r \in Requests,
         order[r].status = "open", order'[r].status = "cancelled"
  PROVE  CancelOrder(r)
<1>1. order \in [Requests -> [status : {"none", "open", "cancelled"},
        basket : [Plates -> 0..CartLimit], taken : [Plates -> 0..CartLimit]]]
  BY DEF CheckoutTypes, CheckoutTypeOK
<1>2. ASSUME NEW q \in Requests, CancelOrder(q) PROVE q = r
  BY <1>1, <1>2 DEF CancelOrder
<1>3. ASSUME NEW q \in Requests, NEW withCode \in BOOLEAN, Place(q, withCode) PROVE FALSE
  <2>1. order' = [order EXCEPT ![q] = [status |-> "open", basket |-> request[q].basket,
                                       taken |-> TakenFrom(request[q].basket)]]
    BY <1>3 DEF Place
  <2> QED
    BY <1>1, <2>1
<1> QED
  BY <1>2, <1>3 DEF CheckoutNext, Proceeds, AddToCart, Reserve, ToldToWait, Replay, PriceCart,
     Refused, ReleaseKey, Complete, RequestDies, Purge, SetStock, OpenDishForm, SaveDishForm,
     OpenPromotionForm, SavePromotionForm, checkoutVars, purchases

(* A cancellation gives back exactly what the order took of a dish         *)
(* (catalog/services.py StockService.restore), unless a form of the back   *)
(* office wrote the row of that dish back: the refutation of               *)
(* RestoreInventsNothing takes such a form.                                *)
THEOREM RestorationIsExact ==
  SupplySpec => [][\A r \in Requests, p \in Plates \ overwritten :
                     order[r].status = "open" /\ order'[r].status = "cancelled" =>
                       stock'[p].quantity - stock[p].quantity = order[r].taken[p]]_supplyVars
<1>1. CheckoutTypes /\ StockInv /\ [SupplyNext]_supplyVars
        => [\A r \in Requests, p \in Plates \ overwritten :
              order[r].status = "open" /\ order'[r].status = "cancelled" =>
                stock'[p].quantity - stock[p].quantity = order[r].taken[p]]_supplyVars
  <2> SUFFICES ASSUME CheckoutTypes, StockInv, [SupplyNext]_supplyVars,
                      NEW r \in Requests, NEW p \in Plates \ overwritten,
                      order[r].status = "open", order'[r].status = "cancelled"
               PROVE  stock'[p].quantity - stock[p].quantity = order[r].taken[p]
    OBVIOUS
  <2>1. CancelOrder(r)
    BY SupplySteps, OnlyCancellationsCancel
  <2>2. /\ stock[p] \in DishRow /\ p \in Plates
        /\ order[r].basket[p] \in Nat
    BY DEF CheckoutTypes, CheckoutTypeOK, DishRow
  <2>3. stock'[p].quantity = stock[p].quantity + Restored(order[r].basket, p)
    <3>1. stock'[p] = [stock[p] EXCEPT !.quantity = @ + Restored(order[r].basket, p)]
      BY <2>1, <2>2 DEF CancelOrder
    <3> QED
      BY <2>2, <3>1 DEF DishRow
  <2>4. order[r].taken[p] = Restored(order[r].basket, p)
    BY DEF StockInv, TrackedAsBefore, OpenOrders, Restored
  <2>5. Restored(order[r].basket, p) \in Int /\ stock[p].quantity \in Int
    BY <2>2 DEF Restored, DishRow
  <2> QED
    BY <2>3, <2>4, <2>5
<1>2. SupplyInit => CheckoutTypes /\ KeysInv /\ StockInv
  BY InitCheckoutTypes, InitKeys, InitStock DEF SupplyInit
<1>3. CheckoutTypes /\ KeysInv /\ StockInv /\ [SupplyNext]_supplyVars
        => (CheckoutTypes /\ KeysInv /\ StockInv)'
  BY StepCheckoutTypes, StepKeys, StepStock, SupplySteps
<1> QED
  BY <1>1, <1>2, <1>3, PTL DEF SupplySpec

-----------------------------------------------------------------------------
(* The raw material.                                                       *)

LEMMA Multiplied ==
  /\ \A a, b \in Nat : a * b \in Nat
  /\ \A a \in Nat, b \in Nat \ {0} : a <= a * b
  /\ \A a \in Nat, b \in Nat \ {0} : a \div b \in Nat
  /\ \A a \in Nat, b \in Nat \ {0} : a > 0 => a * b > 0
<1>1. \A a, b \in Nat : a * b \in Nat
  OBVIOUS
<1>2. \A a \in Nat, b \in Nat \ {0} : a <= a * b
  OBVIOUS
<1>3. \A a \in Nat, b \in Nat \ {0} : a \div b \in Nat
  OBVIOUS
<1>4. \A a \in Nat, b \in Nat \ {0} : a > 0 => a * b > 0
  OBVIOUS
<1> QED
  BY <1>1, <1>2, <1>3, <1>4

RecipeType == recipe \in [Recipes -> [Ingredients -> Int]]
Weights(lines_, i) == [l \in lines_ |-> Portion(l, i) * l.quantity]

LEMMA PortionIsNatural ==
  ASSUME RecipeType, NEW l \in Line, NEW i \in Ingredients
  PROVE  Portion(l, i) \in Nat
<1>1. l.dish \in Recipes /\ l.options \subseteq Options /\ Options \subseteq Recipes
  BY DEF Line, Recipes
<1>2. PICK f : f = [o \in Options |-> recipe[o][i]]
  OBVIOUS
<1>3. IsFiniteSet(l.options) /\ \A o \in l.options : f[o] \in Int
  BY <1>1, <1>2, WarehouseAssumption, FS_Subset DEF RecipeType
<1>4. SumFunctionOnSet(f, l.options) \in Int
  BY <1>3, SumType
<1>5. recipe[l.dish][i] \in Int
  BY <1>1 DEF RecipeType
<1> QED
  BY <1>2, <1>4, <1>5 DEF Portion, AtLeastZero

LEMMA RequirementIsNatural ==
  ASSUME RecipeType, NEW m \in Meals, NEW i \in Ingredients
  PROVE  /\ IsFiniteSet(Basket[m]) /\ Basket[m] \subseteq Line
         /\ \A l \in Basket[m] : Portion(l, i) \in Nat /\ Weights(Basket[m], i)[l] \in Nat
         /\ Requirement(Basket[m], i) = SumFunctionOnSet(Weights(Basket[m], i), Basket[m])
         /\ Requirement(Basket[m], i) \in Nat
<1>1. IsFiniteSet(Basket[m]) /\ Basket[m] \subseteq Line
  BY WarehouseAssumption
<1>2. \A l \in Basket[m] : Portion(l, i) \in Nat
  BY <1>1, PortionIsNatural
<1>3. \A l \in Basket[m] : Weights(Basket[m], i)[l] \in Nat
  BY <1>1, <1>2, Multiplied DEF Weights, Line
<1>4. Requirement(Basket[m], i) = SumFunctionOnSet(Weights(Basket[m], i), Basket[m])
  BY DEF Requirement, Weights, SumFunction
<1>5. PICK f : f = Weights(Basket[m], i)
  OBVIOUS
<1>6. SumFunctionOnSet(f, Basket[m]) \in Nat
  BY <1>1, <1>3, <1>5, SumIsNatural
<1> QED
  BY <1>1, <1>2, <1>3, <1>4, <1>5, <1>6

LEMMA EngagedIsNatural ==
  ASSUME RecipeType, NEW m \in Meals
  PROVE  /\ Engaged(Basket[m]) \in [Ingredients -> Nat]
         /\ \A i \in Ingredients : Engaged(Basket[m])[i] =
              IF i \in tracked THEN Requirement(Basket[m], i) ELSE 0
<1>1. \A i \in Ingredients : Requirement(Basket[m], i) \in Nat
  BY RequirementIsNatural
<1> QED
  BY <1>1 DEF Engaged

(* What a job frees, pledges and consumes of an ingredient.                *)
RealJob == [kind : {"reserve", "cook", "cancel"},
            need : [Ingredients -> Nat], promised : [Ingredients -> Nat]]
LEMMA JobEffects ==
  ASSUME NEW j \in RealJob, NEW i \in Ingredients
  PROVE  /\ j.need[i] \in Nat /\ j.promised[i] \in Nat
         /\ j.kind = "reserve" => Freed(j, i) = 0 /\ Pledged(j, i) = j.need[i] /\ Consumed(j, i) = 0
         /\ j.kind = "cancel" => Freed(j, i) = j.need[i] /\ Pledged(j, i) = 0 /\ Consumed(j, i) = 0
         /\ j.kind = "cook" => /\ Freed(j, i) = Lesser(j.need[i], j.promised[i])
                               /\ Pledged(j, i) = 0 /\ Consumed(j, i) = j.need[i]
         /\ Freed(j, i) \in Nat /\ Pledged(j, i) \in Nat /\ Consumed(j, i) \in Nat
         /\ Freed(j, i) <= j.need[i]
<1>1. j.need[i] \in Nat /\ j.promised[i] \in Nat /\ j.kind \in {"reserve", "cook", "cancel"}
  BY DEF RealJob
<1>2. Lesser(j.need[i], j.promised[i]) \in Nat /\ Lesser(j.need[i], j.promised[i]) <= j.need[i]
  BY <1>1 DEF Lesser
<1>3. CASE j.kind = "reserve"
  BY <1>1, <1>3 DEF Freed, Pledged, Consumed
<1>4. CASE j.kind = "cancel"
  BY <1>1, <1>4 DEF Freed, Pledged, Consumed
<1>5. CASE j.kind = "cook"
  BY <1>1, <1>2, <1>5 DEF Freed, Pledged, Consumed
<1> QED
  BY <1>1, <1>3, <1>4, <1>5

(* A job that applies leaves no promise above what is on the shelf.        *)
LEMMA JobKeepsPromises ==
  ASSUME NEW j \in RealJob, NEW i \in Ingredients, Applies(j),
         reserved[i] \in Nat, onHand[i] \in Nat, reserved[i] <= onHand[i]
  PROVE  /\ reserved[i] + Pledged(j, i) - Freed(j, i) \in Nat
         /\ onHand[i] - Consumed(j, i) \in Nat
         /\ reserved[i] + Pledged(j, i) - Freed(j, i) <= onHand[i] - Consumed(j, i)
<1>1. /\ Freed(j, i) <= reserved[i]
      /\ Pledged(j, i) > 0 => reserved[i] + Pledged(j, i) <= onHand[i]
      /\ Consumed(j, i) > 0 => reserved[i] - Freed(j, i) <= onHand[i] - Consumed(j, i)
  BY DEF Applies
<1>2. j.kind \in {"reserve", "cook", "cancel"}
  BY DEF RealJob
<1>3. PICK free, pledge, take \in Nat :
        free = Freed(j, i) /\ pledge = Pledged(j, i) /\ take = Consumed(j, i)
  BY JobEffects
<1>4. PICK r, h \in Nat : r = reserved[i] /\ h = onHand[i]
  OBVIOUS
<1>5. (pledge = 0 \/ take = 0) /\ (pledge > 0 => free = 0)
  BY <1>2, <1>3, JobEffects
<1> QED
  BY <1>1, <1>3, <1>4, <1>5

LEMMA InitWarehouse == WarehouseInit => WarehouseTypeOK
<1> SUFFICES ASSUME WarehouseInit PROVE WarehouseTypeOK
  OBVIOUS
<1>1. job \in [Meals -> Job]
  BY DEF WarehouseInit, Job
<1>2. slip \in [Slips -> [status : {"none", "moved", "pending", "approved", "rejected"},
                         decidedBy : Staff \cup {"nobody"}, moves : Nat]]
  BY DEF WarehouseInit
<1>3. /\ onHand \in [Ingredients -> Nat] /\ reserved \in [Ingredients -> Nat]
      /\ unitCost \in [Ingredients -> Nat] /\ \A i \in Ingredients : reserved[i] <= onHand[i]
  BY DEF WarehouseInit, NoCost
<1>4. /\ active \subseteq Ingredients /\ tracked \subseteq Ingredients /\ drift \in BOOLEAN
      /\ meal \in [Meals -> {"none", "waiting", "fired", "cancelled"}]
  BY DEF WarehouseInit
<1>5. recipe \in [Recipes -> [Ingredients -> Int]]
  BY WarehouseAssumption DEF WarehouseInit
<1> QED
  BY <1>1, <1>2, <1>3, <1>4, <1>5 DEF WarehouseTypeOK

(* A slip that moves the stock keeps the promises covered.                 *)
LEMMA SlipKeepsPromises ==
  ASSUME WarehouseTypeOK, NEW s \in Slips, NEW status \in {"moved", "approved"},
         NEW by \in Staff \cup {"nobody"}, CanMove(s), Move(s, status, by)
  PROVE  /\ onHand' \in [Ingredients -> Nat]
         /\ \A i \in Ingredients : reserved[i] <= onHand'[i]
         /\ slip' \in [Slips -> [status : {"none", "moved", "pending", "approved", "rejected"},
                                 decidedBy : Staff \cup {"nobody"}, moves : Nat]]
         /\ \A t \in Slips : slip'[t].moves = IF t = s THEN slip[t].moves + 1 ELSE slip[t].moves
         /\ \A t \in Slips \ {s} : slip'[t] = slip[t]
         /\ slip'[s].status = status /\ slip'[s].decidedBy = by
<1>1. /\ onHand \in [Ingredients -> Nat] /\ reserved \in [Ingredients -> Nat]
      /\ \A i \in Ingredients : reserved[i] <= onHand[i]
      /\ slip \in [Slips -> [status : {"none", "moved", "pending", "approved", "rejected"},
                             decidedBy : Staff \cup {"nobody"}, moves : Nat]]
  BY DEF WarehouseTypeOK
<1>2. Slip[s].item \in Ingredients /\ Slip[s].quantity \in Int
  BY WarehouseAssumption
<1>3. PICK i \in Ingredients, q \in Int : i = Slip[s].item /\ q = Slip[s].quantity
  BY <1>2
<1>4. onHand[i] + q >= reserved[i] /\ onHand' = [onHand EXCEPT ![i] = @ + q]
  BY <1>3 DEF CanMove, Move
<1>5. onHand[i] \in Nat /\ reserved[i] \in Nat /\ onHand[i] + q \in Nat
  BY <1>1, <1>4
<1>6. onHand' \in [Ingredients -> Nat] /\ \A k \in Ingredients : reserved[k] <= onHand'[k]
  BY <1>1, <1>4, <1>5
<1>7. slip' = [slip EXCEPT ![s] = [status |-> status, decidedBy |-> by, moves |-> slip[s].moves + 1]]
  BY DEF Move
<1>8. slip[s].moves + 1 \in Nat
  BY <1>1
<1> QED
  BY <1>1, <1>6, <1>7, <1>8

LEMMA MeanCostIsNatural ==
  ASSUME NEW i, unitCost[i] \in Nat, onHand[i] \in Nat, NEW q \in Nat \ {0}, NEW cost \in Nat
  PROVE  MeanCost(i, q, cost) \in Nat
<1>1. PICK u, h \in Nat : u = unitCost[i] /\ h = onHand[i]
  OBVIOUS
<1>2. u * h \in Nat /\ cost * q \in Nat
  BY Multiplied
<1>3. PICK a, b \in Nat : a = u * h /\ b = cost * q
  BY <1>2
<1>4. 2 * (a + b) + (h + q) \in Nat /\ 2 * (h + q) \in Nat \ {0}
  OBVIOUS
<1>5. (2 * (a + b) + (h + q)) \div (2 * (h + q)) \in Nat
  BY <1>4, Multiplied
<1>6. MeanCost(i, q, cost) \in {cost, (2 * (a + b) + (h + q)) \div (2 * (h + q))}
  BY <1>1, <1>3 DEF MeanCost
<1> QED
  BY <1>5, <1>6

LEMMA StepWarehouseTypes == WarehouseTypeOK /\ [WarehouseNext]_warehouseVars => WarehouseTypeOK'
<1> SUFFICES ASSUME WarehouseTypeOK, [WarehouseNext]_warehouseVars PROVE WarehouseTypeOK'
  OBVIOUS
<1> DEFINE Slipped == slip \in [Slips -> [status : {"none", "moved", "pending", "approved", "rejected"},
                                          decidedBy : Staff \cup {"nobody"}, moves : Nat]]
<1>0. /\ RecipeType /\ job \in [Meals -> Job] /\ Slipped
      /\ onHand \in [Ingredients -> Nat] /\ reserved \in [Ingredients -> Nat]
      /\ \A i \in Ingredients : reserved[i] <= onHand[i]
      /\ unitCost \in [Ingredients -> Nat]
  BY DEF WarehouseTypeOK, RecipeType
<1>1. CASE UNCHANGED warehouseVars
  BY <1>1 DEF warehouseVars, WarehouseTypeOK
<1>2. ASSUME NEW m \in Meals, NEW kind \in {"reserve", "cook", "cancel"}, NEW from, Begin(m, kind, from)
      PROVE  WarehouseTypeOK'
  <2>1. PICK j : j = [kind |-> kind, need |-> Engaged(Basket[m]), promised |-> reserved]
    OBVIOUS
  <2>2. j \in Job
    BY <1>0, <2>1, EngagedIsNatural DEF Job
  <2>3. job' = [job EXCEPT ![m] = j]
    BY <1>2, <2>1 DEF Begin
  <2>4. job' \in [Meals -> Job]
    BY <1>0, <2>2, <2>3
  <2> QED  BY <1>2, <2>4 DEF Begin, WarehouseTypeOK
<1>3. ASSUME NEW m \in Meals, Commit(m) PROVE WarehouseTypeOK'
  <2>1. PICK j : j = job[m]
    OBVIOUS
  <2>2. j \in RealJob /\ Applies(j)
    BY <1>0, <1>3, <2>1 DEF Commit, Job, RealJob
  <2>3. /\ reserved' = [i \in Ingredients |-> reserved[i] + Pledged(j, i) - Freed(j, i)]
        /\ onHand' = [i \in Ingredients |-> onHand[i] - Consumed(j, i)]
        /\ meal' = [meal EXCEPT ![m] = Outcome(j.kind)] /\ job' = [job EXCEPT ![m] = NoJob]
        /\ UNCHANGED <<active, tracked, unitCost, recipe, slip, drift>>
    BY <1>3, <2>1 DEF Commit
  <2>4. \A i \in Ingredients : reserved'[i] \in Nat /\ onHand'[i] \in Nat /\ reserved'[i] <= onHand'[i]
    BY <1>0, <2>2, <2>3, JobKeepsPromises
  <2>5. reserved' \in [Ingredients -> Nat] /\ onHand' \in [Ingredients -> Nat]
    BY <2>3, <2>4
  <2>6. meal' \in [Meals -> {"none", "waiting", "fired", "cancelled"}]
    BY <2>2, <2>3 DEF Outcome, RealJob, WarehouseTypeOK
  <2>7. job' \in [Meals -> Job]
    BY <1>0, <2>3 DEF Job
  <2> QED  BY <2>3, <2>4, <2>5, <2>6, <2>7 DEF WarehouseTypeOK
<1>4. ASSUME NEW m \in Meals, Rollback(m) PROVE WarehouseTypeOK'
  BY <1>4 DEF Rollback, WarehouseTypeOK, Job
<1>5. ASSUME NEW m \in Meals, CancelFired(m) PROVE WarehouseTypeOK'
  BY <1>5 DEF CancelFired, WarehouseTypeOK
<1>6. ASSUME NEW i \in Ingredients, SwitchIngredient(i) \/ OpenItem(i) PROVE WarehouseTypeOK'
  <2>1. Disturbed \in BOOLEAN
    BY DEF Disturbed, WarehouseTypeOK
  <2>2. CASE SwitchIngredient(i)
    BY <2>2 DEF SwitchIngredient, WarehouseTypeOK
  <2>3. CASE OpenItem(i)
    BY <2>1, <2>3 DEF OpenItem, WarehouseTypeOK
  <2> QED  BY <1>6, <2>2, <2>3
<1>7. ASSUME NEW e \in Edits, WriteRecipe(e) PROVE WarehouseTypeOK'
  <2>1. Disturbed \in BOOLEAN
    BY DEF Disturbed, WarehouseTypeOK
  <2>2. recipe' \in [Recipes -> [Ingredients -> Int]]
    BY <1>0, <1>7, WarehouseAssumption DEF WriteRecipe, RecipeType
  <2> QED  BY <1>7, <2>1, <2>2 DEF WriteRecipe, WarehouseTypeOK
<1>8. ASSUME NEW s \in Slips, Receive(s) PROVE WarehouseTypeOK'
  <2>1. CanMove(s) /\ Move(s, "moved", "nobody")
    BY <1>8 DEF Receive
  <2>2. PICK i \in Ingredients, q \in Nat \ {0}, cost \in Nat :
          i = Slip[s].item /\ q = Slip[s].quantity /\ cost = Slip[s].unitCost
    BY <1>8, WarehouseAssumption DEF Receive
  <2>3. MeanCost(i, q, cost) \in Nat
    BY <1>0, MeanCostIsNatural
  <2>4. unitCost' \in [Ingredients -> Nat]
    BY <1>0, <1>8, <2>2, <2>3 DEF Receive
  <2> QED  BY <1>8, <2>1, <2>4, SlipKeepsPromises DEF Receive, WarehouseTypeOK
<1>9. ASSUME NEW s \in Slips, Declare(s) PROVE WarehouseTypeOK'
  <2>1. CASE CanMove(s) /\ Move(s, "moved", "nobody")
    BY <1>9, <2>1, SlipKeepsPromises DEF Declare, WarehouseTypeOK
  <2>2. CASE slip' = [slip EXCEPT ![s].status = "pending"] /\ UNCHANGED onHand
    <3>1. Slipped'
      BY <1>0, <2>2
    <3> QED  BY <1>9, <2>2, <3>1 DEF Declare, WarehouseTypeOK
  <2> QED  BY <1>9, <2>1, <2>2 DEF Declare
<1>10. ASSUME NEW s \in Slips, NEW a \in Staff, Approve(s, a) PROVE WarehouseTypeOK'
  <2>1. CanMove(s) /\ Move(s, "approved", a)
    BY <1>10 DEF Approve
  <2> QED  BY <1>10, <2>1, SlipKeepsPromises DEF Approve, WarehouseTypeOK
<1>11. ASSUME NEW s \in Slips, NEW a \in Staff, Reject(s, a) PROVE WarehouseTypeOK'
  <2>1. Slipped'
    BY <1>0, <1>11 DEF Reject
  <2> QED  BY <1>11, <2>1 DEF Reject, WarehouseTypeOK
<1>12. Retirable \subseteq Ingredients
  BY WarehouseAssumption
<1> QED
  BY <1>1, <1>2, <1>3, <1>4, <1>5, <1>6, <1>7, <1>8, <1>9, <1>10, <1>11, <1>12
  DEF WarehouseNext, OrderSteps, SlipSteps, BeginReserve, BeginCook, BeginCancel

-----------------------------------------------------------------------------
(* Slips.                                                                  *)

LEMMA StepSlips ==
  WarehouseTypeOK /\ SlipMovesOnce /\ [WarehouseNext]_warehouseVars => SlipMovesOnce'
<1> SUFFICES ASSUME WarehouseTypeOK, SlipMovesOnce, [WarehouseNext]_warehouseVars
             PROVE  SlipMovesOnce'
  OBVIOUS
<1>0. /\ slip \in [Slips -> [status : {"none", "moved", "pending", "approved", "rejected"},
                             decidedBy : Staff \cup {"nobody"}, moves : Nat]]
  BY DEF WarehouseTypeOK
<1>1. ASSUME UNCHANGED slip PROVE SlipMovesOnce'
  BY <1>1 DEF SlipMovesOnce
<1>2. ASSUME NEW s \in Slips, NEW status \in {"moved", "approved"},
             NEW by \in Staff \cup {"nobody"}, CanMove(s), Move(s, status, by),
             slip[s].status \in {"none", "pending"}
      PROVE  SlipMovesOnce'
  BY <1>2, SlipKeepsPromises DEF SlipMovesOnce
<1>3. CASE UNCHANGED warehouseVars
  BY <1>1, <1>3 DEF warehouseVars
<1>4. ASSUME NEW m \in Meals, OrderSteps(m) PROVE SlipMovesOnce'
  BY <1>1, <1>4 DEF OrderSteps, BeginReserve, BeginCook, BeginCancel, Begin, Commit, Rollback,
                    CancelFired
<1>5. ASSUME NEW i \in Ingredients, SwitchIngredient(i) \/ OpenItem(i) PROVE SlipMovesOnce'
  BY <1>1, <1>5 DEF SwitchIngredient, OpenItem
<1>6. ASSUME NEW e \in Edits, WriteRecipe(e) PROVE SlipMovesOnce'
  BY <1>1, <1>6 DEF WriteRecipe
<1>7. ASSUME NEW s \in Slips, Receive(s) PROVE SlipMovesOnce'
  BY <1>2, <1>7 DEF Receive, Unseen
<1>8. ASSUME NEW s \in Slips, Declare(s) PROVE SlipMovesOnce'
  <2>1. CASE slip' = [slip EXCEPT ![s].status = "pending"]
    BY <1>0, <1>8, <2>1 DEF Declare, Declarable, Unseen, SlipMovesOnce
  <2> QED  BY <1>2, <1>8, <2>1 DEF Declare, Declarable, Unseen
<1>9. ASSUME NEW s \in Slips, NEW a \in Staff, Approve(s, a) PROVE SlipMovesOnce'
  BY <1>2, <1>9 DEF Approve, Judges
<1>10. ASSUME NEW s \in Slips, NEW a \in Staff, Reject(s, a) PROVE SlipMovesOnce'
  BY <1>0, <1>10 DEF Reject, Judges, SlipMovesOnce
<1>11. Retirable \subseteq Ingredients
  BY WarehouseAssumption
<1> QED
  BY <1>3, <1>4, <1>5, <1>6, <1>7, <1>8, <1>9, <1>10, <1>11 DEF WarehouseNext, SlipSteps

LEMMA WarehouseTypesHold == SupplySpec => []WarehouseTypeOK
<1>1. SupplyInit => WarehouseTypeOK
  BY InitWarehouse DEF SupplyInit
<1>2. WarehouseTypeOK /\ [SupplyNext]_supplyVars => WarehouseTypeOK'
  BY StepWarehouseTypes, SupplySteps
<1> QED
  BY <1>1, <1>2, PTL DEF SupplySpec

(* A slip sent twice, approved twice or sent again after its approval      *)
(* moves the stock once, and never when it was refused.                    *)
THEOREM SlipMovesOnceHolds == SupplySpec => []SlipMovesOnce
<1>1. SupplyInit => SlipMovesOnce
  BY DEF SupplyInit, WarehouseInit, SlipMovesOnce
<1>2. WarehouseTypeOK /\ SlipMovesOnce /\ [SupplyNext]_supplyVars => SlipMovesOnce'
  BY StepSlips, SupplySteps
<1> QED
  BY <1>1, <1>2, WarehouseTypesHold, PTL DEF SupplySpec

(* Nobody moves alone more than the ceiling, or what has no known price:   *)
(* the second signature is that of another person.                         *)
THEOREM FourEyesHold == SupplySpec => FourEyes
<1> DEFINE Signed ==
      \A s \in Slips :
        slip'[s].moves > slip[s].moves /\ Slip[s].kind # "receipt" /\ OverCeiling(s)
          => slip'[s].decidedBy \in Staff \ {Slip[s].by}
<1>1. ASSUME WarehouseTypeOK, [WarehouseNext]_warehouseVars PROVE [Signed]_warehouseVars
  <2> SUFFICES ASSUME WarehouseNext PROVE Signed
    BY <1>1
  <2>0. /\ slip \in [Slips -> [status : {"none", "moved", "pending", "approved", "rejected"},
                               decidedBy : Staff \cup {"nobody"}, moves : Nat]]
        /\ \A s \in Slips : ~(slip[s].moves > slip[s].moves)
    BY <1>1 DEF WarehouseTypeOK
  <2>1. ASSUME \A s \in Slips : slip'[s].moves = slip[s].moves PROVE Signed
    BY <2>0, <2>1
  <2>2. ASSUME NEW m \in Meals, OrderSteps(m) PROVE Signed
    BY <2>1, <2>2 DEF OrderSteps, BeginReserve, BeginCook, BeginCancel, Begin, Commit, Rollback,
                      CancelFired
  <2>3. ASSUME NEW i \in Ingredients, SwitchIngredient(i) \/ OpenItem(i) PROVE Signed
    BY <2>1, <2>3 DEF SwitchIngredient, OpenItem
  <2>4. ASSUME NEW e \in Edits, WriteRecipe(e) PROVE Signed
    BY <2>1, <2>4 DEF WriteRecipe
  <2>5. ASSUME NEW s \in Slips, Receive(s) PROVE Signed
    BY <1>1, <2>0, <2>5, SlipKeepsPromises DEF Receive
  <2>6. ASSUME NEW s \in Slips, Declare(s) PROVE Signed
    <3>1. CASE slip' = [slip EXCEPT ![s].status = "pending"]
      BY <2>0, <2>1, <3>1
    <3>2. CASE PassesAlone(s) /\ CanMove(s) /\ Move(s, "moved", "nobody")
      <4>1. ~OverCeiling(s)
        <5>1. PICK a \in Int : a = Magnitude(Slip[s].quantity) * unitCost[Slip[s].item]
          <6>1. /\ Slip[s].quantity \in Int /\ unitCost[Slip[s].item] \in Nat
            BY <1>1, WarehouseAssumption DEF WarehouseTypeOK
          <6>2. Magnitude(Slip[s].quantity) \in Int
            BY <6>1 DEF Magnitude
          <6> QED  BY <6>1, <6>2
        <5>2. Ceiling \in Nat
          BY WarehouseAssumption
        <5> QED  BY <3>2, <5>1, <5>2 DEF PassesAlone, OverCeiling
      <4> QED  BY <1>1, <2>0, <3>2, <4>1, SlipKeepsPromises
    <3> QED  BY <2>6, <3>1, <3>2 DEF Declare
  <2>7. ASSUME NEW s \in Slips, NEW a \in Staff, Approve(s, a) PROVE Signed
    <3>1. a # Slip[s].by /\ CanMove(s) /\ Move(s, "approved", a)
      BY <2>7 DEF Approve, Judges
    <3> QED  BY <1>1, <2>0, <3>1, SlipKeepsPromises
  <2>8. ASSUME NEW s \in Slips, NEW a \in Staff, Reject(s, a) PROVE Signed
    BY <2>0, <2>1, <2>8 DEF Reject
  <2>9. Retirable \subseteq Ingredients
    BY WarehouseAssumption
  <2> QED
    BY <2>2, <2>3, <2>4, <2>5, <2>6, <2>7, <2>8, <2>9 DEF WarehouseNext, SlipSteps
<1>2. WarehouseTypeOK /\ [SupplyNext]_supplyVars => [Signed]_warehouseVars
  BY <1>1, SupplySteps
<1> QED
  BY <1>2, WarehouseTypesHold, PTL DEF SupplySpec, FourEyes

(* What the availability page tells of a basket is what its order would    *)
(* get: no line is short exactly when the reservation would pass.          *)
LEMMA VerdictOfMeal ==
  ASSUME WarehouseTypeOK, NEW m \in Meals
  PROVE  (\A l \in Basket[m] : ~Shortage(l, Basket[m])) <=>
         (\A i \in Ingredients : Engaged(Basket[m])[i] <= Available(i)
                                  \/ Engaged(Basket[m])[i] = 0)
<1>0. RecipeType /\ tracked \subseteq Ingredients
  BY DEF WarehouseTypeOK, RecipeType
<1>1. ASSUME NEW i \in Ingredients PROVE Available(i) \in Int
  BY DEF Available, WarehouseTypeOK
<1>2. ASSUME NEW i \in Ingredients, Requirement(Basket[m], i) # 0
      PROVE  \E l \in Basket[m] : Portion(l, i) > 0
  <2> SUFFICES ASSUME \A l \in Basket[m] : Portion(l, i) = 0 PROVE FALSE
    BY <1>0, RequirementIsNatural
  <2>1. \A l \in Basket[m] : Weights(Basket[m], i)[l] = 0
    <3>1. \A l \in Basket[m] : l.quantity \in Nat
      BY <1>0, RequirementIsNatural DEF Line
    <3> QED  BY <3>1 DEF Weights
  <2>2. PICK f : f = Weights(Basket[m], i)
    OBVIOUS
  <2>3. SumFunctionOnSet(f, Basket[m]) = 0
    BY <1>0, <2>1, <2>2, RequirementIsNatural, SumOfZeros
  <2> QED  BY <1>0, <1>2, <2>2, <2>3, RequirementIsNatural
<1>3. ASSUME NEW i \in Ingredients, NEW l \in Basket[m], Portion(l, i) > 0
      PROVE  /\ Portion(l, i) * l.quantity \in Nat /\ Portion(l, i) * l.quantity > 0
             /\ Portion(l, i) * l.quantity <= Requirement(Basket[m], i)
  <2>1. PICK f : f = Weights(Basket[m], i)
    OBVIOUS
  <2>2. SumFunctionOnSet(f, {l}) <= SumFunctionOnSet(f, Basket[m])
    BY <1>0, <2>1, RequirementIsNatural, SumGrows
  <2>3. f[l] = Portion(l, i) * l.quantity /\ f[l] \in Nat
    <3>1. f[l] = Portion(l, i) * l.quantity
      BY <2>1 DEF Weights
    <3>2. f[l] \in Nat
      BY <1>0, <2>1, RequirementIsNatural
    <3> QED  BY <3>1, <3>2
  <2>4. SumFunctionOnSet(f, {l}) = f[l]
    <3>1. IsFiniteSet({l}) /\ {l} \ {l} = {}
      BY FS_Singleton
    <3>2. \A x \in {l} : f[x] \in Int
      BY <2>3
    <3>3. SumFunctionOnSet(f, {l}) = f[l] + SumFunctionOnSet(f, {l} \ {l})
      BY <3>1, <3>2, SumTakesOut
    <3>4. ASSUME NEW E, E = {} PROVE SumFunctionOnSet(f, E) = 0
      BY <3>4, SumOfNone
    <3>5. SumFunctionOnSet(f, {l} \ {l}) = 0
      BY <3>1, <3>4
    <3> QED  BY <2>3, <3>3, <3>5
  <2>5. Portion(l, i) \in Nat /\ l.quantity \in Nat \ {0}
    BY <1>0, RequirementIsNatural DEF Line
  <2>6. Portion(l, i) * l.quantity > 0
    BY <1>3, <2>5, Multiplied
  <2>7. Requirement(Basket[m], i) = SumFunctionOnSet(f, Basket[m])
    BY <1>0, <2>1, RequirementIsNatural
  <2> QED  BY <2>2, <2>3, <2>4, <2>6, <2>7
<1>4. ASSUME NEW i \in Ingredients, Engaged(Basket[m])[i] > Available(i), Engaged(Basket[m])[i] # 0
      PROVE  \E l \in Basket[m] : Shortage(l, Basket[m])
  <2>1. i \in tracked /\ Requirement(Basket[m], i) > Available(i) /\ Requirement(Basket[m], i) # 0
    BY <1>0, <1>4, EngagedIsNatural
  <2>2. PICK l \in Basket[m] : Portion(l, i) > 0
    BY <1>2, <2>1
  <2> QED  BY <2>1, <2>2 DEF Shortage, ShortShared
<1>5. ASSUME NEW l \in Basket[m], Shortage(l, Basket[m])
      PROVE  \E i \in Ingredients : Engaged(Basket[m])[i] > Available(i) /\ Engaged(Basket[m])[i] # 0
  <2>1. PICK i \in tracked : /\ Portion(l, i) > 0
                             /\ \/ Portion(l, i) * l.quantity > Available(i)
                                \/ Requirement(Basket[m], i) > Available(i)
    BY <1>5 DEF Shortage, ShortAlone, ShortShared
  <2>2. i \in Ingredients
    BY <1>0
  <2>3. PICK r, w \in Nat, a \in Int : /\ r = Requirement(Basket[m], i) /\ a = Available(i)
                                      /\ w = Portion(l, i) * l.quantity
    BY <1>0, <1>1, <1>3, <2>1, <2>2, RequirementIsNatural
  <2>4. w > 0 /\ w <= r /\ (w > a \/ r > a)
    BY <1>3, <2>1, <2>2, <2>3
  <2>5. Engaged(Basket[m])[i] = r
    BY <1>0, <2>2, <2>3, EngagedIsNatural
  <2> QED  BY <2>2, <2>3, <2>4, <2>5
<1>6. \A i \in Ingredients : Engaged(Basket[m])[i] \in Nat
  BY <1>0, EngagedIsNatural
<1> QED
  BY <1>1, <1>4, <1>5, <1>6

(* What is told of a basket is what its order would get, in every state    *)
(* the kitchen can be in.                                                  *)
THEOREM VerdictHolds == SupplySpec => []VerdictMatchesReservation
<1>1. WarehouseTypeOK => VerdictMatchesReservation
  BY VerdictOfMeal DEF VerdictMatchesReservation
<1> QED
  BY <1>1, WarehouseTypesHold, PTL

-----------------------------------------------------------------------------
(* Promises.                                                               *)

Needs(i) == [m \in Meals |-> Requirement(Basket[m], i)]
Promised(i) == SumFunctionOnSet(Needs(i), WaitingMeals)

(* An order works on the material of a meal that stands where it found it. *)
JobsFollowMeals ==
  \A m \in Meals : job[m] # NoJob =>
    IF job[m].kind = "reserve" THEN meal[m] = "none" ELSE meal[m] = "waiting"

(* What no line tracks is not promised, nor about to be.                   *)
UntrackedIsFree ==
  \A i \in Ingredients \ tracked :
    /\ reserved[i] = 0
    /\ \A m \in Meals : job[m] # NoJob => job[m].need[i] = 0

(* Without drift, a job has read what its meal takes, and a meal about to  *)
(* be cooked has found its own promise among the others.                   *)
JobsAreUpToDate ==
  ~drift => \A m \in Meals, i \in Ingredients : job[m] # NoJob =>
    /\ job[m].need[i] = Engaged(Basket[m])[i]
    /\ job[m].kind = "cook" => job[m].need[i] <= job[m].promised[i]

PromisesInv == JobsFollowMeals /\ UntrackedIsFree /\ JobsAreUpToDate /\ PromisesAreBacked

LEMMA WaitingAreFinite == IsFiniteSet(WaitingMeals) /\ WaitingMeals \subseteq Meals
BY WarehouseAssumption, FS_Subset DEF WaitingMeals

LEMMA NeedsAreNatural ==
  ASSUME RecipeType, NEW i \in Ingredients
  PROVE  /\ \A m \in Meals : Needs(i)[m] = Requirement(Basket[m], i) /\ Needs(i)[m] \in Nat
         /\ Promised(i) \in Nat
<1>1. \A m \in Meals : Needs(i)[m] = Requirement(Basket[m], i) /\ Needs(i)[m] \in Nat
  BY RequirementIsNatural DEF Needs
<1>2. PICK f : f = Needs(i)
  OBVIOUS
<1>3. SumFunctionOnSet(f, WaitingMeals) \in Nat
  BY <1>1, <1>2, WaitingAreFinite, SumIsNatural
<1> QED
  BY <1>1, <1>2, <1>3 DEF Promised

(* Of the promises made, those of a waiting meal are a part.               *)
LEMMA OneOfThePromises ==
  ASSUME RecipeType, NEW i \in Ingredients, NEW m \in WaitingMeals
  PROVE  Requirement(Basket[m], i) <= Promised(i)
<1>1. PICK f, S : f = Needs(i) /\ S = WaitingMeals
  OBVIOUS
<1>2. IsFiniteSet(S) /\ m \in S /\ \A x \in S : f[x] \in Nat
  BY <1>1, WaitingAreFinite, NeedsAreNatural
<1>3. SumFunctionOnSet(f, S) = f[m] + SumFunctionOnSet(f, S \ {m})
  BY <1>2, SumTakesOut
<1>4. SumFunctionOnSet(f, S \ {m}) \in Nat
  BY <1>2, FS_Subset, SumIsNatural
<1>5. f[m] = Requirement(Basket[m], i)
  BY <1>1, WaitingAreFinite, NeedsAreNatural
<1> QED
  BY <1>1, <1>2, <1>3, <1>4, <1>5 DEF Promised

LEMMA NothingWaits ==
  ASSUME WaitingMeals = {}, NEW i PROVE Promised(i) = 0
<1>1. PICK f : f = Needs(i)
  OBVIOUS
<1>2. SumFunctionOnSet(f, {}) = 0
  BY SumOfNone
<1> QED
  BY <1>1, <1>2 DEF Promised

LEMMA InitPromises == WarehouseInit => PromisesInv
<1> SUFFICES ASSUME WarehouseInit PROVE PromisesInv
  OBVIOUS
<1>1. JobsFollowMeals /\ UntrackedIsFree /\ JobsAreUpToDate
  BY DEF WarehouseInit, JobsFollowMeals, UntrackedIsFree, JobsAreUpToDate
<1>2. PromisesAreBacked
  BY DEF WarehouseInit, PromisesAreBacked
<1> QED
  BY <1>1, <1>2 DEF PromisesInv

LEMMA PromisesInvGives == WarehouseTypeOK /\ PromisesInv => RefusalBelongsToTheOrder
<1> SUFFICES ASSUME WarehouseTypeOK, PromisesInv, NEW m \in Meals, ~drift,
                    job[m].kind \in {"cook", "cancel"}
             PROVE  Applies(job[m])
  BY DEF RefusalBelongsToTheOrder
<1>1. PICK j : j = job[m]
  OBVIOUS
<1>2. RecipeType /\ job \in [Meals -> Job] /\ tracked \subseteq Ingredients
  BY DEF WarehouseTypeOK, RecipeType
<1>3. j # NoJob /\ j \in RealJob /\ m \in WaitingMeals
  BY <1>1, <1>2 DEF NoJob, Job, RealJob, PromisesInv, JobsFollowMeals, WaitingMeals
<1> SUFFICES ASSUME NEW i \in Ingredients
             PROVE  /\ Freed(j, i) <= reserved[i]
                    /\ Pledged(j, i) > 0 => reserved[i] + Pledged(j, i) <= onHand[i]
                    /\ Consumed(j, i) > 0 => reserved[i] - Freed(j, i) <= onHand[i] - Consumed(j, i)
  BY <1>1 DEF Applies
<1>4. /\ j.need[i] = Engaged(Basket[m])[i]
      /\ j.kind = "cook" => j.need[i] <= j.promised[i]
  BY <1>1, <1>3 DEF PromisesInv, JobsAreUpToDate
<1>5. j.need[i] <= reserved[i]
  <2>1. CASE i \in tracked
    <3>1. reserved[i] = Promised(i)
      BY <2>1 DEF PromisesInv, PromisesAreBacked, Promised, Needs
    <3>2. j.need[i] = Requirement(Basket[m], i)
      BY <1>2, <1>4, <2>1, EngagedIsNatural
    <3> QED  BY <1>2, <1>3, <3>1, <3>2, OneOfThePromises
  <2>2. CASE i \notin tracked
    BY <1>1, <1>3, <2>2 DEF PromisesInv, UntrackedIsFree
  <2> QED  BY <2>1, <2>2
<1>6. reserved[i] \in Nat /\ onHand[i] \in Nat /\ reserved[i] <= onHand[i]
  BY DEF WarehouseTypeOK
<1>7. CASE j.kind = "cancel"
  BY <1>3, <1>5, <1>6, <1>7, JobEffects
<1>8. CASE j.kind = "cook"
  <2>1. Freed(j, i) = j.need[i] /\ Pledged(j, i) = 0 /\ Consumed(j, i) = j.need[i]
    BY <1>3, <1>4, <1>8, JobEffects DEF Lesser
  <2>2. j.need[i] \in Nat
    BY <1>3, JobEffects
  <2> QED  BY <1>5, <1>6, <2>1, <2>2
<1> QED
  BY <1>1, <1>7, <1>8

LEMMA StepPromises ==
  WarehouseTypeOK /\ PromisesInv /\ [WarehouseNext]_warehouseVars => PromisesInv'
<1> SUFFICES ASSUME WarehouseTypeOK, PromisesInv, [WarehouseNext]_warehouseVars
             PROVE  PromisesInv'
  OBVIOUS
<1> USE DEF PromisesInv
<1>0. /\ RecipeType /\ job \in [Meals -> Job] /\ tracked \subseteq Ingredients
      /\ meal \in [Meals -> {"none", "waiting", "fired", "cancelled"}]
      /\ reserved \in [Ingredients -> Nat] /\ drift \in BOOLEAN
  BY DEF WarehouseTypeOK, RecipeType
<1>1. ASSUME UNCHANGED recipe
      PROVE  /\ \A lines_, i : Requirement(lines_, i)' = Requirement(lines_, i)
             /\ \A i : Needs(i)' = Needs(i)
  BY <1>1 DEF Requirement, Portion, Needs
<1>2. ASSUME UNCHANGED <<recipe, tracked>>
      PROVE  \A lines_ : Engaged(lines_)' = Engaged(lines_)
  BY <1>1, <1>2 DEF Engaged
<1>3. ASSUME UNCHANGED <<tracked, reserved, recipe, meal, job, drift>> PROVE PromisesInv'
  <2>1. WaitingMeals' = WaitingMeals
    BY <1>3 DEF WaitingMeals
  <2>2. JobsFollowMeals' /\ UntrackedIsFree'
    BY <1>3 DEF JobsFollowMeals, UntrackedIsFree
  <2>3. JobsAreUpToDate'
    BY <1>2, <1>3 DEF JobsAreUpToDate
  <2>4. PromisesAreBacked'
    BY <1>1, <1>3, <2>1 DEF PromisesAreBacked
  <2> QED  BY <2>2, <2>3, <2>4
<1>4. ASSUME ~Disturbed, UNCHANGED <<meal, job, reserved>>, drift' = Disturbed,
             tracked \subseteq tracked'
      PROVE  PromisesInv'
  <2>1. ~drift /\ ~drift' /\ \A m \in Meals : meal[m] # "waiting" /\ job[m].kind # "reserve"
    BY <1>4 DEF Disturbed, Waits
  <2>2. \A m \in Meals : job[m] = NoJob
    BY <2>1 DEF JobsFollowMeals
  <2>3. WaitingMeals = {} /\ WaitingMeals' = {}
    BY <1>4, <2>1 DEF WaitingMeals
  <2>4. \A i \in Ingredients : reserved[i] = 0
    <3> SUFFICES ASSUME NEW i \in tracked PROVE reserved[i] = 0
      BY DEF UntrackedIsFree
    <3>1. reserved[i] = Promised(i)
      BY <2>1 DEF PromisesAreBacked, Promised, Needs
    <3> QED  BY <2>3, <3>1, NothingWaits
  <2>5. ASSUME NEW i PROVE SumFunctionOnSet([m \in Meals |-> Requirement(Basket[m], i)'], {}) = 0
    <3>1. PICK f : f = [m \in Meals |-> Requirement(Basket[m], i)']
      OBVIOUS
    <3>2. SumFunctionOnSet(f, {}) = 0
      BY SumOfNone
    <3> QED  BY <3>1, <3>2
  <2>6. JobsFollowMeals' /\ UntrackedIsFree' /\ JobsAreUpToDate'
    BY <1>4, <2>2, <2>4 DEF JobsFollowMeals, UntrackedIsFree, JobsAreUpToDate
  <2>7. PromisesAreBacked'
    <3> SUFFICES ASSUME NEW i \in tracked'
                 PROVE  reserved'[i] = SumFunctionOnSet([m \in Meals |-> Requirement(Basket[m], i)'], {})
      BY <2>3 DEF PromisesAreBacked
    <3>1. reserved[i] = 0
      BY <2>4, StepWarehouseTypes DEF WarehouseTypeOK
    <3> QED  BY <1>4, <2>5, <3>1
  <2> QED  BY <2>6, <2>7
<1>5. ASSUME Disturbed, UNCHANGED <<meal, job, reserved>>, drift' = Disturbed,
             tracked \subseteq tracked'
      PROVE  PromisesInv'
  BY <1>5 DEF JobsFollowMeals, UntrackedIsFree, JobsAreUpToDate, PromisesAreBacked
<1>6. ASSUME NEW i \in Ingredients, OpenItem(i) PROVE PromisesInv'
  BY <1>4, <1>5, <1>6 DEF OpenItem
<1>7. ASSUME NEW e \in Edits, WriteRecipe(e) PROVE PromisesInv'
  BY <1>4, <1>5, <1>7 DEF WriteRecipe
<1>8. ASSUME NEW i \in Ingredients, SwitchIngredient(i) PROVE PromisesInv'
  BY <1>3, <1>8 DEF SwitchIngredient
<1>9. ASSUME NEW s \in Slips, SlipSteps(s) PROVE PromisesInv'
  BY <1>3, <1>9 DEF SlipSteps, Receive, Declare, Approve, Reject
<1>10. CASE UNCHANGED warehouseVars
  BY <1>3, <1>10 DEF warehouseVars
<1>11. ASSUME NEW m \in Meals, CancelFired(m) PROVE PromisesInv'
  <2>1. /\ meal[m] = "fired" /\ meal' = [meal EXCEPT ![m] = "cancelled"]
        /\ UNCHANGED <<tracked, reserved, recipe, job, drift>>
    BY <1>11 DEF CancelFired
  <2>2. WaitingMeals' = WaitingMeals
    BY <1>0, <2>1 DEF WaitingMeals
  <2>3. JobsFollowMeals'
    BY <1>0, <2>1 DEF JobsFollowMeals
  <2>4. UntrackedIsFree' /\ JobsAreUpToDate'
    BY <1>2, <2>1 DEF UntrackedIsFree, JobsAreUpToDate
  <2>5. PromisesAreBacked'
    BY <1>1, <2>1, <2>2 DEF PromisesAreBacked
  <2> QED  BY <2>3, <2>4, <2>5
<1>12. ASSUME NEW m \in Meals, Rollback(m) PROVE PromisesInv'
  <2>1. /\ job' = [job EXCEPT ![m] = NoJob]
        /\ UNCHANGED <<tracked, reserved, recipe, meal, drift>>
    BY <1>12 DEF Rollback
  <2>2. WaitingMeals' = WaitingMeals
    BY <2>1 DEF WaitingMeals
  <2>3. \A n \in Meals : job'[n] # NoJob => job'[n] = job[n] /\ job[n] # NoJob
    BY <1>0, <2>1
  <2>4. JobsFollowMeals' /\ UntrackedIsFree'
    BY <2>1, <2>3 DEF JobsFollowMeals, UntrackedIsFree
  <2>5. JobsAreUpToDate'
    BY <1>2, <2>1, <2>3 DEF JobsAreUpToDate
  <2>6. PromisesAreBacked'
    BY <1>1, <2>1, <2>2 DEF PromisesAreBacked
  <2> QED  BY <2>4, <2>5, <2>6
<1>13. ASSUME NEW m \in Meals, NEW kind \in {"reserve", "cook", "cancel"}, NEW from,
              from = (IF kind = "reserve" THEN "none" ELSE "waiting"), Begin(m, kind, from)
       PROVE  PromisesInv'
  <2>1. /\ meal[m] = from /\ job[m] = NoJob
        /\ job' = [job EXCEPT ![m] = [kind |-> kind, need |-> Engaged(Basket[m]), promised |-> reserved]]
        /\ UNCHANGED <<tracked, reserved, recipe, meal, drift>>
    BY <1>13 DEF Begin
  <2>2. WaitingMeals' = WaitingMeals
    BY <2>1 DEF WaitingMeals
  <2>3. /\ \A n \in Meals \ {m} : job'[n] = job[n]
        /\ job'[m].kind = kind /\ job'[m].need = Engaged(Basket[m]) /\ job'[m].promised = reserved
    BY <1>0, <2>1
  <2>4. JobsFollowMeals'
    BY <1>13, <2>1, <2>3 DEF JobsFollowMeals
  <2>5. UntrackedIsFree'
    <3>1. \A i \in Ingredients \ tracked : Engaged(Basket[m])[i] = 0
      BY <1>0, EngagedIsNatural
    <3> QED  BY <2>1, <2>3, <3>1 DEF UntrackedIsFree
  <2>6. ASSUME NEW i \in Ingredients, ~drift, kind = "cook" PROVE Engaged(Basket[m])[i] <= reserved[i]
    <3>1. CASE i \in tracked
      <4>1. reserved[i] = Promised(i)
        BY <2>6, <3>1 DEF PromisesAreBacked, Promised, Needs
      <4>2. m \in WaitingMeals
        BY <1>13, <2>1, <2>6 DEF WaitingMeals
      <4> QED  BY <1>0, <3>1, <4>1, <4>2, EngagedIsNatural, OneOfThePromises
    <3>2. CASE i \notin tracked
      <4>1. Engaged(Basket[m])[i] = 0 /\ reserved[i] \in Nat
        BY <1>0, <3>2, EngagedIsNatural
      <4> QED  BY <4>1
    <3> QED  BY <3>1, <3>2
  <2>7. JobsAreUpToDate'
    <3> SUFFICES ASSUME ~drift, NEW n \in Meals, NEW i \in Ingredients, job'[n] # NoJob
                 PROVE  /\ job'[n].need[i] = Engaged(Basket[n])[i]
                        /\ job'[n].kind = "cook" => job'[n].need[i] <= job'[n].promised[i]
      BY <1>2, <2>1 DEF JobsAreUpToDate
    <3>1. CASE n = m
      BY <2>3, <2>6, <3>1
    <3>2. CASE n # m
      BY <2>3, <3>2 DEF JobsAreUpToDate
    <3> QED  BY <3>1, <3>2
  <2>8. PromisesAreBacked'
    BY <1>1, <2>1, <2>2 DEF PromisesAreBacked
  <2> QED  BY <2>4, <2>5, <2>7, <2>8
<1>14. ASSUME NEW m \in Meals, Commit(m) PROVE PromisesInv'
  <2>1. PICK j : j = job[m]
    OBVIOUS
  <2>2. j # NoJob /\ j \in RealJob
    BY <1>0, <1>14, <2>1 DEF Commit, Job, RealJob
  <2>3. /\ reserved' = [i \in Ingredients |-> reserved[i] + Pledged(j, i) - Freed(j, i)]
        /\ meal' = [meal EXCEPT ![m] = Outcome(j.kind)] /\ job' = [job EXCEPT ![m] = NoJob]
        /\ UNCHANGED <<tracked, recipe, drift>>
    BY <1>14, <2>1 DEF Commit
  <2>4. \A n \in Meals : job'[n] # NoJob => n # m /\ job'[n] = job[n] /\ job[n] # NoJob
    BY <1>0, <2>3
  <2>5. \A n \in Meals \ {m} : meal'[n] = meal[n]
    BY <1>0, <2>3
  <2>6. JobsFollowMeals'
    BY <2>4, <2>5 DEF JobsFollowMeals
  <2>7. JobsAreUpToDate'
    BY <1>2, <2>3, <2>4 DEF JobsAreUpToDate
  <2>8. UntrackedIsFree'
    <3> SUFFICES ASSUME NEW i \in Ingredients \ tracked PROVE reserved'[i] = 0
      BY <2>3, <2>4 DEF UntrackedIsFree
    <3>1. reserved[i] = 0 /\ j.need[i] = 0
      BY <2>1, <2>2 DEF UntrackedIsFree
    <3>2. Pledged(j, i) = 0 /\ Freed(j, i) = 0
      <4>1. Freed(j, i) \in Nat /\ Freed(j, i) <= j.need[i] /\ j.kind \in {"reserve", "cook", "cancel"}
        BY <2>2, JobEffects DEF RealJob
      <4> QED  BY <2>2, <3>1, <4>1, JobEffects
    <3> QED  BY <2>3, <3>1, <3>2
  <2>9. /\ WaitingMeals' = IF j.kind = "reserve" THEN WaitingMeals \cup {m} ELSE WaitingMeals \ {m}
        /\ IF j.kind = "reserve" THEN m \notin WaitingMeals ELSE m \in WaitingMeals
    <3>1. meal[m] = (IF j.kind = "reserve" THEN "none" ELSE "waiting")
      BY <2>1, <2>2 DEF JobsFollowMeals
    <3>2. j.kind \in {"reserve", "cook", "cancel"}
      BY <2>2 DEF RealJob
    <3>3. meal'[m] = IF j.kind = "reserve" THEN "waiting"
                     ELSE IF j.kind = "cook" THEN "fired" ELSE "cancelled"
      BY <1>0, <2>3, <3>2 DEF Outcome
    <3> QED  BY <2>5, <3>1, <3>2, <3>3 DEF WaitingMeals
  <2>10. PromisesAreBacked'
    <3> SUFFICES ASSUME ~drift, NEW i \in tracked PROVE reserved'[i] = Promised(i)'
      BY <2>3 DEF PromisesAreBacked, Promised, Needs
    <3>1. i \in Ingredients /\ reserved[i] \in Nat
      BY <1>0
    <3>2. PICK f, S : f = Needs(i) /\ S = WaitingMeals
      OBVIOUS
    <3>3. reserved[i] = SumFunctionOnSet(f, S)
      BY <3>2 DEF PromisesAreBacked, Needs
    <3>4. /\ IsFiniteSet(S) /\ \A x \in S \cup {m} : f[x] \in Int
          /\ f[m] = Requirement(Basket[m], i) /\ f[m] \in Nat
      BY <1>0, <3>1, <3>2, WaitingAreFinite, NeedsAreNatural
    <3>5. j.need[i] = f[m]
      BY <1>0, <2>1, <2>2, <3>1, <3>4, EngagedIsNatural DEF JobsAreUpToDate
    <3>6. reserved'[i] = reserved[i] + Pledged(j, i) - Freed(j, i)
      BY <2>3, <3>1
    <3>7. CASE j.kind = "reserve"
      <4>1. Pledged(j, i) = f[m] /\ Freed(j, i) = 0
        BY <2>2, <3>1, <3>5, <3>7, JobEffects
      <4>2. SumFunctionOnSet(f, S \cup {m}) = f[m] + SumFunctionOnSet(f, S)
        BY <2>9, <3>2, <3>4, <3>7, SumPutsIn
      <4>3. Promised(i)' = SumFunctionOnSet(f, S \cup {m})
        BY <1>1, <2>3, <2>9, <3>2, <3>7 DEF Promised
      <4> QED  BY <3>1, <3>3, <3>4, <3>6, <4>1, <4>2, <4>3
    <3>8. CASE j.kind # "reserve"
      <4>1. Pledged(j, i) = 0 /\ Freed(j, i) = f[m]
        <5>1. j.kind = "cook" => j.need[i] <= j.promised[i]
          BY <2>1, <2>2, <3>1 DEF JobsAreUpToDate
        <5>2. j.kind \in {"cook", "cancel"}
          BY <2>2, <3>8 DEF RealJob
        <5> QED  BY <2>2, <3>1, <3>5, <5>1, <5>2, JobEffects DEF Lesser
      <4>2. SumFunctionOnSet(f, S) = f[m] + SumFunctionOnSet(f, S \ {m})
        BY <2>9, <3>2, <3>4, <3>8, SumTakesOut
      <4>3. Promised(i)' = SumFunctionOnSet(f, S \ {m})
        BY <1>1, <2>3, <2>9, <3>2, <3>8 DEF Promised
      <4>4. SumFunctionOnSet(f, S \ {m}) \in Int
        BY <3>4, FS_Subset, SumType
      <4> QED  BY <3>1, <3>3, <3>4, <3>6, <4>1, <4>2, <4>3, <4>4
    <3> QED  BY <3>7, <3>8
  <2> QED  BY <2>6, <2>7, <2>8, <2>10
<1>15. ASSUME NEW m \in Meals, BeginReserve(m) \/ BeginCook(m) \/ BeginCancel(m) PROVE PromisesInv'
  BY <1>13, <1>15 DEF BeginReserve, BeginCook, BeginCancel
<1>16. Retirable \subseteq Ingredients
  BY WarehouseAssumption
<1> QED
  BY <1>6, <1>7, <1>8, <1>9, <1>10, <1>11, <1>12, <1>14, <1>15, <1>16
  DEF WarehouseNext, OrderSteps

LEMMA PromisesHold == SupplySpec => [](WarehouseTypeOK /\ PromisesInv)
<1>1. SupplyInit => WarehouseTypeOK /\ PromisesInv
  BY InitWarehouse, InitPromises DEF SupplyInit
<1>2. WarehouseTypeOK /\ PromisesInv /\ [SupplyNext]_supplyVars => (WarehouseTypeOK /\ PromisesInv)'
  BY StepWarehouseTypes, StepPromises, SupplySteps
<1> QED
  BY <1>1, <1>2, PTL DEF SupplySpec

(* What is reserved of an ingredient is what the waiting meals will take   *)
(* of it, while recipes and stock lines are left alone under them.         *)
THEOREM PromisesStayBacked == SupplySpec => []PromisesAreBacked
<1> QED
  BY PromisesHold, PTL DEF PromisesInv

(* "Le refus appartient a la commande, jamais au feu": once promised, the  *)
(* material of a meal is there when it is fired or cancelled.              *)
THEOREM NeverRefusedAtTheFire == SupplySpec => []RefusalBelongsToTheOrder
<1> QED
  BY PromisesHold, PromisesInvGives, PTL
-----------------------------------------------------------------------------
(* Every variable of the six keeps its type.                               *)
THEOREM SupplyTypesHold == SupplySpec => []SupplyTypeOK
<1> DEFINE TypesOK == /\ WarehouseTypeOK /\ CheckoutTypes /\ GroupInv /\ LocksTypeOK
                      /\ TerritoryTypeOK /\ CalendarTypeOK
<1>1. SupplyInit => TypesOK
  BY InitWarehouse, InitCheckoutTypes, InitGroup, InitLocks, InitTerritoryTypes, InitCalendar
  DEF SupplyInit
<1>2. TypesOK /\ [SupplyNext]_supplyVars => TypesOK'
  BY StepWarehouseTypes, StepCheckoutTypes, StepGroup, StepLocks, StepTerritoryTypes,
     StepCalendar, SupplySteps
<1>3. TypesOK => SupplyTypeOK
  BY DEF SupplyTypeOK, CheckoutTypes, GroupInv
<1> QED
  BY <1>1, <1>2, <1>3, PTL DEF SupplySpec
=============================================================================
