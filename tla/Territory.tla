----------------------------- MODULE Territory ------------------------------
(***************************************************************************)
(* Who delivers an address: zones and kitchens move through their life     *)
(* cycles, zones compete for the address, a kitchen is chosen for it, and  *)
(* an order is judged by the kitchen and the zone of the moment.           *)
(*                                                                         *)
(* The order holds its kitchen's row in share mode from the judgement to   *)
(* the commit; a zone's moves lock its row; the back office reads the rows *)
(* of both and writes them back without a lock.  A kitchen is judged by    *)
(* is_active, which its saves derive from status.  Hours are those of      *)
(* Calendar: here, a set of places open when the question is put.          *)
(***************************************************************************)
EXTENDS Naturals, FiniteSets, FiniteSetsExt

CONSTANTS
  Zones, CityOf, Owner,    \* Owner[z]: the kitchen of an own zone, or TheCity
  TheCity,
  Covering,                \* zones whose boundary covers the address
  Precedence,              \* by priority, surface and identifier: 1 wins
  Kitchens, Anchor,        \* and the zone each stands in
  Distance, Radius,        \* kitchen to address, and max_distance_km of a zone
  NoZone, NoKitchen,
  Clerks, Perimeter,       \* requests of the back office, and the places of each
  FirstStatus              \* of zones and kitchens, before anything happens

ZONE_TRANSITIONS == [
  draft          |-> {"pending_review", "archived"},
  pending_review |-> {"draft", "published", "archived"},
  published      |-> {"suspended", "archived"},
  suspended      |-> {"published", "archived"},
  archived       |-> {}]

RESTAURANT_TRANSITIONS == [
  draft       |-> {"configuring"},
  configuring |-> {"draft", "ready"},
  ready       |-> {"configuring", "active"},
  active      |-> {"inactive"},
  inactive    |-> {"active", "configuring"}]

ASSUME TerritoryAssumption ==
  /\ TheCity \notin Kitchens /\ NoZone \notin Zones
  /\ NoKitchen \notin Zones \cup Kitchens /\ Zones \cap Kitchens = {}
  /\ Owner \in [Zones -> Kitchens \cup {TheCity, NoKitchen}] /\ DOMAIN CityOf = Zones
  /\ Anchor \in [Kitchens -> Zones] /\ Covering \subseteq Zones
  /\ Precedence \in [Zones -> Nat] /\ \A y, z \in Zones : Precedence[y] = Precedence[z] => y = z
  /\ Perimeter \in [Clerks -> SUBSET (Zones \cup Kitchens)]
  /\ Distance \in [Kitchens -> Nat] /\ Radius \in [Zones -> Nat]
  /\ \A z \in Zones : FirstStatus[z] \in DOMAIN ZONE_TRANSITIONS
  /\ \A k \in Kitchens : FirstStatus[k] \in DOMAIN RESTAURANT_TRANSITIONS

VARIABLES
  zone,       \* DeliveryZone.status
  kitchen,    \* [status, is_active, accepts_orders] of Restaurant
  sheet,      \* the place a request of the back office is on, and the row it read
  placing,    \* the order under way, and the kitchen whose row it holds
  overtaken   \* history: kitchens last moved from a row another request had moved

territoryVars == <<zone, kitchen, sheet, placing, overtaken>>

(* Restaurant.save: is_active is derived from status at every save.        *)
Published(row) ==
  [status |-> row.status, active |-> row.status = "active", accepts |-> row.accepts]

Closed == [on |-> NoKitchen]
NotPlacing == [at |-> "none", kitchen |-> NoKitchen, zone |-> NoZone]

TerritoryInit ==
  /\ zone = [z \in Zones |-> FirstStatus[z]]
  /\ kitchen = [k \in Kitchens |-> Published([status |-> FirstStatus[k], accepts |-> TRUE])]
  /\ sheet = [c \in Clerks |-> Closed]
  /\ placing = NotPlacing
  /\ overtaken = {}

-----------------------------------------------------------------------------
(* Zones.                                                                  *)

transition_zone(z, target) ==
  /\ target \in ZONE_TRANSITIONS[zone[z]]
  /\ zone' = [zone EXCEPT ![z] = target]
  /\ UNCHANGED <<kitchen, sheet, placing, overtaken>>

IsActive(z) == zone[z] = "published"

-----------------------------------------------------------------------------
(* explain_resolution: which zone prices the address for kitchen k, when   *)
(* the zones of open are within their hours.                               *)

Stronger(y, z, k) ==
  \/ Owner[y] = k /\ Owner[z] # k
  \/ (Owner[y] = k <=> Owner[z] = k) /\ Precedence[y] < Precedence[z]

ConcursAnywhere(z, k) == Owner[z] \in {TheCity, k}   \* mutant: zones of any city
Concurs(z, k) ==
  /\ Owner[z] \in {TheCity, k}
  /\ Owner[z] = TheCity => CityOf[z] = CityOf[Anchor[k]]

Candidates(k) == {z \in Covering : zone[z] # "archived" /\ Concurs(z, k)}
Competing(k, open) == {z \in Candidates(k) : zone[z] = "published" /\ z \in open}

Strongest(S, k) == CHOOSE z \in S : \A y \in S \ {z} : Stronger(z, y, k)
Resolved(k, open) ==
  IF Competing(k, open) = {} THEN NoZone ELSE Strongest(Competing(k, open), k)

BlockedCode(k) ==
  CASE \E z \in Candidates(k) : zone[z] = "published" -> "zone_closed"
    [] \E z \in Candidates(k) : zone[z] = "suspended" -> "zone_suspended"
    [] OTHER -> "address_not_served"

(* check_delivery, for a kitchen the client has designated.                *)
Verdict(k, open) ==
  LET z == Resolved(k, open) IN
  IF z = NoZone THEN BlockedCode(k)
  ELSE IF Distance[k] > Radius[z] THEN "too_far" ELSE "served"

-----------------------------------------------------------------------------
(* _desservantes, _cuisine_pour_le_point: the kitchen the house chooses.   *)

covering_zones == {z \in Covering : IsActive(z)}
Desservantes ==
  {k \in Kitchens :
     /\ kitchen[k].active /\ IsActive(Anchor[k])
     /\ \E z \in covering_zones : \/ Owner[z] = TheCity /\ CityOf[z] = CityOf[Anchor[k]]
                                  \/ Owner[z] = k}

(* kitchen_unavailability: the market, the service, the hours, the pause.  *)
Orderable(k, open) ==
  /\ IsActive(Anchor[k]) /\ kitchen[k].active /\ kitchen[k].status # "inactive"
  /\ k \in open /\ kitchen[k].accepts

Nearest(S) == CHOOSE k \in S : \A j \in S : Distance[k] <= Distance[j]
Chosen(open) ==
  LET able == {k \in Desservantes : Orderable(k, open)} IN
  CASE able # {}         -> Nearest(able)
    [] Desservantes # {} -> Nearest(Desservantes)
    [] OTHER             -> NoKitchen

-----------------------------------------------------------------------------
(* Kitchens.  Every request reads the row, then writes: the whole row, or  *)
(* the status alone.  A row held in share mode is written after its order. *)

HeldByNone(p) == {}                              \* mutant: no lock at the judgement
HeldBy(p) == IF p.at = "judged" THEN {p.kitchen} ELSE {}
ShareLocked == HeldBy(placing)

RowOf(x) == IF x \in Zones THEN [status |-> zone[x]] ELSE kitchen[x]

OpenSheet(c, x) ==
  /\ sheet[c] = Closed /\ x \in Perimeter[c]
  /\ sheet' = [sheet EXCEPT ![c] = [on |-> x, row |-> RowOf(x)]]
  /\ UNCHANGED <<zone, kitchen, placing, overtaken>>

CloseSheet(c) == sheet' = [sheet EXCEPT ![c] = Closed]

(* save_zone_changes: a tariff, with the status it had.  The is_active of  *)
(* an old screen is then a transition_zone, in a transaction of its own.   *)
SaveZoneSheet(c) ==
  /\ sheet[c].on \in Zones
  /\ zone' = [zone EXCEPT ![sheet[c].on] = sheet[c].row.status]
  /\ CloseSheet(c)
  /\ UNCHANGED <<kitchen, placing, overtaken>>

(* The PATCH of a kitchen: a telephone, or the pause; status as it was.    *)
SaveSheet(c, accepts) ==
  LET k == sheet[c].on IN
  /\ k \in Kitchens \ ShareLocked
  /\ kitchen' = [kitchen EXCEPT ![k] =
       Published([status |-> sheet[c].row.status, accepts |-> accepts])]
  /\ overtaken' = overtaken \ {k}
  /\ CloseSheet(c)
  /\ UNCHANGED <<zone, placing>>

(* configuration_gaps: what this model can see of what is missing.         *)
Configured(k) == IsActive(Anchor[k])

(* save(update_fields=["status"]): is_active is written with it only where *)
(* the row as read says otherwise.                                         *)
Moved(current, read, target) ==
  [status  |-> target,
   active  |-> IF read.active = (target = "active") THEN current.active ELSE target = "active",
   accepts |-> current.accepts]

Fresh(k, read) == kitchen[k].status = read.status /\ kitchen[k].active = read.active

transition_to(c, target) ==
  LET k == sheet[c].on
      read == sheet[c].row IN
  /\ k \in Kitchens \ ShareLocked
  /\ target \in RESTAURANT_TRANSITIONS[read.status]
  /\ target = "active" => Configured(k)
  /\ kitchen' = [kitchen EXCEPT ![k] = Moved(kitchen[k], read, target)]
  /\ overtaken' = IF Fresh(k, read) THEN overtaken \ {k} ELSE overtaken \cup {k}
  /\ CloseSheet(c)
  /\ UNCHANGED <<zone, placing>>

(* The sheet is refused, or its request dies.                              *)
DropSheet(c) ==
  /\ sheet[c] # Closed /\ CloseSheet(c)
  /\ UNCHANGED <<zone, kitchen, placing, overtaken>>

-----------------------------------------------------------------------------
(* An order for the kitchen the client has, be it the one the house chose  *)
(* a while ago: the row is read again in share mode, and judged.           *)
can_accept_order(k, open) ==
  /\ placing.at = "none"
  /\ Orderable(k, open) /\ Verdict(k, open) = "served"
  /\ placing' = [at |-> "judged", kitchen |-> k, zone |-> Resolved(k, open)]
  /\ UNCHANGED <<zone, kitchen, sheet, overtaken>>

(* The order commits, or is refused further on and rolls back.             *)
EndOrder ==
  /\ placing.at = "judged"
  /\ placing' = NotPlacing
  /\ UNCHANGED <<zone, kitchen, sheet, overtaken>>

-----------------------------------------------------------------------------
TerritoryNext ==
  \/ \E z \in Zones, target \in DOMAIN ZONE_TRANSITIONS : transition_zone(z, target)
  \/ \E c \in Clerks, x \in Zones \cup Kitchens : OpenSheet(c, x)
  \/ \E c \in Clerks : SaveZoneSheet(c) \/ DropSheet(c)
  \/ \E c \in Clerks, accepts \in BOOLEAN : SaveSheet(c, accepts)
  \/ \E c \in Clerks, target \in DOMAIN RESTAURANT_TRANSITIONS : transition_to(c, target)
  \/ \E k \in Kitchens, open \in SUBSET (Zones \cup Kitchens) : can_accept_order(k, open)
  \/ EndOrder

TerritorySpec == TerritoryInit /\ [][TerritoryNext]_territoryVars

-----------------------------------------------------------------------------
KitchenRow == [status : DOMAIN RESTAURANT_TRANSITIONS, active : BOOLEAN, accepts : BOOLEAN]
ZoneRow == [status : DOMAIN ZONE_TRANSITIONS]

TerritoryTypeOK ==
  /\ zone \in [Zones -> DOMAIN ZONE_TRANSITIONS]
  /\ kitchen \in [Kitchens -> KitchenRow]
  /\ sheet \in [Clerks -> {Closed} \cup [on : Kitchens, row : KitchenRow]
                                   \cup [on : Zones, row : ZoneRow]]
  /\ placing \in {NotPlacing} \cup [at : {"judged"}, kitchen : Kitchens, zone : Zones]
  /\ overtaken \subseteq Kitchens

(* delivery.py: "Deux reponses pour une seule adresse: la regle doit etre  *)
(* la meme dans les deux sens."  In an open market, a kitchen in service   *)
(* is among those the house may choose for an address exactly when the     *)
(* same address, asked with that kitchen designated, has a zone to price   *)
(* it - at some hour, for zones keep theirs; and the kitchen the house     *)
(* chooses, whoever is open, is never one that cannot deliver there.       *)
SameRuleBothWays ==
  /\ \A k \in Kitchens : kitchen[k].active /\ IsActive(Anchor[k]) =>
       (k \in Desservantes <=> Resolved(k, Zones) # NoZone)
  /\ \A open \in SUBSET Kitchens :
       Chosen(open) # NoKitchen => Resolved(Chosen(open), Zones) # NoZone

(* While an order is being written its kitchen is published, not suspended *)
(* and takes orders: a pause or a suspension comes before the judgement,   *)
(* which sees it, or after the order, however the requests of staff        *)
(* interleave.  And the kitchen's status says so too (Restaurant.save:     *)
(* "Maintient is_active aligne sur status"), except where two requests of  *)
(* staff overlapped and the later wrote the status from a row the earlier  *)
(* had moved.                                                              *)
NoOrderAfterThePause ==
  /\ placing.at = "judged" =>
       LET row == kitchen[placing.kitchen] IN
       row.active /\ row.status # "inactive" /\ row.accepts
  /\ \A k \in Kitchens \ overtaken : kitchen[k].active <=> kitchen[k].status = "active"
=============================================================================
