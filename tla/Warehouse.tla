----------------------------- MODULE Warehouse ------------------------------
(***************************************************************************)
(* The raw material of a kitchen: its stock lines, the recipes that say    *)
(* what a dish takes from them, the meals that reserve at the order and    *)
(* consume at the fire, and the slips (deliveries, losses, corrections) by *)
(* which staff move stock, alone or with a second signature.               *)
(*                                                                         *)
(* A meal reads the recipes and the stock lines, then writes: staff may    *)
(* work between the two.  Everything else is one row-locked transaction.   *)
(***************************************************************************)
EXTENDS Integers, FiniteSets, FiniteSetsExt

CONSTANTS
  Ingredients,
  Dishes, Options,   \* the owners of a recipe
  Cookbook,          \* the recipes at first: [Dishes \cup Options -> [Ingredients -> Int]]
  Edits,             \* the recipe lines staff may write over them
  Retirable,         \* the ingredients the referential may drop
  Meals, Basket,     \* the orders, and the lines of each
  Slips, Slip,       \* the keyed stock writings, and what each one says
  Staff,
  Ceiling            \* stock_adjustment_ceiling

Recipes == Dishes \cup Options
Line == [dish : Dishes, options : SUBSET Options, quantity : Nat \ {0}]
NoCost == 0

ASSUME WarehouseAssumption ==
  /\ Cookbook \in [Recipes -> [Ingredients -> Int]]
  /\ Retirable \subseteq Ingredients
  /\ Edits \subseteq [recipe : Recipes, ingredient : Ingredients, quantity : Int]
  /\ IsFiniteSet(Options) /\ IsFiniteSet(Meals)
  /\ Basket \in [Meals -> SUBSET Line] /\ \A m \in Meals : IsFiniteSet(Basket[m])
  /\ Slip \in [Slips -> [kind : {"receipt", "waste", "adjustment"},
                         item : Ingredients, quantity : Int,
                         unitCost : Nat, by : Staff]]
  /\ \A s \in Slips : Slip[s].kind = "receipt" => Slip[s].quantity > 0
  /\ Ceiling \in Nat

VARIABLES
  active,    \* ingredients the referential still knows
  tracked,   \* ingredients the kitchen keeps a StockItem of
  onHand, reserved, unitCost,
  recipe,    \* RecipeIngredient.quantity, 0 without a line
  meal,      \* where the material of an order stands
  job,       \* the transaction an order has under way on its material
  slip,      \* what became of each slip
  drift      \* history: recipes or lines changed under a waiting meal

warehouseVars == <<active, tracked, onHand, reserved, unitCost, recipe,
                   meal, job, slip, drift>>

NoJob == [kind |-> "none"]

WarehouseInit ==
  /\ active = Ingredients
  /\ tracked = {}
  /\ onHand = [i \in Ingredients |-> 0]
  /\ reserved = [i \in Ingredients |-> 0]
  /\ unitCost = [i \in Ingredients |-> NoCost]
  /\ recipe = Cookbook
  /\ meal = [m \in Meals |-> "none"]
  /\ job = [m \in Meals |-> NoJob]
  /\ slip = [s \in Slips |-> [status |-> "none", decidedBy |-> "nobody", moves |-> 0]]
  /\ drift = FALSE

-----------------------------------------------------------------------------
(* What the lines of a basket take, by the recipes of the moment.          *)

AtLeastZero(n) == IF n > 0 THEN n ELSE 0

(* An option adds to the dish, or takes away from it, never below nothing. *)
Portion(l, i) ==
  AtLeastZero(recipe[l.dish][i] + SumFunctionOnSet([o \in Options |-> recipe[o][i]], l.options))

Requirement(lines, i) == SumFunction([l \in lines |-> Portion(l, i) * l.quantity])

(* Without a stock line an ingredient is not tracked, and takes nothing.   *)
Engaged(lines) ==
  [i \in Ingredients |-> IF i \in tracked THEN Requirement(lines, i) ELSE 0]

Available(i) == onHand[i] - reserved[i]

(* MaterialService.shortages: a line too large alone, or a shared shortage.*)
ShortAlone(l) == \E i \in tracked :
  Portion(l, i) > 0 /\ Portion(l, i) * l.quantity > Available(i)
ShortShared(l, lines) == \E i \in tracked :
  Portion(l, i) > 0 /\ Requirement(lines, i) > Available(i)
ShortageAlone(l, lines) == ShortAlone(l)         \* mutant: each line judged alone
Shortage(l, lines) == ShortAlone(l) \/ ShortShared(l, lines)

-----------------------------------------------------------------------------
(* Orders.  Begin reads, Commit writes under the rows it touches.          *)

Waits(m) == meal[m] = "waiting" \/ job[m].kind = "reserve"
Disturbed == drift \/ \E m \in Meals : Waits(m)

Begin(m, kind, from) ==
  /\ meal[m] = from /\ job[m] = NoJob
  /\ job' = [job EXCEPT ![m] = [kind |-> kind, need |-> Engaged(Basket[m]),
                                promised |-> reserved]]
  /\ UNCHANGED <<active, tracked, onHand, reserved, unitCost, recipe, meal, slip, drift>>

BeginReserve(m) == Begin(m, "reserve", "none")
BeginCook(m)    == Begin(m, "cook", "waiting")
BeginCancel(m)  == Begin(m, "cancel", "waiting")

(* What each kind gives back of the promises, adds to them and consumes.   *)
Lesser(a, b) == IF a <= b THEN a ELSE b
CancelFreesNothing(j, i) ==                      \* mutant
  IF j.kind = "cook" THEN Lesser(j.need[i], j.promised[i]) ELSE 0
Freed(j, i) ==
  CASE j.kind = "cancel" -> j.need[i]
    [] j.kind = "cook"   -> Lesser(j.need[i], j.promised[i])
    [] OTHER             -> 0
Pledged(j, i)  == IF j.kind = "reserve" THEN j.need[i] ELSE 0
Consumed(j, i) == IF j.kind = "cook" THEN j.need[i] ELSE 0

(* The conditional updates of _apply, all of them or none.                 *)
AppliesToHand(j) == \A i \in Ingredients :       \* mutant: promises not counted
  /\ Freed(j, i) <= reserved[i]
  /\ Pledged(j, i) <= onHand[i]
  /\ Consumed(j, i) <= onHand[i]
AppliesToTheRest(j) == \A i \in Ingredients :    \* mutant: its own promise counts against it
  /\ Freed(j, i) <= reserved[i]
  /\ Pledged(j, i) > 0 => reserved[i] + Pledged(j, i) <= onHand[i]
  /\ Consumed(j, i) > 0 => Consumed(j, i) <= Available(i)
Applies(j) == \A i \in Ingredients :
  /\ Freed(j, i) <= reserved[i]
  /\ Pledged(j, i) > 0 => reserved[i] + Pledged(j, i) <= onHand[i]
  /\ Consumed(j, i) > 0 => reserved[i] - Freed(j, i) <= onHand[i] - Consumed(j, i)

Outcome(kind) == CASE kind = "reserve" -> "waiting"
                   [] kind = "cook"    -> "fired"
                   [] kind = "cancel"  -> "cancelled"

Commit(m) ==
  LET j == job[m] IN
  /\ j # NoJob
  /\ Applies(j)
  /\ reserved' = [i \in Ingredients |-> reserved[i] + Pledged(j, i) - Freed(j, i)]
  /\ onHand' = [i \in Ingredients |-> onHand[i] - Consumed(j, i)]
  /\ meal' = [meal EXCEPT ![m] = Outcome(j.kind)]
  /\ job' = [job EXCEPT ![m] = NoJob]
  /\ UNCHANGED <<active, tracked, unitCost, recipe, slip, drift>>

(* InsufficientStock: the order, the fire or the cancellation is refused.  *)
Rollback(m) ==
  /\ job[m] # NoJob
  /\ ~Applies(job[m])
  /\ job' = [job EXCEPT ![m] = NoJob]
  /\ UNCHANGED <<active, tracked, onHand, reserved, unitCost, recipe, meal, slip, drift>>

(* Once fired, a cancelled meal gives nothing back.                        *)
CancelFired(m) ==
  /\ meal[m] = "fired"
  /\ meal' = [meal EXCEPT ![m] = "cancelled"]
  /\ UNCHANGED <<active, tracked, onHand, reserved, unitCost, recipe, job, slip, drift>>

-----------------------------------------------------------------------------
(* The referential and the recipes.                                        *)

(* An ingredient is retired, or put back.                                  *)
SwitchIngredient(i) ==
  /\ active' = IF i \in active THEN active \ {i} ELSE active \cup {i}
  /\ UNCHANGED <<tracked, onHand, reserved, unitCost, recipe, meal, job, slip, drift>>

OpenItem(i) ==
  /\ i \in active \ tracked
  /\ tracked' = tracked \cup {i}
  /\ drift' = Disturbed
  /\ UNCHANGED <<active, onHand, reserved, unitCost, recipe, meal, job, slip>>

(* set_ingredient and remove_ingredient (a quantity of 0).                 *)
WriteRecipe(e) ==
  /\ recipe[e.recipe][e.ingredient] # e.quantity
  /\ e.quantity # 0 => e.ingredient \in active
  /\ e.quantity < 0 => e.recipe \in Options
  /\ recipe' = [recipe EXCEPT ![e.recipe][e.ingredient] = e.quantity]
  /\ drift' = Disturbed
  /\ UNCHANGED <<active, tracked, onHand, reserved, unitCost, meal, job, slip>>

-----------------------------------------------------------------------------
(* Slips.  A slip sent again finds its own key, and moves nothing.         *)

UnlessPending(s) == slip[s].status # "pending"   \* mutant: movements not searched
Unseen(s) == slip[s].status = "none"

(* _apply on on_hand, and the CHECK that keeps the promises covered.       *)
CanMove(s) ==
  /\ Slip[s].item \in tracked
  /\ onHand[Slip[s].item] + Slip[s].quantity >= reserved[Slip[s].item]

Move(s, status, by) ==
  /\ onHand' = [onHand EXCEPT ![Slip[s].item] = @ + Slip[s].quantity]
  /\ slip' = [slip EXCEPT ![s] =
       [status |-> status, decidedBy |-> by, moves |-> @.moves + 1]]

(* _reprice: the weighted mean, rounded half up.                           *)
MeanCost(i, quantity, cost) ==
  LET after == onHand[i] + quantity IN
  IF unitCost[i] = NoCost \/ onHand[i] <= 0 \/ after <= 0 THEN cost
  ELSE (2 * (unitCost[i] * onHand[i] + cost * quantity) + after) \div (2 * after)

Receive(s) ==
  LET i == Slip[s].item IN
  /\ Slip[s].kind = "receipt" /\ Unseen(s)
  /\ i \in active /\ CanMove(s)
  /\ Move(s, "moved", "nobody")
  /\ unitCost' = [unitCost EXCEPT ![i] =
       IF Slip[s].unitCost = NoCost THEN @
       ELSE MeanCost(i, Slip[s].quantity, Slip[s].unitCost)]
  /\ UNCHANGED <<active, tracked, reserved, recipe, meal, job, drift>>

Magnitude(n) == IF n < 0 THEN -n ELSE n

(* Small enough, and priced: one person is enough.                         *)
PassesAlone(s) ==
  /\ unitCost[Slip[s].item] # NoCost
  /\ Magnitude(Slip[s].quantity) * unitCost[Slip[s].item] <= Ceiling

Declarable(s) ==
  /\ Slip[s].kind # "receipt" /\ Unseen(s) /\ Slip[s].quantity # 0
  /\ Slip[s].item \in tracked
  /\ -Slip[s].quantity <= onHand[Slip[s].item]

Declare(s) ==
  /\ Declarable(s)
  /\ \/ PassesAlone(s) /\ CanMove(s) /\ Move(s, "moved", "nobody")
     \/ /\ ~PassesAlone(s)
        /\ slip' = [slip EXCEPT ![s].status = "pending"]
        /\ UNCHANGED onHand
  /\ UNCHANGED <<active, tracked, reserved, unitCost, recipe, meal, job, drift>>

(* A pending request, read under its lock, and a person who may judge it.  *)
JudgedByAnyone(s, a) == slip[s].status = "pending"   \* mutant
Judges(s, a) == slip[s].status = "pending" /\ a # Slip[s].by

Approve(s, a) ==
  /\ Judges(s, a)
  /\ CanMove(s) /\ Move(s, "approved", a)
  /\ UNCHANGED <<active, tracked, reserved, unitCost, recipe, meal, job, drift>>

Reject(s, a) ==
  /\ Judges(s, a)
  /\ slip' = [slip EXCEPT ![s].status = "rejected", ![s].decidedBy = a]
  /\ UNCHANGED <<active, tracked, onHand, reserved, unitCost, recipe, meal, job, drift>>

-----------------------------------------------------------------------------
OrderSteps(m) ==
  \/ BeginReserve(m) \/ BeginCook(m) \/ BeginCancel(m)
  \/ Commit(m) \/ Rollback(m) \/ CancelFired(m)

SlipSteps(s) ==
  \/ Receive(s) \/ Declare(s)
  \/ \E a \in Staff : Approve(s, a) \/ Reject(s, a)

WarehouseNext ==
  \/ \E m \in Meals : OrderSteps(m)
  \/ \E i \in Retirable : SwitchIngredient(i)
  \/ \E i \in Ingredients : OpenItem(i)
  \/ \E e \in Edits : WriteRecipe(e)
  \/ \E s \in Slips : SlipSteps(s)

WarehouseSpec == WarehouseInit /\ [][WarehouseNext]_warehouseVars
-----------------------------------------------------------------------------
Job == {NoJob} \cup [kind : {"reserve", "cook", "cancel"},
                     need : [Ingredients -> Nat], promised : [Ingredients -> Nat]]

(* Every variable has its type, and no promise exceeds what is on the      *)
(* shelf: the CHECK of StockItem, and the sign each movement must have.    *)
WarehouseTypeOK ==
  /\ active \subseteq Ingredients /\ tracked \subseteq Ingredients
  /\ onHand \in [Ingredients -> Nat] /\ reserved \in [Ingredients -> Nat]
  /\ \A i \in Ingredients : reserved[i] <= onHand[i]
  /\ unitCost \in [Ingredients -> Nat]
  /\ recipe \in [Recipes -> [Ingredients -> Int]]
  /\ meal \in [Meals -> {"none", "waiting", "fired", "cancelled"}]
  /\ job \in [Meals -> Job]
  /\ slip \in [Slips -> [status : {"none", "moved", "pending", "approved", "rejected"},
                         decidedBy : Staff \cup {"nobody"}, moves : Nat]]
  /\ drift \in BOOLEAN

(* As long as recipes and stock lines are left alone under waiting meals,  *)
(* what is reserved is the sum of what these meals will take.              *)
WaitingMeals == {m \in Meals : meal[m] = "waiting"}
PromisesAreBacked ==
  ~drift => \A i \in tracked :
    reserved[i] = SumFunctionOnSet([m \in Meals |-> Requirement(Basket[m], i)], WaitingMeals)

(* MaterialService.consume: "le refus appartient a la commande, jamais au  *)
(* feu".  Nor is a cancellation refused, whatever other meals, deliveries, *)
(* losses and corrections go between the reading and the writing.          *)
RefusalBelongsToTheOrder ==
  \A m \in Meals : ~drift /\ job[m].kind \in {"cook", "cancel"} => Applies(job[m])

(* What AvailabilityService tells of a basket is what its order would get: *)
(* no line is short exactly when the reservation would pass.               *)
VerdictMatchesReservation ==
  \A m \in Meals :
    (\A l \in Basket[m] : ~Shortage(l, Basket[m])) <=>
    (\A i \in Ingredients : Engaged(Basket[m])[i] <= Available(i)
                              \/ Engaged(Basket[m])[i] = 0)

(* A slip sent twice, approved twice or sent again after its approval      *)
(* moves the stock once, and never when it was refused.                    *)
SlipMovesOnce ==
  \A s \in Slips :
    slip[s].moves = IF slip[s].status \in {"moved", "approved"} THEN 1 ELSE 0

(* One person alone never takes out, or adds, more than the ceiling, nor   *)
(* anything whose price is unknown; two persons sign the rest.             *)
OverCeiling(s) ==
  LET cost == unitCost[Slip[s].item] IN
  cost = NoCost \/ Magnitude(Slip[s].quantity) * cost > Ceiling
FourEyes ==
  [][\A s \in Slips :
       slip'[s].moves > slip[s].moves /\ Slip[s].kind # "receipt" /\ OverCeiling(s)
         => slip'[s].decidedBy \in Staff \ {Slip[s].by}]_warehouseVars
=============================================================================
