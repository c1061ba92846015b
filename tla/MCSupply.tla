------------------------------ MODULE MCSupply ------------------------------
(***************************************************************************)
(* Two meals on one burger and its cheese; two customers, three requests,  *)
(* a dish and a coupon of which there is one; a cart of two friends; four  *)
(* transactions over the rows of three orders; two kitchens, each in a town*)
(* of its own, and a zone one of them delivers itself; two requests of     *)
(* staff on the other; weeks of two days of three hours.                   *)
(***************************************************************************)
EXTENDS Supply

CONSTANTS bun, cheese, burger, noCheese, meal1, meal2,
          receipt1, receipt2, waste1, ann, bob,
          client1, client2, key1, key2, request1, request2, request3, plate,
          sale0, sale1, sale2, dish1, dish2, coupon, cancel1, fire1, create1, create2,
          town1, town2, own1, kitchen1, kitchen2, clerk1, clerk2

MCCookbook == [r \in Recipes |-> [i \in Ingredients |-> IF r = burger THEN 1 ELSE -1]]
MCEdits == {[recipe |-> burger, ingredient |-> cheese, quantity |-> 2]}

Plain == [dish |-> burger, options |-> {}, quantity |-> 1]
MCBasket == [m \in Meals |->
  IF m = meal1 THEN {Plain, [Plain EXCEPT !.options = {noCheese}]} ELSE {Plain}]

Cheese(kind, quantity, cost) ==
  [kind |-> kind, item |-> cheese, quantity |-> quantity, unitCost |-> cost, by |-> ann]
MCSlip == [s \in Slips |->
  CASE s = receipt1 -> Cheese("receipt", 2, 1)
    [] s = receipt2 -> Cheese("receipt", 1, 4)
    [] s = waste1   -> Cheese("waste", -1, 0)]

MCSentBy == [r \in Requests |-> IF r = request3 THEN client2 ELSE client1]
MCKeyOf == [r \in Requests |-> IF r = request3 THEN key2 ELSE key1]
MCPlatesOnHand == [p \in Plates |-> 1]

MCDishRows == [s \in Sales |-> IF s # sale2 THEN <<dish1, dish2>> ELSE <<dish2, dish1>>]
MCMaterialRows == [s \in Sales |-> IF s # sale2 THEN <<bun, cheese>> ELSE <<cheese, bun>>]
MCCouponRow == [s \in Sales |-> <<coupon>>]
MCRank == [i \in {bun, cheese} |-> IF i = bun THEN 1 ELSE 2]
MCTask == [w \in Tasks |->
  CASE w = cancel1 -> [kind |-> "cancel", sale |-> sale0]
    [] w = fire1   -> [kind |-> "fire", sale |-> sale0]
    [] w = create1 -> [kind |-> "create", sale |-> sale1]
    [] w = create2 -> [kind |-> "create", sale |-> sale2]]
MCCityOf == [z \in Zones |-> IF z = town2 THEN "south" ELSE "north"]
MCOwner == [z \in Zones |-> IF z = own1 THEN kitchen1 ELSE TheCity]
MCPrecedence == [z \in Zones |-> CASE z = town2 -> 1 [] z = town1 -> 2 [] z = own1 -> 3]
MCAnchor == [k \in Kitchens |-> IF k = kitchen1 THEN town1 ELSE town2]
MCDistance == [k \in Kitchens |-> IF k = kitchen1 THEN 2 ELSE 1]
MCRadius == [z \in Zones |-> 2]
MCPerimeter == [c \in Clerks |-> IF c = clerk1 THEN {kitchen2} ELSE {own1, kitchen2}]
MCFirstStatus == [x \in Zones \cup Kitchens |->
  IF x \in Zones THEN "published" ELSE "active"]

Open(weekday, opens, closes) == [weekday |-> weekday, opens |-> opens, closes |-> closes]
MCTimetables ==
  {{}, {Open(0, 0, 2)}, {Open(0, 2, 1)}, {Open(1, 1, 0)},
   {Open(0, 2, 1), Open(1, 1, 2)}, {Open(0, 0, 1), Open(0, 2, 1)}}
MCSpans == {[from |-> 6, to |-> 8], [from |-> 7, to |-> 12],
            [from |-> 9, to |-> 10], [from |-> 11, to |-> 16]}
=============================================================================
