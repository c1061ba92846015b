SPECIFICATION Spec
CONSTANTS
  o1 = o1
  o2 = o2
  c1 = c1
  c2 = c2
  Orders = {o1, o2}
  Couriers = {c1, c2}
  Compatible <- MCCompatible
  MaxTries = 2
INVARIANTS
  OneActivePerOrder
  OneEngagedPerCourier
  CancelledOrderIsDropped
  MealFollowsCourse
  CreditedOnce
PROPERTIES
  CarriageSpec
CHECK_DEADLOCK FALSE
