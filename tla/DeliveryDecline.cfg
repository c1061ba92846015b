SPECIFICATION Spec
CONSTANTS
  o1 = o1
  o2 = o2
  c1 = c1
  c2 = c2
  Orders = {o1}
  Couriers = {c1, c2}
  Compatible <- OneOrder
  MaxTries = 2
PROPERTIES
  CourseFollowsItsMachine
CHECK_DEADLOCK FALSE
