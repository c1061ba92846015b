--------------------------- MODULE Delivery_proofs ---------------------------
(***************************************************************************)
(* Proofs about Delivery, for any orders and couriers, whoever may serve   *)
(* whom, and however many couriers a dispatch tries.                       *)
(***************************************************************************)
EXTENDS Delivery, TLAPS

-----------------------------------------------------------------------------
(* Courses, and what the two machines allow.                               *)

LEMMA CourseType ==
  \A p \in Courses : OrderOf(p) \in Orders /\ CourierOf(p) \in Couriers
BY DeliveryAssumption DEF Courses, OrderOf, CourierOf

LEMMA OrderSteps ==
  ASSUME NEW from \in OrderStatus, NEW to, OrderCan(from, to)
  PROVE  /\ to \in OrderStatus
         /\ from \notin {"delivered", "cancelled"}
         /\ to = "cancelled" => from \in {"pending", "confirmed", "preparing", "ready"}
         /\ from = "picked_up" => to = "on_the_way"
         /\ from = "on_the_way" => to = "delivered"
BY DEF OrderCan, OrderNext, OrderStatus

LEMMA CourseSteps ==
  ASSUME NEW from, NEW to, DeliveryCan(from, to)
  PROVE  /\ to \in DeliveryStatus
         /\ from \in {"offered"} \cup ENGAGED_STATUSES
         /\ to \in ENGAGED_STATUSES => to = "accepted" \/ from \in ENGAGED_STATUSES
         /\ to # "offered"
         /\ to = "accepted" => from = "offered"
         /\ to = "delivered" => from \in ENGAGED_STATUSES
BY DEF DeliveryCan, DeliveryNext, DeliveryStatus, ENGAGED_STATUSES

-----------------------------------------------------------------------------
(* Type correctness.                                                       *)

LEMMA InitTypeOK == Init => TypeOK
BY DEF Init, TypeOK, OrderStatus

LEMMA StepTypeOK == TypeOK /\ [Next]_vars => TypeOK'
<1> SUFFICES ASSUME TypeOK, [Next]_vars PROVE TypeOK'
  OBVIOUS
<1>1. ASSUME NEW o \in Orders, MoveOrder(o) PROVE TypeOK'
  <2>1. PICK s \in OrderNext[order[o]] \ {"cancelled"} : order' = [order EXCEPT ![o] = s]
    BY <1>1 DEF MoveOrder
  <2>2. s \in OrderStatus
    BY OrderSteps DEF TypeOK, OrderCan
  <2> QED
    BY <1>1, <2>1, <2>2 DEF MoveOrder, requests, TypeOK
<1>2. ASSUME NEW o \in Orders, CancelOrder(o) PROVE TypeOK'
  BY <1>2 DEF CancelOrder, requests, TypeOK, OrderStatus, DeliveryStatus
<1>3. ASSUME NEW c \in Couriers, ChangeAvailability(c) PROVE TypeOK'
  BY <1>3 DEF ChangeAvailability, requests, TypeOK
<1>4. ASSUME NEW o \in Orders, DispatchReads(o) PROVE TypeOK'
  BY <1>4 DEF DispatchReads, IsEligible, Courses, TypeOK
<1>5. ASSUME NEW p \in Courses,
             StaffChooses(p) \/ OfferCommits(p) \/ OfferRefused(p) \/ Expire(p) \/ Decline(p)
      PROVE  TypeOK'
  BY <1>5 DEF StaffChooses, OfferCommits, OfferRefused, Expire, Decline, OutcomeOfSilence,
       requests, TypeOK, DeliveryStatus
<1>6. ASSUME NEW p \in Courses,
             AcceptAsks(p) \/ AcceptLocks(p) \/ AcceptCommits(p) \/ AcceptAborts(p)
      PROVE  TypeOK'
  BY <1>6 DEF AcceptAsks, AcceptLocks, AcceptCommits, AcceptAborts, TypeOK, DeliveryStatus
<1>7. ASSUME NEW p \in Courses, NEW target \in DeliveryStatus, Advance(p, target)
      PROVE  TypeOK'
  <2>1. order' \in [Orders -> OrderStatus]
    BY <1>7 DEF Advance, TypeOK, OrderStatus, ORDER_STATUS_PROJECTION
  <2>2. credits' \in [Courses -> Nat]
    BY <1>7 DEF Advance, TypeOK
  <2> QED
    BY <1>7, <2>1, <2>2 DEF Advance, requests, TypeOK
<1>8. CASE UNCHANGED vars
  BY <1>8 DEF vars, TypeOK
<1> QED
  BY <1>1, <1>2, <1>3, <1>4, <1>5, <1>6, <1>7, <1>8 DEF Next

(* Every reachable state of the handlers is well typed.                    *)
THEOREM TypeCorrect == Spec => []TypeOK
<1> QED
  BY InitTypeOK, StepTypeOK, PTL DEF Spec

-----------------------------------------------------------------------------
(* The inductive invariant.                                                *)

LEMMA InitIndInv == Init => IndInv
BY CourseType DEF Init, IndInv, OneActivePerOrder, OneEngagedPerCourier,
     CancelledOrderIsDropped, MealFollowsCourse, CreditedOnce, LockedIsFresh,
     CreditedIsOver, IsActive, IsEngaged, ENGAGED_STATUSES

(* A request that only reads, or that is refused, disturbs nothing.        *)
LEMMA QuietStep ==
  ASSUME IndInv, UNCHANGED <<order, course, credits>>,
         \A p \in Courses : answering'[p] = "locked" => answering[p] = "locked"
  PROVE  IndInv'
BY DEF IndInv, OneActivePerOrder, OneEngagedPerCourier, CancelledOrderIsDropped,
     MealFollowsCourse, CreditedOnce, LockedIsFresh, CreditedIsOver, IsActive,
     IsEngaged, CoursesOf

(* A course declined, by its courier or for want of an answer, disturbs    *)
(* nothing: an acceptance in flight may still overwrite the refusal.       *)
LEMMA ClosingStep ==
  ASSUME TypeOK, IndInv, NEW p \in Courses, UNCHANGED <<order, credits, answering>>,
         course' = [course EXCEPT ![p] = "declined"]
  PROVE  IndInv'
BY DEF TypeOK, IndInv, OneActivePerOrder, OneEngagedPerCourier, CancelledOrderIsDropped,
     MealFollowsCourse, CreditedOnce, LockedIsFresh, CreditedIsOver, IsActive,
     IsEngaged, CoursesOf, ENGAGED_STATUSES

LEMMA MoveOrderStep ==
  ASSUME TypeOK, IndInv, NEW o \in Orders, MoveOrder(o)
  PROVE  IndInv'
<1> USE CourseType DEF TypeOK
<1>1. PICK s \in OrderNext[order[o]] \ {"cancelled"} : order' = [order EXCEPT ![o] = s]
  BY DEF MoveOrder
<1>2. /\ order[o] \notin {"delivered", "cancelled"}
      /\ order[o] = "picked_up" => s = "on_the_way"
      /\ order[o] = "on_the_way" => s = "delivered"
  BY <1>1, OrderSteps DEF OrderCan
<1>3. UNCHANGED <<course, credits, answering>>
  BY DEF MoveOrder, requests
<1>4. OneActivePerOrder' /\ OneEngagedPerCourier' /\ CreditedIsOver'
  BY <1>3 DEF IndInv, OneActivePerOrder, OneEngagedPerCourier, CreditedIsOver, IsActive,
       IsEngaged, CoursesOf
<1>5. CancelledOrderIsDropped'
  BY <1>1, <1>3 DEF IndInv, CancelledOrderIsDropped
<1>6. MealFollowsCourse'
  BY <1>1, <1>2, <1>3 DEF IndInv, MealFollowsCourse
<1>7. CreditedOnce'
  BY <1>1, <1>2, <1>3 DEF IndInv, CreditedOnce
<1>8. LockedIsFresh'
  BY <1>1, <1>3 DEF IndInv, LockedIsFresh, IsActive, CoursesOf
<1> QED
  BY <1>4, <1>5, <1>6, <1>7, <1>8 DEF IndInv

(* The courses of an order that may still be cancelled are offered,        *)
(* accepted or over: all of them are closed with it.                       *)
LEMMA CancelOrderStep ==
  ASSUME TypeOK, IndInv, NEW o \in Orders, CancelOrder(o)
  PROVE  IndInv'
<1> USE CourseType DEF TypeOK
<1>1. /\ order' = [order EXCEPT ![o] = "cancelled"]
      /\ UNCHANGED <<credits, answering>>
      /\ OrderUnlocked(o)
  BY DEF CancelOrder, requests
<1>2. order[o] \in {"pending", "confirmed", "preparing", "ready"}
  BY OrderSteps DEF CancelOrder
<1>3. \A p \in Courses :
        /\ OrderOf(p) # o => course'[p] = course[p]
        /\ OrderOf(p) = o /\ course[p] \in {"offered", "accepted"} => course'[p] = "cancelled"
        /\ course[p] \notin {"offered", "accepted"} => course'[p] = course[p]
  BY DEF CancelOrder, ClosedByCancellation
<1>4. \A p \in Courses : OrderOf(p) = o =>
        course[p] \in {"none", "offered", "accepted", "declined", "cancelled"}
  BY <1>2 DEF IndInv, MealFollowsCourse, DeliveryStatus
<1>5. \A p \in Courses : (IsActive(p)' => IsActive(p)) /\ (IsEngaged(p)' => IsEngaged(p))
  BY <1>3 DEF IsActive, IsEngaged, ENGAGED_STATUSES
<1>6. OneActivePerOrder' /\ OneEngagedPerCourier'
  BY <1>5 DEF IndInv, OneActivePerOrder, OneEngagedPerCourier
<1>7. CancelledOrderIsDropped'
  BY <1>1, <1>3, <1>4 DEF IndInv, CancelledOrderIsDropped
<1>8. MealFollowsCourse'
  BY <1>1, <1>3, <1>4 DEF IndInv, MealFollowsCourse
<1>9. CreditedOnce'
  BY <1>1, <1>2 DEF IndInv, CreditedOnce
<1>10. LockedIsFresh'
  BY <1>1, <1>3, <1>5 DEF IndInv, LockedIsFresh, OrderUnlocked, CoursesOf
<1>11. CreditedIsOver'
  BY <1>1, <1>5 DEF IndInv, CreditedIsOver, CoursesOf
<1> QED
  BY <1>6, <1>7, <1>8, <1>9, <1>10, <1>11 DEF IndInv

(* A new offer goes to an order that is ready, unlocked and without a      *)
(* course: it meets no acceptance in flight and no credit.                 *)
LEMMA OfferStep ==
  ASSUME TypeOK, IndInv, NEW p \in Courses, OfferCommits(p)
  PROVE  IndInv'
<1> USE CourseType DEF TypeOK
<1>1. /\ course' = [course EXCEPT ![p] = "offered"]
      /\ answering' = [answering EXCEPT ![p] = "no"]
      /\ UNCHANGED <<order, credits>>
      /\ order[OrderOf(p)] = "ready"
      /\ \A q \in Courses : OrderOf(q) = OrderOf(p) => ~IsActive(q) /\ answering[q] # "locked"
  BY DEF OfferCommits, Offerable, Waiting, HasActiveCourse, OrderUnlocked, CoursesOf
<1>2. \A q \in Courses : q # p => course'[q] = course[q] /\ answering'[q] = answering[q]
  BY <1>1
<1>3. course'[p] = "offered" /\ answering'[p] = "no"
  BY <1>1
<1>4. OneActivePerOrder'
  BY <1>1, <1>2 DEF IndInv, OneActivePerOrder, IsActive
<1>5. OneEngagedPerCourier'
  BY <1>2, <1>3 DEF IndInv, OneEngagedPerCourier, IsEngaged, ENGAGED_STATUSES
<1>6. CancelledOrderIsDropped' /\ MealFollowsCourse' /\ CreditedOnce'
  BY <1>1, <1>2, <1>3 DEF IndInv, CancelledOrderIsDropped, MealFollowsCourse, CreditedOnce
<1>7. LockedIsFresh'
  BY <1>1, <1>2, <1>3 DEF IndInv, LockedIsFresh, IsActive, CoursesOf
<1>8. CreditedIsOver'
  BY <1>1, <1>2, <1>3 DEF IndInv, CreditedIsOver, CreditedOnce, IsActive, CoursesOf
<1> QED
  BY <1>4, <1>5, <1>6, <1>7, <1>8 DEF IndInv

(* The course read again under the lock is the only open one of its order. *)
LEMMA AcceptLocksStep ==
  ASSUME TypeOK, IndInv, NEW p \in Courses, AcceptLocks(p)
  PROVE  IndInv'
<1> USE CourseType DEF TypeOK
<1>1. CASE ~Acceptable(p)
  BY <1>1, QuietStep DEF AcceptLocks
<1>2. CASE Acceptable(p)
  <2>1. /\ answering' = [answering EXCEPT ![p] = "locked"]
        /\ UNCHANGED <<order, course, credits>>
        /\ \A q \in Courses : OrderOf(q) = OrderOf(p) => answering[q] # "locked"
    BY <1>2 DEF AcceptLocks, OrderUnlocked, CoursesOf
  <2>2. course[p] = "offered" /\ order[OrderOf(p)] # "cancelled"
    BY <1>2, CourseSteps DEF Acceptable
  <2>3. \A q \in Courses : OrderOf(q) = OrderOf(p) /\ q # p => ~IsActive(q)
    BY <2>2 DEF IndInv, OneActivePerOrder, IsActive
  <2>4. /\ OneActivePerOrder' /\ OneEngagedPerCourier' /\ CancelledOrderIsDropped'
        /\ MealFollowsCourse' /\ CreditedOnce'
    BY <2>1 DEF IndInv, OneActivePerOrder, OneEngagedPerCourier, CancelledOrderIsDropped,
         MealFollowsCourse, CreditedOnce, IsActive, IsEngaged
  <2>5. LockedIsFresh'
    BY <2>1, <2>2, <2>3 DEF IndInv, LockedIsFresh, IsActive, CoursesOf
  <2>6. CreditedIsOver'
    BY <2>1, <2>2 DEF IndInv, CreditedIsOver, IsActive, CoursesOf
  <2> QED
    BY <2>4, <2>5, <2>6 DEF IndInv
<1> QED
  BY <1>1, <1>2

(* The write of an acceptance lands on an order it still holds, which has  *)
(* no other course; the constraint on couriers is checked by the write.    *)
LEMMA AcceptCommitsStep ==
  ASSUME TypeOK, IndInv, NEW p \in Courses, AcceptCommits(p)
  PROVE  IndInv'
<1> USE CourseType DEF TypeOK
<1>1. /\ course' = [course EXCEPT ![p] = "accepted"]
      /\ answering' = [answering EXCEPT ![p] = "no"]
      /\ UNCHANGED <<order, credits>>
      /\ answering[p] = "locked"
      /\ \A q \in Courses : CourierOf(q) = CourierOf(p) => ~IsEngaged(q)
  BY DEF AcceptCommits, CarriesCourse, CoursesWith
<1>2. /\ order[OrderOf(p)] # "cancelled"
      /\ \A q \in Courses : OrderOf(q) = OrderOf(p) /\ q # p =>
           ~IsActive(q) /\ answering[q] # "locked"
  BY <1>1 DEF IndInv, LockedIsFresh, CoursesOf
<1>3. \A q \in Courses : q # p => course'[q] = course[q] /\ answering'[q] = answering[q]
  BY <1>1
<1>4. course'[p] = "accepted" /\ answering'[p] = "no"
  BY <1>1
<1>5. OneActivePerOrder'
  BY <1>2, <1>3 DEF IndInv, OneActivePerOrder, IsActive
<1>6. OneEngagedPerCourier'
  BY <1>1, <1>3 DEF IndInv, OneEngagedPerCourier, IsEngaged
<1>7. CancelledOrderIsDropped' /\ MealFollowsCourse' /\ CreditedOnce'
  BY <1>1, <1>2, <1>3, <1>4 DEF IndInv, CancelledOrderIsDropped, MealFollowsCourse,
       CreditedOnce
<1>8. LockedIsFresh'
  BY <1>1, <1>2, <1>3, <1>4 DEF IndInv, LockedIsFresh, IsActive, CoursesOf
<1>9. CreditedIsOver'
  BY <1>1, <1>2, <1>3 DEF IndInv, CreditedIsOver, IsActive, CoursesOf
<1> QED
  BY <1>5, <1>6, <1>7, <1>8, <1>9 DEF IndInv

(* A step of the courier: the course was active, so its order has no       *)
(* credit and no other active course, and its meal moves with it.          *)
LEMMA AdvanceStep ==
  ASSUME TypeOK, IndInv, NEW p \in Courses, NEW target \in DeliveryStatus,
         Advance(p, target)
  PROVE  IndInv'
<1> USE CourseType DEF TypeOK
<1> DEFINE o == OrderOf(p)
<1>1. /\ course' = [course EXCEPT ![p] = target]
      /\ UNCHANGED answering
      /\ \A q \in Courses : OrderOf(q) = o => answering[q] # "locked"
      /\ DeliveryCan(course[p], target)
      /\ order[o] = "cancelled" => target = "cancelled"
      /\ target = "accepted" => \A q \in Courses : CourierOf(q) = CourierOf(p) => ~IsEngaged(q)
  BY DEF Advance, Advances, MayMove, OrderUnlocked, requests, CarriesCourse, CoursesOf,
     CoursesWith
<1>2. /\ IsActive(p)
      /\ target \in ENGAGED_STATUSES => target = "accepted" \/ IsEngaged(p)
      /\ target # "offered"
      /\ target = "delivered" => IsEngaged(p)
  BY <1>1, CourseSteps DEF IsActive, IsEngaged
<1>3. \A q \in Courses : q # p => course'[q] = course[q]
  BY <1>1
<1>4. course'[p] = target
  BY <1>1
<1>5. \A q \in Courses : OrderOf(q) = o => credits[q] = 0 /\ (q # p => ~IsActive(q))
  BY <1>2 DEF IndInv, OneActivePerOrder, CreditedIsOver, CoursesOf
<1>6. /\ \A x \in Orders : x # o => order'[x] = order[x]
      /\ target \notin ORDER_STATUS_PROJECTION => order'[o] = order[o]
      /\ target \in ORDER_STATUS_PROJECTION => order'[o] = target
  BY DEF Advance, Advances, OrderFollows
<1>7. order'[o] # order[o] =>
        /\ order'[o] # "cancelled"
        /\ order[o] \notin {"delivered", "cancelled"}
        /\ order[o] = "picked_up" => order'[o] = "on_the_way"
        /\ order[o] = "on_the_way" => order'[o] = "delivered"
  <2>1. order'[o] # order[o] =>
          target \in ORDER_STATUS_PROJECTION /\ OrderCan(order[o], target) /\ order'[o] = target
    BY DEF Advance
  <2> HIDE DEF o
  <2>2. order[o] \in OrderStatus
    BY DEF o
  <2>3. OrderCan(order[o], target) =>
          /\ order[o] \notin {"delivered", "cancelled"}
          /\ order[o] = "picked_up" => target = "on_the_way"
          /\ order[o] = "on_the_way" => target = "delivered"
    BY <2>2, OrderSteps
  <2> QED
    BY <2>1, <2>3 DEF ORDER_STATUS_PROJECTION
<1>8. credits' = [credits EXCEPT ![p] = IF target = "delivered" THEN 1 ELSE 0]
  <2>1. credits[p] = 0
    BY <1>5
  <2> QED
    BY <2>1 DEF Advance
<1> HIDE DEF o
<1>0. o = OrderOf(p) /\ o \in Orders
  BY DEF o
<1>9. OneActivePerOrder'
  BY <1>0, <1>3, <1>5 DEF IndInv, OneActivePerOrder, IsActive
<1>10. OneEngagedPerCourier'
  <2>1. CASE target = "accepted"
    BY <2>1, <1>1, <1>3 DEF IndInv, OneEngagedPerCourier, IsEngaged
  <2>2. CASE target # "accepted"
    BY <2>2, <1>2, <1>3, <1>4 DEF IndInv, OneEngagedPerCourier, IsEngaged
  <2> QED
    BY <2>1, <2>2
<1>11. CancelledOrderIsDropped'
  BY <1>0, <1>1, <1>3, <1>4, <1>6, <1>7 DEF IndInv, CancelledOrderIsDropped
<1>12. MealFollowsCourse'
  <2>1. ASSUME NEW q \in Courses, q # p
        PROVE  /\ course[q] = "picked_up" =>
                    order'[OrderOf(q)] \in {"picked_up", "on_the_way", "delivered"}
               /\ course[q] = "on_the_way" => order'[OrderOf(q)] \in {"on_the_way", "delivered"}
               /\ course[q] = "delivered" => order'[OrderOf(q)] = "delivered"
    BY <2>1, <1>6, <1>7 DEF IndInv, MealFollowsCourse
  <2> QED
    BY <2>1, <1>0, <1>3, <1>4, <1>6 DEF MealFollowsCourse, ORDER_STATUS_PROJECTION
<1>13. CreditedOnce'
  <2>1. target = "delivered" => order'[o] = "delivered"
    BY <1>6 DEF ORDER_STATUS_PROJECTION
  <2>2. \A q \in Courses : q # p => credits'[q] = credits[q]
    BY <1>8
  <2>3. credits'[p] = IF target = "delivered" THEN 1 ELSE 0
    BY <1>8
  <2>4. \A q \in Courses : credits[q] \in {0, 1} /\ (credits[q] = 1 => OrderOf(q) # o)
    BY <1>5 DEF IndInv, CreditedOnce
  <2> QED
    BY <2>1, <2>2, <2>3, <2>4, <1>0, <1>6 DEF IndInv, CreditedOnce
<1>14. LockedIsFresh'
  BY <1>0, <1>1, <1>3, <1>6 DEF IndInv, LockedIsFresh, IsActive, CoursesOf
<1>15. CreditedIsOver'
  <2>1. target = "delivered" => ~IsActive(p)'
    BY <1>4 DEF IsActive, ENGAGED_STATUSES
  <2>2. \A q \in Courses : q # p => credits'[q] = credits[q] /\ (IsActive(q)' <=> IsActive(q))
    BY <1>3, <1>8 DEF IsActive
  <2>3. credits'[p] # 0 => target = "delivered"
    BY <1>8
  <2> QED
    BY <2>1, <2>2, <2>3, <1>0, <1>1, <1>5 DEF IndInv, CreditedIsOver, CoursesOf
<1> QED
  BY <1>9, <1>10, <1>11, <1>12, <1>13, <1>14, <1>15 DEF IndInv

LEMMA StepIndInv == TypeOK /\ IndInv /\ [Next]_vars => IndInv'
<1> SUFFICES ASSUME TypeOK, IndInv, [Next]_vars PROVE IndInv'
  OBVIOUS
<1>1. ASSUME NEW o \in Orders, MoveOrder(o) \/ CancelOrder(o) PROVE IndInv'
  BY <1>1, MoveOrderStep, CancelOrderStep
<1>2. ASSUME NEW o \in Orders, DispatchReads(o) PROVE IndInv'
  BY <1>2, QuietStep DEF DispatchReads
<1>3. ASSUME NEW c \in Couriers, ChangeAvailability(c) PROVE IndInv'
  BY <1>3, QuietStep DEF ChangeAvailability, requests
<1>4. ASSUME NEW p \in Courses,
             \/ StaffChooses(p) \/ OfferRefused(p) \/ AcceptAsks(p) \/ AcceptAborts(p)
      PROVE  IndInv'
  <2>1. /\ UNCHANGED <<order, course, credits>>
        /\ \A q \in Courses : answering'[q] = "locked" => answering[q] = "locked"
    BY <1>4 DEF StaffChooses, OfferRefused, AcceptAsks, AcceptAborts, TypeOK
  <2> QED
    BY <2>1, QuietStep
<1>5. ASSUME NEW p \in Courses, Expire(p) \/ Decline(p) PROVE IndInv'
  BY <1>5, ClosingStep DEF Expire, Decline, OutcomeOfSilence, requests
<1>6. ASSUME NEW p \in Courses, OfferCommits(p) \/ AcceptLocks(p) \/ AcceptCommits(p)
      PROVE  IndInv'
  BY <1>6, OfferStep, AcceptLocksStep, AcceptCommitsStep
<1>7. ASSUME NEW p \in Courses, NEW target \in DeliveryStatus, Advance(p, target)
      PROVE  IndInv'
  BY <1>7, AdvanceStep
<1>8. CASE UNCHANGED vars
  BY <1>8, QuietStep DEF vars
<1> QED
  BY <1>1, <1>2, <1>3, <1>4, <1>5, <1>6, <1>7, <1>8 DEF Next

(* What the handlers rely on while they run holds in every state they      *)
(* reach, whatever interleaving of offers, answers and cancellations.      *)
THEOREM Inductive == Spec => []IndInv
<1> QED
  BY InitTypeOK, StepTypeOK, InitIndInv, StepIndInv, PTL DEF Spec

(* An order never has two open courses.                                    *)
THEOREM CoursesAreSingle == Spec => []OneActivePerOrder
<1>1. IndInv => OneActivePerOrder
  BY DEF IndInv
<1> QED
  BY <1>1, Inductive, PTL

(* A courier never carries two courses.                                    *)
THEOREM CouriersCarryOne == Spec => []OneEngagedPerCourier
<1>1. IndInv => OneEngagedPerCourier
  BY DEF IndInv
<1> QED
  BY <1>1, Inductive, PTL

(* A cancelled order leaves no course open.                                *)
THEOREM CancelledOrdersAreDropped == Spec => []CancelledOrderIsDropped
<1>1. IndInv => CancelledOrderIsDropped
  BY DEF IndInv
<1> QED
  BY <1>1, Inductive, PTL

(* A course is never ahead of its meal.                                    *)
THEOREM MealsFollowCourses == Spec => []MealFollowsCourse
<1>1. IndInv => MealFollowsCourse
  BY DEF IndInv
<1> QED
  BY <1>1, Inductive, PTL

(* A meal is credited once, to one courier, when it is delivered.          *)
THEOREM MealsAreCreditedOnce == Spec => []CreditedOnce
<1>1. IndInv => CreditedOnce
  BY DEF IndInv
<1> QED
  BY <1>1, Inductive, PTL

-----------------------------------------------------------------------------
(* How far the refuted sentences are from the truth: the one step that     *)
(* breaks the machine, and the one state a course is stuck in.             *)

LEMMA StepFollowsMachine ==
  ASSUME TypeOK, IndInv, [Next]_vars, \A p \in Courses : ~Decline(p),
         NEW p \in Courses, IsEngaged(p), course'[p] # course[p]
  PROVE  DeliveryCan(course[p], course'[p])
<1>1. ASSUME NEW o \in Orders, CancelOrder(o) PROVE DeliveryCan(course[p], course'[p])
  BY <1>1 DEF CancelOrder, ClosedByCancellation, IsEngaged, ENGAGED_STATUSES,
     DeliveryCan, DeliveryNext, DeliveryStatus
<1>2. ASSUME NEW q \in Courses, NEW target \in DeliveryStatus, Advance(q, target)
      PROVE  DeliveryCan(course[p], course'[p])
  BY <1>2 DEF Advance, Advances, MayMove, TypeOK
<1>3. ASSUME NEW q \in Courses, OfferCommits(q) PROVE FALSE
  BY <1>3 DEF OfferCommits, Offerable, Waiting, HasActiveCourse, CoursesOf, IsActive, IsEngaged,
     TypeOK
<1>4. ASSUME NEW q \in Courses, Expire(q) PROVE FALSE
  BY <1>4 DEF Expire, Expirable, IsEngaged, ENGAGED_STATUSES, TypeOK
<1>5. ASSUME NEW q \in Courses, AcceptCommits(q) PROVE FALSE
  <2>1. q = p /\ course[q] \in {"offered", "declined"}
    BY <1>5 DEF AcceptCommits, IndInv, LockedIsFresh, TypeOK
  <2> QED
    BY <2>1 DEF IsEngaged, ENGAGED_STATUSES
<1> QED
  BY <1>1, <1>2, <1>3, <1>4, <1>5 DEF Next, MoveOrder, DispatchReads, ChangeAvailability,
     StaffChooses, OfferRefused, AcceptAsks, AcceptLocks, AcceptAborts, vars

(* Whatever moves a course that is carried, but the late refusal of its    *)
(* courier, follows the machine of states.py (services.py transition_to,   *)
(* accept, close_for_cancelled_order): the refutation of                   *)
(* CourseFollowsItsMachine takes a decline.                                *)
THEOREM OnlyDeclinesBreakTheMachine ==
  Spec => [][\/ \E p \in Courses : Decline(p)
             \/ \A p \in Courses : IsEngaged(p) /\ course'[p] # course[p]
                                     => DeliveryCan(course[p], course'[p])]_vars
<1>1. TypeOK /\ IndInv /\ [Next]_vars
        => [\/ \E p \in Courses : Decline(p)
            \/ \A p \in Courses : IsEngaged(p) /\ course'[p] # course[p]
                                    => DeliveryCan(course[p], course'[p])]_vars
  BY StepFollowsMachine
<1> QED
  BY <1>1, TypeCorrect, Inductive, PTL DEF Spec

(* A course that is carried has a step its order allows, unless the meal   *)
(* is said to be delivered while the course has only picked it up          *)
(* (services.py _exiger_une_commande_qui_suit): that is the one way a      *)
(* course is stuck, and such a course is stuck: the refutation of          *)
(* EngagedCourseCanMove ends in no other state.                            *)
HandedOverByHand(p) == course[p] = "picked_up" /\ order[OrderOf(p)] = "delivered"

THEOREM OnlyHandedOverCoursesAreStuck ==
  Spec => [](\A p \in Courses : IsEngaged(p)
               => (HandedOverByHand(p) <=> ~ \E target \in DeliveryStatus : Advances(p, target)))
<1>1. TypeOK /\ IndInv
        => \A p \in Courses : IsEngaged(p)
             => (HandedOverByHand(p) <=> ~ \E target \in DeliveryStatus : Advances(p, target))
  <2>0. ASSUME NEW p \in Courses, HandedOverByHand(p), NEW target \in DeliveryStatus
        PROVE  ~Advances(p, target)
    BY <2>0 DEF HandedOverByHand, Advances, MayMove, OrderFollows, ORDER_STATUS_PROJECTION,
       DeliveryCan, DeliveryNext, DeliveryStatus, OrderCan, OrderNext, OrderStatus
  <2> SUFFICES ASSUME TypeOK, IndInv, NEW p \in Courses, IsEngaged(p), ~HandedOverByHand(p)
               PROVE  \E target \in DeliveryStatus : Advances(p, target)
    BY <2>0
  <2> USE DEF Advances, MayMove, OrderFollows, ORDER_STATUS_PROJECTION, DeliveryCan,
              DeliveryNext, DeliveryStatus
  <2>1. order[OrderOf(p)] # "cancelled"
    BY DEF IndInv, CancelledOrderIsDropped, IsEngaged, ENGAGED_STATUSES
  <2>2. CASE course[p] = "accepted"
    <3>1. Advances(p, "cancelled")
      BY <2>1, <2>2
    <3> QED
      BY <3>1
  <2>3. CASE course[p] = "picked_up"
    <3>1. order[OrderOf(p)] \in {"picked_up", "on_the_way"}
      BY <2>3 DEF IndInv, MealFollowsCourse, HandedOverByHand
    <3>2. Advances(p, "on_the_way")
      BY <2>1, <2>3, <3>1 DEF OrderCan, OrderNext, OrderStatus
    <3> QED
      BY <3>2
  <2>4. CASE course[p] = "on_the_way"
    <3>1. order[OrderOf(p)] \in {"on_the_way", "delivered"}
      BY <2>4 DEF IndInv, MealFollowsCourse
    <3>2. Advances(p, "delivered")
      BY <2>1, <2>4, <3>1 DEF OrderCan, OrderNext, OrderStatus
    <3> QED
      BY <3>2
  <2> QED
    BY <2>2, <2>3, <2>4 DEF IsEngaged, ENGAGED_STATUSES
<1> QED
  BY <1>1, TypeCorrect, Inductive, PTL

-----------------------------------------------------------------------------
(* Refinement: the courses under way and the credits behave as Carriage.   *)

Carried    == {p \in Courses : IsEngaged(p)}
HandedOver == {p \in Courses : credits[p] # 0}

LEMMA PromiseStutters ==
  ASSUME UNCHANGED credits, \A p \in Courses : IsEngaged(p)' <=> IsEngaged(p)
  PROVE  UNCHANGED <<Carried, HandedOver>>
BY DEF Carried, HandedOver

(* A course that stops being carried without being delivered.              *)
LEMMA PromiseLetsGo ==
  ASSUME NEW p \in Courses, IsEngaged(p), ~IsEngaged(p)', UNCHANGED credits,
         \A q \in Courses : q # p => (IsEngaged(q)' <=> IsEngaged(q))
  PROVE  p \in Carried /\ Carried' = Carried \ {p} /\ UNCHANGED HandedOver
BY DEF Carried, HandedOver

(* A course taken: its order has no other active course and no credit, its *)
(* courier carries nothing.                                                *)
LEMMA PromiseTakes ==
  ASSUME NEW p \in Courses, IsEngaged(p)', UNCHANGED credits,
         \A q \in Courses : q # p => (IsEngaged(q)' <=> IsEngaged(q)),
         \A q \in Courses : OrderOf(q) = OrderOf(p) \/ CourierOf(q) = CourierOf(p) =>
                             ~IsEngaged(q),
         \A q \in Courses : OrderOf(q) = OrderOf(p) => credits[q] = 0
  PROVE  Promise!Take(p)
<1>1. Carried' = Carried \cup {p} /\ UNCHANGED HandedOver
  BY DEF Carried, HandedOver
<1>2. \A q \in Carried : ~Promise!SameMeal(p, q) /\ ~Promise!SameCourier(p, q)
  BY DEF Carried, Promise!SameMeal, Promise!SameCourier, OrderOf, CourierOf
<1>3. \A q \in HandedOver : ~Promise!SameMeal(p, q)
  BY DEF HandedOver, Promise!SameMeal, OrderOf
<1> QED
  BY <1>1, <1>2, <1>3 DEF Promise!Take, Carried, HandedOver

LEMMA PromiseInit == Init => Promise!Init
BY DEF Init, Promise!Init, IsEngaged, ENGAGED_STATUSES

LEMMA PromiseStep ==
  TypeOK /\ IndInv /\ [Next]_vars => [Promise!Next]_(Promise!vars)
<1> SUFFICES ASSUME TypeOK, IndInv, [Next]_vars PROVE [Promise!Next]_(Promise!vars)
  OBVIOUS
<1> USE DEF TypeOK
<1>a. ASSUME UNCHANGED <<Carried, HandedOver>> PROVE UNCHANGED Promise!vars
  BY <1>a DEF Promise!vars, Carried, HandedOver
<1>b. ASSUME NEW p \in Courses, p \in Carried, Carried' = Carried \ {p}, UNCHANGED HandedOver
      PROVE  Promise!Next
  BY <1>b DEF Promise!Next, Promise!LetGo, Carried, HandedOver
<1>1. ASSUME UNCHANGED <<course, credits>> PROVE [Promise!Next]_(Promise!vars)
  BY <1>1, <1>a, PromiseStutters DEF IsEngaged
<1>2. ASSUME NEW o \in Orders,
             MoveOrder(o) \/ DispatchReads(o) \/ CancelOrder(o)
      PROVE  [Promise!Next]_(Promise!vars)
  <2>1. CASE MoveOrder(o) \/ DispatchReads(o)
    BY <2>1, <1>1 DEF MoveOrder, DispatchReads
  <2>2. CASE CancelOrder(o)
    <3>1. /\ UNCHANGED credits
          /\ \A p \in Courses : course'[p] # course[p] =>
               OrderOf(p) = o /\ IsActive(p) /\ course'[p] = "cancelled"
      BY <2>2 DEF CancelOrder, ClosedByCancellation, IsActive, ENGAGED_STATUSES
    <3>2. CASE \E p \in Courses : IsEngaged(p) /\ course'[p] # course[p]
      <4>1. PICK p \in Courses : IsEngaged(p) /\ course'[p] # course[p]
        BY <3>2
      <4>2. \A q \in Courses : q # p => course'[q] = course[q]
        BY <3>1, <4>1 DEF IndInv, OneActivePerOrder, IsActive, IsEngaged
      <4>3. ~IsEngaged(p)'
        BY <3>1, <4>1 DEF IsEngaged, ENGAGED_STATUSES
      <4>4. \A q \in Courses : q # p => (IsEngaged(q)' <=> IsEngaged(q))
        BY <4>2 DEF IsEngaged
      <4> QED
        BY <3>1, <4>1, <4>3, <4>4, <1>b, PromiseLetsGo
    <3>3. CASE \A p \in Courses : IsEngaged(p) => course'[p] = course[p]
      <4>1. \A p \in Courses : IsEngaged(p)' <=> IsEngaged(p)
        BY <3>1, <3>3 DEF IsEngaged, ENGAGED_STATUSES
      <4> QED
        BY <3>1, <4>1, <1>a, PromiseStutters
    <3> QED
      BY <3>2, <3>3
  <2> QED
    BY <1>2, <2>1, <2>2
<1>3. ASSUME NEW p \in Courses,
             \/ StaffChooses(p) \/ OfferRefused(p)
             \/ AcceptAsks(p) \/ AcceptLocks(p) \/ AcceptAborts(p)
      PROVE  [Promise!Next]_(Promise!vars)
  BY <1>3, <1>1 DEF StaffChooses, OfferRefused, AcceptAsks, AcceptLocks, AcceptAborts
<1>4. ASSUME NEW p \in Courses, OfferCommits(p) PROVE [Promise!Next]_(Promise!vars)
  <2>1. UNCHANGED credits /\ course' = [course EXCEPT ![p] = "offered"] /\ ~IsActive(p)
    BY <1>4 DEF OfferCommits, Offerable, Waiting, HasActiveCourse, CoursesOf
  <2>2. \A q \in Courses : IsEngaged(q)' <=> IsEngaged(q)
    BY <2>1 DEF IsEngaged, IsActive, ENGAGED_STATUSES
  <2> QED
    BY <2>1, <2>2, <1>a, PromiseStutters
<1>5. ASSUME NEW p \in Courses, Expire(p) \/ Decline(p)
      PROVE  [Promise!Next]_(Promise!vars)
  <2>1. UNCHANGED credits /\ course' = [course EXCEPT ![p] = "declined"]
    BY <1>5 DEF Expire, Decline, OutcomeOfSilence
  <2>2. ~IsEngaged(p)'
    BY <2>1 DEF IsEngaged, ENGAGED_STATUSES
  <2>3. \A q \in Courses : q # p => (IsEngaged(q)' <=> IsEngaged(q))
    BY <2>1 DEF IsEngaged
  <2>4. CASE IsEngaged(p)
    BY <2>1, <2>2, <2>3, <2>4, <1>b, PromiseLetsGo
  <2>5. CASE ~IsEngaged(p)
    BY <2>1, <2>2, <2>3, <2>5, <1>a, PromiseStutters
  <2> QED
    BY <2>4, <2>5
<1>6. ASSUME NEW p \in Courses, AcceptCommits(p) PROVE [Promise!Next]_(Promise!vars)
  <2>1. /\ UNCHANGED credits
        /\ course' = [course EXCEPT ![p] = "accepted"]
        /\ answering[p] = "locked"
        /\ \A q \in Courses : CourierOf(q) = CourierOf(p) => ~IsEngaged(q)
    BY <1>6 DEF AcceptCommits, CarriesCourse, CoursesWith
  <2>2. \A q \in Courses : OrderOf(q) = OrderOf(p) => ~IsEngaged(q)
    <3>1. ~IsEngaged(p)
      BY <2>1
    <3>2. \A q \in Courses : OrderOf(q) = OrderOf(p) /\ q # p => ~IsActive(q)
      BY <2>1 DEF IndInv, LockedIsFresh, CoursesOf
    <3> QED
      BY <3>1, <3>2 DEF IsActive, IsEngaged
  <2>3. \A q \in Courses : OrderOf(q) = OrderOf(p) => credits[q] = 0
    BY <2>1 DEF IndInv, CreditedIsOver, CoursesOf
  <2>4. IsEngaged(p)' /\ \A q \in Courses : q # p => (IsEngaged(q)' <=> IsEngaged(q))
    BY <2>1 DEF IsEngaged, ENGAGED_STATUSES
  <2>5. Promise!Take(p)
    BY <2>1, <2>2, <2>3, <2>4, PromiseTakes
  <2> QED
    BY <2>5 DEF Promise!Next
<1>7. ASSUME NEW p \in Courses, NEW target \in DeliveryStatus, Advance(p, target)
      PROVE  [Promise!Next]_(Promise!vars)
  <2>1. /\ course' = [course EXCEPT ![p] = target]
        /\ DeliveryCan(course[p], target)
        /\ credits' = [credits EXCEPT ![p] = IF target = "delivered" THEN @ + 1 ELSE @]
        /\ target = "accepted" =>
             \A q \in Courses : CourierOf(q) = CourierOf(p) => ~IsEngaged(q)
    BY <1>7 DEF Advance, Advances, MayMove, CarriesCourse, CoursesWith
  <2>2. /\ IsActive(p)
        /\ target \in ENGAGED_STATUSES => target = "accepted" \/ IsEngaged(p)
        /\ target = "accepted" => ~IsEngaged(p)
        /\ target = "delivered" => IsEngaged(p)
    BY <2>1, CourseSteps DEF IsActive, IsEngaged, ENGAGED_STATUSES
  <2>3. \A q \in Courses : q # p => (IsEngaged(q)' <=> IsEngaged(q)) /\ credits'[q] = credits[q]
    BY <2>1 DEF IsEngaged
  <2>4. IsEngaged(p)' <=> target \in ENGAGED_STATUSES
    BY <2>1 DEF IsEngaged
  <2>5. \A q \in Courses : OrderOf(q) = OrderOf(p) => credits[q] = 0 /\ (q # p => ~IsActive(q))
    BY <2>2 DEF IndInv, OneActivePerOrder, CreditedIsOver, CoursesOf
  <2>6. CASE target = "accepted"
    <3>1. \A q \in Courses :
            OrderOf(q) = OrderOf(p) \/ CourierOf(q) = CourierOf(p) => ~IsEngaged(q)
      BY <2>6, <2>1, <2>2, <2>5 DEF IsActive, IsEngaged
    <3>2. UNCHANGED credits /\ IsEngaged(p)'
      BY <2>6, <2>1, <2>4 DEF ENGAGED_STATUSES
    <3>3. Promise!Take(p)
      BY <3>1, <3>2, <2>3, <2>5, PromiseTakes
    <3> QED
      BY <3>3 DEF Promise!Next
  <2>7. CASE target = "delivered"
    <3>1. credits'[p] # 0
      BY <2>7, <2>1, <2>5
    <3>2. /\ p \in Carried /\ Carried' = Carried \ {p}
          /\ HandedOver' = HandedOver \cup {p}
      BY <2>7, <2>2, <2>3, <2>4, <3>1 DEF Carried, HandedOver, ENGAGED_STATUSES
    <3>3. Promise!HandOver(p)
      BY <3>2 DEF Promise!HandOver, Carried, HandedOver
    <3> QED
      BY <3>3 DEF Promise!Next
  <2>8. CASE target \notin {"accepted", "delivered"}
    <3>1. UNCHANGED credits
      BY <2>8, <2>1
    <3>2. IsEngaged(p)' => IsEngaged(p)
      BY <2>8, <2>2, <2>4
    <3>3. CASE IsEngaged(p) /\ ~IsEngaged(p)'
      BY <3>1, <3>3, <2>3, <1>b, PromiseLetsGo
    <3>4. CASE IsEngaged(p)' <=> IsEngaged(p)
      <4>1. \A q \in Courses : IsEngaged(q)' <=> IsEngaged(q)
        BY <3>4, <2>3
      <4> QED
        BY <3>1, <4>1, <1>a, PromiseStutters
    <3> QED
      BY <3>2, <3>3, <3>4
  <2> QED
    BY <2>6, <2>7, <2>8
<1>8. ASSUME NEW c \in Couriers, ChangeAvailability(c)
      PROVE  [Promise!Next]_(Promise!vars)
  BY <1>8, <1>1 DEF ChangeAvailability
<1>9. CASE UNCHANGED vars
  BY <1>9, <1>1 DEF vars
<1> QED
  BY <1>2, <1>3, <1>4, <1>5, <1>6, <1>7, <1>8, <1>9 DEF Next

(* The handlers implement the exclusive carriage of meals.                 *)
THEOREM Implements == Spec => CarriageSpec
<1> QED
  BY InitTypeOK, StepTypeOK, InitIndInv, StepIndInv, PromiseInit, PromiseStep, PTL
     DEF Spec, CarriageSpec, Promise!Spec
=============================================================================
