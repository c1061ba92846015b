------------------------------ MODULE Delivery ------------------------------
(***************************************************************************)
(* The assignment of couriers to ready meals: dispatch and staff offer a   *)
(* course, couriers accept, decline and carry it, staff cancel courses and *)
(* move orders by hand, and a beat closes the offers nobody answers.       *)
(*                                                                         *)
(* offer, accept and expire serialise on the row of the order.  What a     *)
(* request has read before it takes that lock, and what it writes without  *)
(* taking it, is where the handlers are cut.                               *)
(***************************************************************************)
EXTENDS FiniteSets, Naturals, Machines

CONSTANTS Orders, Couriers,
          Compatible,  \* the couriers of the kitchen and of the zone of an order
          MaxTries     \* _ESSAIS_MAX, the couriers one dispatch tries

ASSUME DeliveryAssumption ==
  /\ Compatible \subseteq Orders \X Couriers
  /\ MaxTries \in Nat \ {0}

VARIABLES
  order,      \* Order.status
  course,     \* status of the last Assignment of an order to a courier, or "none"
  available,  \* CourierProfile.can_accept_orders
  candidates, \* pairs read as eligible, whose offer has not been attempted
  answering,  \* accept requests: "no", "asked" (profile read), "locked"
  credits     \* deliveries_completed, by the course that earned them

vars == <<order, course, available, candidates, answering, credits>>
requests == <<candidates, answering>>

Courses == Compatible
OrderOf(p)   == p[1]
CourierOf(p) == p[2]
CoursesOf(o)   == {p \in Courses : OrderOf(p) = o}
CoursesWith(c) == {p \in Courses : CourierOf(p) = c}

ENGAGED_STATUSES  == {"accepted", "picked_up", "on_the_way"}

IsActive(p)  == course[p] \in {"offered"} \cup ENGAGED_STATUSES
IsEngaged(p) == course[p] \in ENGAGED_STATUSES

(* _active_for, and one_active_assignment_per_order behind it.             *)
HasOfferedCourse(o) == \E p \in CoursesOf(o) : course[p] = "offered"  \* mutant
HasActiveCourse(o)  == \E p \in CoursesOf(o) : IsActive(p)

(* _engaged_for, and one_engaged_assignment_per_courier behind it.         *)
IsDriving(c)     == \E p \in CoursesWith(c) : course[p] = "on_the_way" \* mutant
CarriesCourse(c) == \E p \in CoursesWith(c) : IsEngaged(p)

(* The row lock of accept, the one handler cut while it holds it.          *)
OrderUnlocked(o) == \A p \in CoursesOf(o) : answering[p] # "locked"

(* Nothing here reads an order before the kitchen has started on it.       *)
Init ==
  /\ order = [o \in Orders |-> "preparing"]
  /\ course = [p \in Courses |-> "none"]
  /\ available = [c \in Couriers |-> FALSE]
  /\ candidates = {}
  /\ answering = [p \in Courses |-> "no"]
  /\ credits = [p \in Courses |-> 0]

-----------------------------------------------------------------------------
(* The kitchen and the couriers' profiles.                                 *)

(* The kitchen, or staff by hand: any legal step but the cancellation.     *)
MoveOrder(o) ==
  /\ OrderUnlocked(o)
  /\ \E s \in OrderNext[order[o]] \ {"cancelled"} :
       order' = [order EXCEPT ![o] = s]
  /\ UNCHANGED <<course, available, requests, credits>>

(* OrderService.transition_to and, in its transaction, on_order_cancelled. *)
ClosedOnlyOffers == {"offered"}                  \* mutant: accepted courses left open
ClosedByCancellation == {"offered", "accepted"}
CancelOrder(o) ==
  /\ OrderUnlocked(o)
  /\ OrderCan(order[o], "cancelled")
  /\ order' = [order EXCEPT ![o] = "cancelled"]
  /\ course' = [p \in Courses |->
                  IF OrderOf(p) = o /\ course[p] \in ClosedByCancellation
                    THEN "cancelled" ELSE course[p]]
  /\ UNCHANGED <<available, requests, credits>>

(* can_accept_orders flips with set_online, review and replace_documents,  *)
(* none of which takes a lock that the courses take.                       *)
ChangeAvailability(c) ==
  /\ available' = [available EXCEPT ![c] = ~@]
  /\ UNCHANGED <<order, course, requests, credits>>

-----------------------------------------------------------------------------
(* Offers.                                                                 *)

IsEligible(o, c) == <<o, c>> \in Compatible /\ available[c] /\ ~CarriesCourse(c)

WaitingNeverOffered(o) ==                        \* mutant: refused orders forgotten
  order[o] = "ready" /\ \A p \in CoursesOf(o) : course[p] = "none"
Waiting(o) == order[o] = "ready" /\ ~HasActiveCourse(o)

(* DispatchService.dispatch, called by the beat and by receivers: the      *)
(* order of preference among candidates is abstracted, their number is not.*)
DispatchReads(o) ==
  /\ Waiting(o)
  /\ \E S \in SUBSET {c \in Couriers : IsEligible(o, c)} :
       /\ S # {}
       /\ \/ Cardinality(S) = MaxTries
          \/ Cardinality(S) < MaxTries /\ S = {c \in Couriers : IsEligible(o, c)}
       /\ candidates' = candidates \cup {<<o, c>> : c \in S}
  /\ UNCHANGED <<order, course, available, answering, credits>>

(* OfferAssignmentView: the serializer reads the courier staff have chosen.*)
(* Chosen for a meal already gone, the offer could only be refused.        *)
StaffChooses(p) ==
  /\ order[OrderOf(p)] \in {"preparing", "ready"}
  /\ available[CourierOf(p)]
  /\ p \notin candidates
  /\ candidates' = candidates \cup {p}
  /\ UNCHANGED <<order, course, available, answering, credits>>

(* AssignmentService.offer on the courier read before: a new row, which no *)
(* request in flight knows.                                                *)
Offerable(p) == Waiting(OrderOf(p)) /\ ~CarriesCourse(CourierOf(p))
OfferCommits(p) ==
  /\ p \in candidates
  /\ OrderUnlocked(OrderOf(p))
  /\ Offerable(p)
  /\ course' = [course EXCEPT ![p] = "offered"]
  /\ candidates' = candidates \ {p}
  /\ answering' = [answering EXCEPT ![p] = "no"]
  /\ UNCHANGED <<order, available, credits>>

OfferRefused(p) ==
  /\ p \in candidates
  /\ OrderUnlocked(OrderOf(p))
  /\ ~Offerable(p)
  /\ candidates' = candidates \ {p}
  /\ UNCHANGED <<order, course, available, answering, credits>>

(* DispatchService.expire: the time to live of an offer is abstracted.     *)
ExpirableWhenAway(p) ==                          \* mutant: a silent courier keeps it
  course[p] = "offered" /\ ~available[CourierOf(p)]
Expirable(p) == course[p] = "offered"
UnlistedOutcome == "expired"                     \* mutant: a status of its own
OutcomeOfSilence == "declined"
Expire(p) ==
  /\ OrderUnlocked(OrderOf(p))
  /\ Expirable(p)
  /\ course' = [course EXCEPT ![p] = OutcomeOfSilence]
  /\ UNCHANGED <<order, available, requests, credits>>

-----------------------------------------------------------------------------
(* Answers.                                                                *)

(* AssignmentViewSet.accept reads the courier's profile; accept locks the  *)
(* order, reads the course again, and writes it without having locked it.  *)
AcceptAsks(p) ==
  /\ course[p] = "offered"
  /\ available[CourierOf(p)]
  /\ answering[p] = "no"
  /\ answering' = [answering EXCEPT ![p] = "asked"]
  /\ UNCHANGED <<order, course, available, candidates, credits>>

AcceptableAsRead(p) ==                           \* mutant: the course is not read again
  order[OrderOf(p)] # "cancelled" /\ ~CarriesCourse(CourierOf(p))
Acceptable(p) ==
  /\ order[OrderOf(p)] # "cancelled"
  /\ ~CarriesCourse(CourierOf(p))
  /\ DeliveryCan(course[p], "accepted")

AcceptLocks(p) ==
  /\ answering[p] = "asked"
  /\ OrderUnlocked(OrderOf(p))
  /\ answering' = [answering EXCEPT ![p] = IF Acceptable(p) THEN "locked" ELSE "no"]
  /\ UNCHANGED <<order, course, available, candidates, credits>>

AcceptCommits(p) ==
  /\ answering[p] = "locked"
  /\ ~CarriesCourse(CourierOf(p))
  /\ course' = [course EXCEPT ![p] = "accepted"]
  /\ answering' = [answering EXCEPT ![p] = "no"]
  /\ UNCHANGED <<order, available, candidates, credits>>

(* The unique constraint refuses the write, or the worker dies.            *)
AcceptAborts(p) ==
  /\ answering[p] = "locked"
  /\ answering' = [answering EXCEPT ![p] = "no"]
  /\ UNCHANGED <<order, course, available, candidates, credits>>

(* AssignmentService.decline judges the row its view has read, and writes  *)
(* without a lock.  Every row is offered when it is created: the request   *)
(* that has read it then may write at any later time.                      *)
Decline(p) ==
  /\ course[p] \notin {"none", "declined"}
  /\ course' = [course EXCEPT ![p] = "declined"]
  /\ UNCHANGED <<order, available, requests, credits>>

-----------------------------------------------------------------------------
(* Progress.                                                               *)

(* ORDER_STATUS_PROJECTION: the steps of the course that move the order.   *)
ProjectedOnceOnTheWay == {"on_the_way", "delivered"}  \* mutant: the pick-up is not told
ORDER_STATUS_PROJECTION == {"picked_up", "on_the_way", "delivered"}

(* is_noop stops a replay, validate an illegal step.                       *)
MayRepeat(p, target) ==                          \* mutant: C3, a replay is applied
  course[p] = target \/ DeliveryCan(course[p], target)
MayMove(p, target) == DeliveryCan(course[p], target)

(* _exiger_une_commande_qui_suit                                           *)
OrderFollows(p, target) ==
  target \in ORDER_STATUS_PROJECTION =>
    order[OrderOf(p)] = target \/ OrderCan(order[OrderOf(p)], target)

(* AssignmentService.transition_to locks the course, its order and its     *)
(* courier.  Couriers may ask for any target, staff for a cancellation.    *)
Advances(p, target) ==
  /\ course[p] # "none"
  /\ MayMove(p, target)
  /\ order[OrderOf(p)] = "cancelled" => target = "cancelled"
  /\ OrderFollows(p, target)
  /\ target = "accepted" => ~CarriesCourse(CourierOf(p))

Advance(p, target) ==
  /\ OrderUnlocked(OrderOf(p))
  /\ Advances(p, target)
  /\ course' = [course EXCEPT ![p] = target]
  /\ order' = [order EXCEPT ![OrderOf(p)] =
                 IF target \in ORDER_STATUS_PROJECTION /\ OrderCan(@, target)
                   THEN target ELSE @]
  /\ credits' = [credits EXCEPT ![p] = IF target = "delivered" THEN @ + 1 ELSE @]
  /\ UNCHANGED <<available, requests>>

-----------------------------------------------------------------------------
Next ==
  \/ \E o \in Orders : MoveOrder(o) \/ CancelOrder(o) \/ DispatchReads(o)
  \/ \E c \in Couriers : ChangeAvailability(c)
  \/ \E p \in Courses :
       \/ StaffChooses(p)
       \/ OfferCommits(p)
       \/ OfferRefused(p)
       \/ Expire(p)
       \/ AcceptAsks(p)
       \/ AcceptLocks(p)
       \/ AcceptCommits(p)
       \/ AcceptAborts(p)
       \/ Decline(p)
       \/ \E target \in DeliveryStatus : Advance(p, target)

Spec == Init /\ [][Next]_vars

(* The beat dispatches the waiting orders and closes stale offers every    *)
(* minute; a statement waiting for a row lock is queued by the database    *)
(* and gets it in its turn; a handler that holds the lock ends or dies.    *)
(* Nothing is assumed of the couriers, of staff or of the kitchen.         *)
Fairness ==
  /\ \A o \in Orders : WF_vars(DispatchReads(o))
  /\ \A p \in Courses :
       /\ SF_vars(OfferCommits(p) \/ OfferRefused(p))
       /\ SF_vars(Expire(p))
       /\ WF_vars(AcceptCommits(p) \/ AcceptAborts(p))

FairSpec == Spec /\ Fairness

-----------------------------------------------------------------------------
TypeOK ==
  /\ order \in [Orders -> OrderStatus]
  /\ course \in [Courses -> DeliveryStatus \cup {"none"}]
  /\ available \in [Couriers -> BOOLEAN]
  /\ candidates \subseteq Courses
  /\ answering \in [Courses -> {"no", "asked", "locked"}]
  /\ credits \in [Courses -> Nat]

(* L2: an order has at most one course that is not over, whatever offers,  *)
(* acceptances, refusals and expiries are in flight (models.py             *)
(* one_active_assignment_per_order, services.py offer and accept).         *)
OneActivePerOrder ==
  \A p, q \in Courses :
    OrderOf(p) = OrderOf(q) /\ IsActive(p) /\ IsActive(q) => p = q

(* L6: a courier carries at most one course, even when two acceptances of  *)
(* different orders run at once, neither of which locks the courier        *)
(* (models.py one_engaged_assignment_per_courier, services.py accept).     *)
OneEngagedPerCourier ==
  \A p, q \in Courses :
    CourierOf(p) = CourierOf(q) /\ IsEngaged(p) /\ IsEngaged(q) => p = q

(* A cancelled order leaves no course open, not even one whose acceptance  *)
(* was in flight (services.py close_for_cancelled_order): no courier waits *)
(* for a meal that will not leave.                                         *)
CancelledOrderIsDropped ==
  \A p \in Courses :
    order[OrderOf(p)] = "cancelled" =>
      course[p] \in {"none", "declined", "cancelled"}

(* A course is never ahead of its meal: what the courier has done shows on *)
(* the order, although staff also move it by hand and offers may be as old *)
(* as the request that makes them (services.py offer and _project).        *)
MealFollowsCourse ==
  \A p \in Courses :
    /\ course[p] = "picked_up" =>
         order[OrderOf(p)] \in {"picked_up", "on_the_way", "delivered"}
    /\ course[p] = "on_the_way" => order[OrderOf(p)] \in {"on_the_way", "delivered"}
    /\ course[p] = "delivered" => order[OrderOf(p)] = "delivered"

(* L4: a meal is credited at most once, to one courier, and only when it   *)
(* is delivered, whatever reassignments and replays came before            *)
(* (services.py _credit, which counts on the graph of states alone).       *)
CreditedOnce ==
  \A p, q \in Courses :
    /\ credits[p] \in {0, 1}
    /\ credits[p] = 1 => order[OrderOf(p)] = "delivered"
    /\ credits[p] = 1 /\ credits[q] = 1 /\ OrderOf(p) = OrderOf(q) => p = q

(* An acceptance that holds the order works on a course that was offered:  *)
(* nothing but the courier's own refusal reached it since, and the order   *)
(* has no other course.                                                    *)
LockedIsFresh ==
  \A p \in Courses : answering[p] = "locked" =>
    /\ course[p] \in {"offered", "declined"}
    /\ order[OrderOf(p)] # "cancelled"
    /\ \A q \in CoursesOf(OrderOf(p)) \ {p} : ~IsActive(q) /\ answering[q] # "locked"

(* A meal that was credited has no course left to carry.                   *)
CreditedIsOver ==
  \A p \in Courses : credits[p] # 0 =>
    \A q \in CoursesOf(OrderOf(p)) : ~IsActive(q) /\ answering[q] # "locked"

IndInv ==
  /\ OneActivePerOrder
  /\ OneEngagedPerCourier
  /\ CancelledOrderIsDropped
  /\ MealFollowsCourse
  /\ CreditedOnce
  /\ LockedIsFresh
  /\ CreditedIsOver

(* An offer does not stay unanswered: the beat closes it (dispatch.py      *)
(* expire_stale_offers), although an acceptance may hold the order.        *)
OfferIsAnswered ==
  \A p \in Courses : course[p] = "offered" ~> course[p] # "offered"

(* A ready meal without a course does not wait for ever while a courier    *)
(* who could carry it stays available (dispatch.py dispatch_waiting: "ne   *)
(* doit pas attendre qu'un superviseur la remarque").                      *)
ReadyMealFindsCourier ==
  \A p \in Courses :
    []<>~(/\ order[OrderOf(p)] = "ready" /\ ~HasActiveCourse(OrderOf(p))
          /\ available[CourierOf(p)] /\ ~CarriesCourse(CourierOf(p)))

(* The handlers, with their requests in flight and their late refusals,    *)
(* implement the exclusive carriage of meals.                              *)
Promise == INSTANCE Carriage
             WITH carried <- {p \in Courses : IsEngaged(p)},
                  handedOver <- {p \in Courses : credits[p] # 0}
CarriageSpec == Promise!Spec

-----------------------------------------------------------------------------
(* What the documentation of the code says, and its races break.           *)

(* states.py: a course is monotone and acyclic; only an offered course is  *)
(* declined.                                                               *)
CourseFollowsItsMachine ==
  [][\A p \in Courses :
       IsEngaged(p) /\ course'[p] # course[p] => DeliveryCan(course[p], course'[p])]_vars

(* services.py _exiger_une_commande_qui_suit: a replay must not block a    *)
(* course whose order was moved by hand.  An engaged course has a step     *)
(* that its order allows.                                                  *)
EngagedCourseCanMove ==
  \A p \in Courses : IsEngaged(p) =>
    \E target \in DeliveryStatus : Advances(p, target)
=============================================================================
