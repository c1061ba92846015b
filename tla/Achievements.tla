---------------------------- MODULE Achievements ----------------------------
(***************************************************************************)
(* One achievement of one customer, evaluated again in the transaction of  *)
(* each delivery.  Two deliveries may be under way at once and neither     *)
(* sees what the other has not committed; but loyalty hears of a delivery  *)
(* before gamification does, and an order worth points locks the account   *)
(* of the customer until the end.                                          *)
(***************************************************************************)
EXTENDS Naturals, FiniteSets

CONSTANTS
  Meals,            \* orders of the customer
  WorthPoints,      \* those whose total reaches a point
  ConditionValue    \* Achievement.condition_value, on ORDERS_COUNT

ASSUME AchievementsAssumption ==
  /\ WorthPoints \subseteq Meals /\ IsFiniteSet(Meals)
  /\ ConditionValue \in Nat \ {0}

Nobody == [meal |-> "nobody"]

VARIABLES
  meal,       \* the delivery of each: "waiting", "credited", "counted", "done"
  seen,       \* the orders delivered its transaction has counted
  progress,   \* UserAchievement.progress
  unlocked,   \* UserAchievement.is_unlocked
  gifts       \* history: rewards credited for it

achievementsVars == <<meal, seen, progress, unlocked, gifts>>

AchievementsInit ==
  /\ meal = [o \in Meals |-> "waiting"] /\ seen = [o \in Meals |-> 0]
  /\ progress = 0 /\ unlocked = FALSE /\ gifts = 0

Done == {o \in Meals : meal[o] = "done"}
Open == {o \in Meals : meal[o] \in {"credited", "counted"}}

-----------------------------------------------------------------------------
(* loyalty.on_order_delivered: earn locks the account, if there are points.*)
NeverWaits(o) == TRUE                            \* mutant: gamification hears first
AccountFree(o) == o \in WorthPoints => Open \cap WorthPoints = {}
earnPoints(o) ==
  /\ meal[o] = "waiting" /\ AccountFree(o)
  /\ meal' = [meal EXCEPT ![o] = "credited"]
  /\ UNCHANGED <<seen, progress, unlocked, gifts>>

(* _lifetime_stats: what is committed, and this order.                     *)
_lifetime_stats(o) ==
  /\ meal[o] = "credited"
  /\ seen' = [seen EXCEPT ![o] = Cardinality(Done) + 1]
  /\ meal' = [meal EXCEPT ![o] = "counted"]
  /\ UNCHANGED <<progress, unlocked, gifts>>

(* _check_achievements, then the commit.  A progress that differs is       *)
(* written, the unlocking is one conditional UPDATE.                       *)
Smaller(a, b) == IF a <= b THEN a ELSE b
_check_achievements(o) ==
  LET reached == Smaller(seen[o], ConditionValue) IN
  /\ meal[o] = "counted"
  /\ meal' = [meal EXCEPT ![o] = "done"]
  /\ progress' = reached
  /\ IF reached = ConditionValue /\ ~unlocked
       THEN unlocked' = TRUE /\ gifts' = gifts + 1
       ELSE UNCHANGED <<unlocked, gifts>>
  /\ UNCHANGED seen

-----------------------------------------------------------------------------
AchievementsNext ==
  \E o \in Meals : earnPoints(o) \/ _lifetime_stats(o) \/ _check_achievements(o)

AchievementsSpec == AchievementsInit /\ [][AchievementsNext]_achievementsVars

-----------------------------------------------------------------------------
AchievementsTypeOK ==
  /\ meal \in [Meals -> {"waiting", "credited", "counted", "done"}]
  /\ seen \in [Meals -> Nat] /\ progress \in Nat
  /\ unlocked \in BOOLEAN /\ gifts \in Nat

(* G1.  However the deliveries of a customer overlap, an achievement is    *)
(* rewarded once, and not before its condition is met; and while every     *)
(* order is worth points, none of them is missed.                          *)
RewardedOnce ==
  /\ gifts = IF unlocked THEN 1 ELSE 0
  /\ unlocked => Cardinality(Done) >= ConditionValue
  /\ Done \subseteq WorthPoints =>
       progress = Smaller(Cardinality(Done), ConditionValue)
       /\ (unlocked <=> Cardinality(Done) >= ConditionValue)
=============================================================================
