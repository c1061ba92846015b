--------------------------- MODULE Accounts_proofs ---------------------------
(***************************************************************************)
(* Proofs about what is kept in francs, stars and points: the points of a  *)
(* customer (Loyalty), the counters of couriers (Payouts), the money of    *)
(* orders (Ledger) - for any orders, payments, couriers and rewards.       *)
(***************************************************************************)
EXTENDS Loyalty, Payouts, Ledger, Sums_proofs, TLAPS

-----------------------------------------------------------------------------
(* Points.                                                                 *)

(* Until an account moves under it, the task has read its balance.         *)
ReadIsBalance == ~raced /\ read > 0 => read = balance
LoyaltyInv == LoyaltyTypeOK /\ PointsAddUp /\ ReadIsBalance

LEMMA WorthIsNatural == \A x \in RewardedOrders \cup Gifts : Worth[x] \in Nat
BY LoyaltyAssumption DEF Worth

Spent(m) == [w \in Rewards |-> Cost[w] * m[w]]

LEMMA OneMore == \A a, b \in Nat : a * (b + 1) = a * b + a
OBVIOUS

LEMMA SpentIsNatural ==
  ASSUME NEW m \in [Rewards -> Nat]
  PROVE  \A w \in Rewards : Spent(m)[w] = Cost[w] * m[w] /\ Spent(m)[w] \in Nat
<1> SUFFICES ASSUME NEW w \in Rewards PROVE Cost[w] * m[w] \in Nat
  BY DEF Spent
<1>1. Cost[w] \in Nat /\ m[w] \in Nat
  BY LoyaltyAssumption
<1> QED
  BY <1>1

LEMMA CodesPaidFor ==
  CodesArePaidFor <=>
    /\ SumFunctionOnSet(Spent(minted), Rewards) = lifetimeSpent
    /\ balance + lifetimeSpent <= lifetimeEarned
    /\ lifetimeEarned = SumFunctionOnSet(Worth, credited)
BY DEF CodesArePaidFor, SumFunction, Spent

LEMMA InitLoyalty == LoyaltyInit => LoyaltyInv
<1> SUFFICES ASSUME LoyaltyInit PROVE LoyaltyInv
  OBVIOUS
<1>1. LoyaltyTypeOK
  <2>1. /\ balance \in Nat /\ lifetimeEarned \in Nat /\ lifetimeSpent \in Nat
        /\ entries \in Int /\ read \in Nat /\ minted \in [Rewards -> Nat]
    BY DEF LoyaltyInit
  <2>2. idle \in BOOLEAN /\ raced \in BOOLEAN /\ credited \subseteq RewardedOrders \cup Gifts
    BY Zenon DEF LoyaltyInit
  <2> QED  BY <2>1, <2>2 DEF LoyaltyTypeOK
<1>2. SumFunctionOnSet(Worth, credited) = 0
  BY SumOfNone DEF LoyaltyInit
<1>3. SumFunctionOnSet(Spent(minted), Rewards) = 0
  <2>1. \A w \in Rewards : Spent(minted)[w] = 0
    BY LoyaltyAssumption DEF LoyaltyInit, Spent
  <2> QED  BY <2>1, LoyaltyAssumption, SumOfZeros
<1> QED
  BY <1>1, <1>2, <1>3, CodesPaidFor
     DEF LoyaltyInit, LoyaltyInv, PointsAddUp, BalanceIsItsEntriesUnlessRaced, ReadIsBalance

(* Points credited once for what is worth them.                            *)
LEMMA CreditKeeps ==
  ASSUME LoyaltyInv, NEW x \in RewardedOrders \cup Gifts, x \notin credited,
         credited' = credited \cup {x}, CreditPoints(Worth[x])
  PROVE  LoyaltyInv'
<1> DEFINE n == Worth[x]
<1>1. n \in Nat
  BY WorthIsNatural
<1>2. /\ balance' = balance + n /\ lifetimeEarned' = lifetimeEarned + n
      /\ entries' = entries + n /\ idle' = FALSE /\ raced' = (raced \/ read > 0)
      /\ UNCHANGED <<read, lifetimeSpent, minted>>
  BY DEF CreditPoints, Touch
<1>3. SumFunctionOnSet(Worth, credited') = n + SumFunctionOnSet(Worth, credited)
  <2>1. credited \subseteq RewardedOrders \cup Gifts
    BY DEF LoyaltyInv, LoyaltyTypeOK
  <2>2. IsFiniteSet(credited)
    BY <2>1, LoyaltyAssumption, FS_Union, FS_Subset
  <2>3. \A y \in credited \cup {x} : Worth[y] \in Int
    BY <2>1, WorthIsNatural
  <2> QED  BY <2>2, <2>3, SumPutsIn
<1> HIDE DEF n
<1>4. LoyaltyTypeOK'
  <2>1. raced' \in BOOLEAN /\ idle' \in BOOLEAN
    BY <1>2, Zenon DEF LoyaltyInv, LoyaltyTypeOK
  <2>2. credited' \subseteq RewardedOrders \cup Gifts /\ minted' \in [Rewards -> Nat]
    BY <1>2 DEF LoyaltyInv, LoyaltyTypeOK
  <2>3. balance' \in Nat /\ lifetimeEarned' \in Nat /\ entries' \in Int
    BY <1>1, <1>2 DEF LoyaltyInv, LoyaltyTypeOK
  <2>4. read' \in Nat /\ lifetimeSpent' \in Nat
    BY <1>2 DEF LoyaltyInv, LoyaltyTypeOK
  <2> QED  BY <2>1, <2>2, <2>3, <2>4 DEF LoyaltyTypeOK
<1>5. CodesArePaidFor'
  BY <1>1, <1>2, <1>3, CodesPaidFor DEF LoyaltyInv, PointsAddUp, LoyaltyTypeOK, CodesArePaidFor, SumFunction
<1>6. BalanceIsItsEntriesUnlessRaced' /\ ReadIsBalance'
  BY <1>1, <1>2 DEF LoyaltyInv, PointsAddUp, LoyaltyTypeOK, BalanceIsItsEntriesUnlessRaced, ReadIsBalance
<1> QED
  BY <1>4, <1>5, <1>6 DEF LoyaltyInv, PointsAddUp

LEMMA StepLoyalty == LoyaltyInv /\ [LoyaltyNext]_loyaltyVars => LoyaltyInv'
<1> SUFFICES ASSUME LoyaltyInv, [LoyaltyNext]_loyaltyVars PROVE LoyaltyInv'
  OBVIOUS
<1>1. ASSUME NEW o \in RewardedOrders, earn(o) PROVE LoyaltyInv'
  <2>1. Worth[o] = Points[o]
    BY DEF Worth
  <2> QED  BY <1>1, <2>1, CreditKeeps DEF earn, Earnable
<1>2. ASSUME NEW g \in Gifts, adjust(g) PROVE LoyaltyInv'
  <2>1. Worth[g] = GiftPoints[g]
    BY LoyaltyAssumption DEF Worth
  <2> QED  BY <1>2, <2>1, CreditKeeps DEF adjust
<1>3. ASSUME NEW w \in Rewards, redeem(w) PROVE LoyaltyInv'
  <2>1. /\ balance >= Cost[w] /\ balance' = balance - Cost[w]
        /\ lifetimeSpent' = lifetimeSpent + Cost[w] /\ entries' = entries - Cost[w]
        /\ minted' = [minted EXCEPT ![w] = @ + 1]
        /\ idle' = FALSE /\ raced' = (raced \/ read > 0)
        /\ UNCHANGED <<read, lifetimeEarned, credited>>
    BY <1>3 DEF redeem, Affords, Touch
  <2>2. Cost[w] \in Nat /\ Cost[w] > 0
    BY LoyaltyAssumption
  <2>3. minted \in [Rewards -> Nat] /\ minted' \in [Rewards -> Nat] /\ minted'[w] = minted[w] + 1
        /\ \A v \in Rewards \ {w} : minted'[v] = minted[v]
    BY <2>1 DEF LoyaltyInv, LoyaltyTypeOK
  <2>4. SumFunctionOnSet(Spent(minted'), Rewards) = SumFunctionOnSet(Spent(minted), Rewards) + Cost[w]
    <3> DEFINE f == Spent(minted)
               g == Spent(minted')
    <3>1. /\ \A v \in Rewards : f[v] \in Int /\ g[v] \in Int
          /\ \A v \in Rewards \ {w} : f[v] = g[v]
      BY <2>3, SpentIsNatural
    <3>2. g[w] = f[w] + Cost[w] /\ f[w] \in Int
      <4>1. g[w] = Cost[w] * (minted[w] + 1) /\ f[w] = Cost[w] * minted[w] /\ minted[w] \in Nat
        BY <2>3, SpentIsNatural
      <4>2. Cost[w] * (minted[w] + 1) = Cost[w] * minted[w] + Cost[w]
        BY <2>2, <4>1, OneMore
      <4> QED  BY <4>1, <4>2, <3>1
    <3> HIDE DEF f, g
    <3>3. SumFunctionOnSet(g, Rewards) = SumFunctionOnSet(f, Rewards) - f[w] + g[w]
      BY <3>1, LoyaltyAssumption, SumChangesAt
    <3>4. SumFunctionOnSet(f, Rewards) \in Int
      BY <3>1, LoyaltyAssumption, SumType
    <3>5. SumFunctionOnSet(g, Rewards) = SumFunctionOnSet(f, Rewards) + Cost[w]
      BY <2>2, <3>2, <3>3, <3>4
    <3> QED  BY <3>5 DEF f, g
  <2>5. LoyaltyTypeOK'
    <3>1. raced' \in BOOLEAN /\ idle' \in BOOLEAN
      BY <2>1, Zenon DEF LoyaltyInv, LoyaltyTypeOK
    <3>2. balance' \in Nat /\ lifetimeSpent' \in Nat /\ entries' \in Int
      BY <2>1, <2>2 DEF LoyaltyInv, LoyaltyTypeOK
    <3>3. read' \in Nat /\ lifetimeEarned' \in Nat /\ credited' \subseteq RewardedOrders \cup Gifts
      BY <2>1 DEF LoyaltyInv, LoyaltyTypeOK
    <3> QED  BY <2>3, <3>1, <3>2, <3>3 DEF LoyaltyTypeOK
  <2>6. CodesArePaidFor'
    <3>1. SumFunction([v \in Rewards |-> Cost[v] * minted[v]])' = SumFunctionOnSet(Spent(minted'), Rewards)
      BY DEF SumFunction, Spent
    <3> QED  BY <2>1, <2>2, <2>4, <3>1, CodesPaidFor
                DEF LoyaltyInv, PointsAddUp, LoyaltyTypeOK, CodesArePaidFor
  <2>7. BalanceIsItsEntriesUnlessRaced' /\ ReadIsBalance'
    BY <2>1, <2>2
       DEF LoyaltyInv, PointsAddUp, LoyaltyTypeOK, BalanceIsItsEntriesUnlessRaced, ReadIsBalance
  <2> QED  BY <2>5, <2>6, <2>7 DEF LoyaltyInv, PointsAddUp
<1>4. CASE YearPasses \/ ReadIdle \/ expire_inactive \/ UNCHANGED loyaltyVars
  <2> USE <1>4 DEF YearPasses, ReadIdle, expire_inactive, loyaltyVars
  <2>1. UNCHANGED <<minted, lifetimeSpent, lifetimeEarned, credited, raced>>
        /\ balance' \in {0, balance} /\ read' \in {0, read, balance}
    OBVIOUS
  <2>2. LoyaltyTypeOK'
    <3>1. idle' \in BOOLEAN
      BY DEF LoyaltyInv, LoyaltyTypeOK
    <3>2. entries' \in Int
      BY DEF LoyaltyInv, LoyaltyTypeOK
    <3> QED  BY <2>1, <3>1, <3>2 DEF LoyaltyInv, LoyaltyTypeOK
  <2>3. CodesArePaidFor'
    BY <2>1 DEF LoyaltyInv, PointsAddUp, LoyaltyTypeOK, CodesArePaidFor
  <2>4. BalanceIsItsEntriesUnlessRaced' /\ ReadIsBalance'
    BY DEF LoyaltyInv, PointsAddUp, LoyaltyTypeOK, BalanceIsItsEntriesUnlessRaced, ReadIsBalance
  <2> QED  BY <2>2, <2>3, <2>4 DEF LoyaltyInv, PointsAddUp
<1> QED
  BY <1>1, <1>2, <1>3, <1>4 DEF LoyaltyNext

(* Whatever is credited, spent and put out, and however the expiry writes  *)
(* over what it has not seen, codes are minted for points that deliveries  *)
(* and achievements were worth, and nothing else.                          *)
THEOREM PointsHold == LoyaltySpec => []PointsAddUp
<1> QED
  BY InitLoyalty, StepLoyalty, PTL DEF LoyaltySpec, LoyaltyInv

-----------------------------------------------------------------------------
(* The counters of couriers.                                               *)

AmountAsked == [w \in Withdrawals |-> withdrawal[w].amount]

LEMMA PayoutsSets ==
  ASSUME NEW c
  PROVE  /\ Delivered(c) \subseteq Courses /\ IsFiniteSet(Delivered(c))
         /\ Debited(c) \subseteq Withdrawals /\ IsFiniteSet(Debited(c))
         /\ RatedBy(c) \subseteq Courses /\ IsFiniteSet(RatedBy(c))
         /\ Delivered(c)' \subseteq Courses /\ IsFiniteSet(Delivered(c)')
         /\ Debited(c)' \subseteq Withdrawals /\ IsFiniteSet(Debited(c)')
         /\ RatedBy(c)' \subseteq Courses /\ IsFiniteSet(RatedBy(c)')
<1>1. /\ Delivered(c) \subseteq Courses /\ Delivered(c)' \subseteq Courses
      /\ Debited(c) \subseteq Withdrawals /\ Debited(c)' \subseteq Withdrawals
      /\ RatedBy(c) \subseteq Courses /\ RatedBy(c)' \subseteq Courses
  BY DEF Delivered, Debited, RatedBy
<1> QED
  BY <1>1, PayoutsAssumption, FS_Subset

LEMMA PayoutsTypes ==
  ASSUME PayoutsTypeOK
  PROVE  /\ \A w \in Withdrawals : AmountAsked[w] = withdrawal[w].amount
                                     /\ withdrawal[w].amount \in Nat /\ AmountAsked[w] \in Nat
         /\ \A c \in Couriers : earnings[c] \in Nat /\ ratingCount[c] \in Nat /\ ratingAverage[c] \in 0..500
         /\ \A k \in Courses : CourierOf[k] \in Couriers /\ Fee[k] \in Nat /\ rating[k] \in 0..5
         /\ \A w \in Withdrawals : AskedBy[w] \in Couriers
BY PayoutsAssumption DEF PayoutsTypeOK, AmountAsked

Conserved(c) ==
  SumFunctionOnSet(Fee, Delivered(c)) = earnings[c] + SumFunctionOnSet(AmountAsked, Debited(c))
WellRated(c) ==
  /\ ratingCount[c] = Cardinality(RatedBy(c))
  /\ 4 * Distance(ratingCount[c] * ratingAverage[c], 100 * SumFunctionOnSet(rating, RatedBy(c)))
       <= ratingCount[c] * (ratingCount[c] + 1)

LEMMA CountersByCourier == CountersAddUp <=> \A c \in Couriers : Conserved(c) /\ WellRated(c)
BY DEF CountersAddUp, EarningsAreConserved, RatingsAddUp, Conserved, WellRated, AmountAsked

PayoutsInv == PayoutsTypeOK /\ \A c \in Couriers : Conserved(c) /\ WellRated(c)

LEMMA InitPayouts == PayoutsInit => PayoutsInv
<1> SUFFICES ASSUME PayoutsInit PROVE PayoutsInv
  OBVIOUS
<1>1. PayoutsTypeOK
  BY DEF PayoutsInit, PayoutsTypeOK
<1>2. ASSUME NEW c \in Couriers PROVE Conserved(c) /\ WellRated(c)
  <2>1. Delivered(c) = {} /\ Debited(c) = {} /\ RatedBy(c) = {}
    BY DEF PayoutsInit, Delivered, Debited, RatedBy
  <2>2. /\ SumFunctionOnSet(Fee, {}) = 0 /\ SumFunctionOnSet(AmountAsked, {}) = 0
        /\ SumFunctionOnSet(rating, {}) = 0 /\ Cardinality({}) = 0
    BY SumOfNone, FS_EmptySet
  <2>3. earnings[c] = 0 /\ ratingCount[c] = 0 /\ ratingAverage[c] = 0
    BY DEF PayoutsInit
  <2>4. Conserved(c)
    BY <2>1, <2>2, <2>3 DEF Conserved
  <2>5. WellRated(c)
    BY <2>1, <2>2, <2>3 DEF WellRated, Distance
  <2> QED  BY <2>4, <2>5
<1> QED
  BY <1>1, <1>2 DEF PayoutsInv

(* What a step leaves alone.                                               *)
LEMMA ConservedStays ==
  ASSUME NEW c, Conserved(c), earnings'[c] = earnings[c],
         Delivered(c)' = Delivered(c), Debited(c)' = Debited(c),
         AmountAsked' = AmountAsked
  PROVE  Conserved(c)'
BY DEF Conserved

LEMMA WellRatedStays ==
  ASSUME NEW c, WellRated(c), UNCHANGED <<rating, ratingCount, ratingAverage>>
  PROVE  WellRated(c)'
BY DEF WellRated, RatedBy

LEMMA DeliverKeeps ==
  ASSUME PayoutsInv, NEW k \in Courses, Deliver(k) PROVE PayoutsInv'
<1> DEFINE d == CourierOf[k]
<1>1. /\ course[k] = "carried" /\ course' = [course EXCEPT ![k] = "delivered"]
      /\ earnings' = [earnings EXCEPT ![d] = @ + Fee[k]]
      /\ UNCHANGED <<withdrawal, rating, asking, ratingCount, ratingAverage>>
  BY DEF Deliver, ratings
<1>2. d \in Couriers /\ Fee[k] \in Nat
  BY PayoutsTypes DEF PayoutsInv
<1> HIDE DEF d
<1>3. PayoutsTypeOK'
  BY <1>1, <1>2 DEF PayoutsInv, PayoutsTypeOK
<1>4. AmountAsked' = AmountAsked /\ \A c : Debited(c)' = Debited(c)
  BY <1>1 DEF AmountAsked, Debited
<1>5. ASSUME NEW c \in Couriers PROVE Conserved(c)'
  <2>1. CASE c # d
    <3>1. Delivered(c)' = Delivered(c) /\ earnings'[c] = earnings[c]
      BY <1>1, <1>2, <2>1 DEF Delivered, d, PayoutsInv, PayoutsTypeOK
    <3> QED  BY <1>4, <3>1, ConservedStays DEF PayoutsInv
  <2>2. CASE c = d
    <3>1. Delivered(c)' = Delivered(c) \cup {k} /\ k \notin Delivered(c)
      BY <1>1, <2>2 DEF Delivered, d, PayoutsInv, PayoutsTypeOK
    <3>2. \A x \in Delivered(c) \cup {k} : Fee[x] \in Int
      BY PayoutsSets, PayoutsAssumption
    <3>3. SumFunctionOnSet(Fee, Delivered(c)') = Fee[k] + SumFunctionOnSet(Fee, Delivered(c))
      BY <3>1, <3>2, PayoutsSets, SumPutsIn
    <3>4. earnings'[c] = earnings[c] + Fee[k] /\ earnings[c] \in Nat
      BY <1>1, <1>2, <2>2 DEF PayoutsInv, PayoutsTypeOK
    <3>5. SumFunctionOnSet(AmountAsked, Debited(c)) \in Int
      <4>1. \A w \in Debited(c) : AmountAsked[w] \in Int
        BY PayoutsSets, PayoutsTypes DEF PayoutsInv
      <4> QED  BY <4>1, PayoutsSets, SumType
    <3>6. SumFunctionOnSet(Fee, Delivered(c)) = earnings[c] + SumFunctionOnSet(AmountAsked, Debited(c))
      BY DEF PayoutsInv, Conserved
    <3>7. SumFunctionOnSet(Fee, Delivered(c)') = earnings'[c] + SumFunctionOnSet(AmountAsked, Debited(c))
      BY <1>2, <3>3, <3>4, <3>5, <3>6
    <3> QED  BY <1>4, <3>7 DEF Conserved
  <2> QED  BY <2>1, <2>2
<1>6. \A c \in Couriers : WellRated(c)'
  BY <1>1, WellRatedStays DEF PayoutsInv
<1> QED
  BY <1>3, <1>5, <1>6 DEF PayoutsInv

(* A withdrawal that moves: what it holds of the earnings comes and goes.  *)
Holds(w) == IF withdrawal[w].status \in {"pending", "completed"} THEN withdrawal[w].amount ELSE 0

LEMMA WithdrawalKeeps ==
  ASSUME PayoutsInv, PayoutsTypeOK', NEW w \in Withdrawals,
         UNCHANGED <<course, ratings>>,
         \A v \in Withdrawals \ {w} : withdrawal'[v] = withdrawal[v],
         \A c \in Couriers :
           earnings'[c] = IF c = AskedBy[w] THEN earnings[c] + Holds(w) - Holds(w)' ELSE earnings[c]
  PROVE  PayoutsInv'
<1>1. ASSUME NEW c \in Couriers PROVE Conserved(c)'
  <2>1. Delivered(c)' = Delivered(c)
    BY DEF Delivered
  <2>2. Debited(c) \ {w} = Debited(c)' \ {w}
    BY DEF Debited
  <2>3. /\ \A v \in Debited(c) : AmountAsked[v] \in Int
        /\ \A v \in Debited(c)' : AmountAsked'[v] \in Int
        /\ \A v \in Debited(c) \ {w} : AmountAsked[v] = AmountAsked'[v]
        /\ AmountAsked[w] = withdrawal[w].amount /\ AmountAsked'[w] = withdrawal'[w].amount
    <3>1. \A v \in Withdrawals : AmountAsked[v] = withdrawal[v].amount /\ AmountAsked[v] \in Nat
      BY PayoutsTypes DEF PayoutsInv
    <3>2. \A v \in Withdrawals : AmountAsked'[v] = withdrawal'[v].amount /\ AmountAsked'[v] \in Nat
      BY DEF AmountAsked, PayoutsTypeOK
    <3> QED  BY <3>1, <3>2, PayoutsSets
  <2> DEFINE S == Debited(c)
             T == Debited(c)'
             f == AmountAsked
             g == AmountAsked'
             before == IF w \in S THEN f[w] ELSE 0
             after == IF w \in T THEN g[w] ELSE 0
  <2>4. IsFiniteSet(S) /\ IsFiniteSet(T)
    BY PayoutsSets
  <2>5. SumFunctionOnSet(g, T) = SumFunctionOnSet(f, S) - before + after
    <3> HIDE DEF S, T, f, g
    <3> QED  BY <2>2, <2>3, <2>4, SumMoves DEF S, T, f, g
  <2>6. SumFunctionOnSet(f, S) \in Int /\ before \in Int /\ after \in Int /\ earnings[c] \in Int
    BY <2>3, <2>4, SumType, PayoutsTypes DEF PayoutsInv
  <2>7. earnings'[c] = earnings[c] + before - after
    <3>1. before = IF AskedBy[w] = c THEN Holds(w) ELSE 0
      BY <2>3 DEF Debited, Holds
    <3>2. after = IF AskedBy[w] = c THEN Holds(w)' ELSE 0
      BY <2>3 DEF Debited, Holds
    <3> HIDE DEF before, after
    <3>3. CASE c = AskedBy[w]
      BY <3>1, <3>2, <3>3
    <3>4. CASE c # AskedBy[w]
      BY <3>1, <3>2, <3>4, <2>6
    <3> QED  BY <3>3, <3>4
  <2>8. SumFunctionOnSet(Fee, Delivered(c)) = earnings[c] + SumFunctionOnSet(f, S)
    BY DEF PayoutsInv, Conserved
  <2> HIDE DEF before, after, S, T, f, g
  <2>9. SumFunctionOnSet(Fee, Delivered(c)) = earnings'[c] + SumFunctionOnSet(g, T)
    BY <2>5, <2>6, <2>7, <2>8
  <2> QED  BY <2>1, <2>9 DEF Conserved, g, T
<1>2. \A c \in Couriers : WellRated(c)'
  BY WellRatedStays DEF PayoutsInv, ratings
<1> QED
  BY <1>1, <1>2 DEF PayoutsInv

LEMMA WithdrawalsKeep ==
  ASSUME PayoutsInv, NEW w \in Withdrawals,
         RequestWithdrawal(w) \/ SettleWithdrawal(w) \/ FailWithdrawal(w)
  PROVE  PayoutsInv'
<1> DEFINE d == AskedBy[w]
<1>1. d \in Couriers /\ earnings[d] \in Nat /\ withdrawal[w].amount \in Nat
  BY PayoutsTypes DEF PayoutsInv
<1> HIDE DEF d
<1>2. /\ withdrawal \in [Withdrawals ->
           [status : {"none", "pending", "completed", "failed"}, amount : Nat]]
      /\ earnings \in [Couriers -> Nat]
  BY DEF PayoutsInv, PayoutsTypeOK
<1>3. ASSUME withdrawal' \in [Withdrawals ->
               [status : {"none", "pending", "completed", "failed"}, amount : Nat]],
             earnings' \in [Couriers -> Nat], UNCHANGED <<course, ratings>>
      PROVE  PayoutsTypeOK'
  BY <1>3 DEF PayoutsInv, PayoutsTypeOK, ratings
<1>4. CASE RequestWithdrawal(w)
  <2>1. PICK a \in 1..earnings[d] :
          /\ earnings' = [earnings EXCEPT ![d] = @ - a]
          /\ withdrawal' = [withdrawal EXCEPT ![w] = [status |-> "pending", amount |-> a]]
    BY <1>4 DEF RequestWithdrawal, d
  <2>2. withdrawal[w].status = "none" /\ UNCHANGED <<course, ratings>>
    BY <1>4 DEF RequestWithdrawal
  <2>3. a \in Nat /\ earnings[d] - a \in Nat
    BY <1>1, <2>1
  <2>4. PayoutsTypeOK'
    BY <1>1, <1>2, <1>3, <2>1, <2>2, <2>3
  <2>5. Holds(w) = 0 /\ Holds(w)' = a
    BY <1>2, <2>1, <2>2 DEF Holds
  <2>6. \A v \in Withdrawals \ {w} : withdrawal'[v] = withdrawal[v]
    BY <1>2, <2>1
  <2>7. \A c \in Couriers : earnings'[c] = IF c = d THEN earnings[c] + 0 - a ELSE earnings[c]
    BY <1>1, <1>2, <2>1, <2>3
  <2> QED  BY <2>2, <2>4, <2>5, <2>6, <2>7, WithdrawalKeeps DEF d
<1>5. CASE SettleWithdrawal(w)
  <2>1. /\ withdrawal[w].status = "pending" /\ UNCHANGED <<course, ratings, earnings>>
        /\ withdrawal' = [withdrawal EXCEPT ![w].status = "completed"]
    BY <1>5 DEF SettleWithdrawal
  <2>2. PayoutsTypeOK'
    BY <1>2, <1>3, <2>1
  <2>3. Holds(w) = withdrawal[w].amount /\ Holds(w)' = withdrawal[w].amount
    BY <1>2, <2>1 DEF Holds
  <2>4. \A v \in Withdrawals \ {w} : withdrawal'[v] = withdrawal[v]
    BY <1>2, <2>1
  <2>5. \A c \in Couriers :
          earnings'[c] = IF c = d THEN earnings[c] + Holds(w) - Holds(w)' ELSE earnings[c]
    BY <1>1, <1>2, <2>1, <2>3
  <2> QED  BY <2>1, <2>2, <2>4, <2>5, WithdrawalKeeps DEF d
<1>6. CASE FailWithdrawal(w)
  <2>1. /\ withdrawal[w].status = "pending" /\ UNCHANGED <<course, ratings>>
        /\ earnings' = [earnings EXCEPT ![d] = @ + withdrawal[w].amount]
        /\ withdrawal' = [withdrawal EXCEPT ![w].status = "failed"]
    BY <1>6 DEF FailWithdrawal, MayFail, d
  <2>2. PayoutsTypeOK'
    BY <1>1, <1>2, <1>3, <2>1
  <2>3. Holds(w) = withdrawal[w].amount /\ Holds(w)' = 0
    BY <1>2, <2>1 DEF Holds
  <2>4. \A v \in Withdrawals \ {w} : withdrawal'[v] = withdrawal[v]
    BY <1>2, <2>1
  <2>5. \A c \in Couriers :
          earnings'[c] = IF c = d THEN earnings[c] + Holds(w) - Holds(w)' ELSE earnings[c]
    BY <1>1, <1>2, <2>1, <2>3
  <2> QED  BY <2>1, <2>2, <2>4, <2>5, WithdrawalKeeps DEF d
<1> QED
  BY <1>4, <1>5, <1>6

(* One more score, rounded half up: the stored mean leaves the true one by *)
(* half a hundredth more than before.                                      *)
LEMMA MeanIsRounded ==
  ASSUME NEW total \in Nat, NEW n \in Nat, n > 0, NEW mean \in Int,
         mean = (2 * total + n) \div (2 * n)
  PROVE  2 * (n * mean) <= 2 * total + n /\ 2 * total - n <= 2 * (n * mean)
<1>1. (2 * n) * mean <= 2 * total + n /\ 2 * total + n < (2 * n) * mean + 2 * n
  OBVIOUS
<1>2. (2 * n) * mean = 2 * (n * mean) /\ n * mean \in Int
  OBVIOUS
<1> QED
  BY <1>1, <1>2

LEMMA MeanStaysInRange ==
  ASSUME NEW total \in Nat, NEW n \in Nat, n > 0, NEW mean \in Int, total <= 500 * n,
         2 * (n * mean) <= 2 * total + n, 2 * total - n <= 2 * (n * mean)
  PROVE  mean \in 0..500
<1>1. ASSUME mean >= 501 PROVE FALSE
  <2>1. n * mean >= n * 501
    BY <1>1
  <2> QED  BY <2>1
<1>2. ASSUME mean <= -1 PROVE FALSE
  <2>1. n * mean <= n * (-1)
    BY <1>2
  <2> QED  BY <2>1
<1> QED
  BY <1>1, <1>2

LEMMA DriftGrows ==
  ASSUME NEW n \in Nat, NEW q \in Int, NEW p \in Int, NEW sum \in Int, NEW score \in Int,
         4 * Distance(q, 100 * sum) <= n * (n + 1),
         2 * p <= 2 * (q + 100 * score) + (n + 1), 2 * (q + 100 * score) - (n + 1) <= 2 * p
  PROVE  4 * Distance(p, 100 * (score + sum)) <= (n + 1) * ((n + 1) + 1)
<1>1. (n + 1) * ((n + 1) + 1) = n * (n + 1) + 2 * (n + 1) /\ n * (n + 1) \in Int
  OBVIOUS
<1> DEFINE room == n * (n + 1)
<1>2. 4 * Distance(q, 100 * sum) <= room /\ room \in Int
  BY <1>1
<1> HIDE DEF room
<1>3. 4 * Distance(p, 100 * (score + sum)) <= room + 2 * (n + 1)
  BY <1>2 DEF Distance
<1> QED
  BY <1>1, <1>3 DEF room

LEMMA CommitKeeps ==
  ASSUME PayoutsInv, NEW k \in Courses, NEW score \in Scores, CommitRating(k, score)
  PROVE  PayoutsInv'
<1> DEFINE d == CourierOf[k]
           n == ratingCount[d]
           total == ratingAverage[d] * n + 100 * score
           mean == MeanWith(d, score)
<1>1. /\ rating[k] = 0 /\ rating' = [rating EXCEPT ![k] = score]
      /\ ratingCount' = [ratingCount EXCEPT ![d] = @ + 1]
      /\ ratingAverage' = [ratingAverage EXCEPT ![d] = mean]
      /\ asking' = asking \ {<<k, score>>}
      /\ UNCHANGED <<course, earnings, withdrawal>>
  BY DEF CommitRating
<1>2. /\ d \in Couriers /\ score \in 1..5 /\ n \in Nat /\ ratingAverage[d] \in 0..500
  BY PayoutsTypes, PayoutsAssumption DEF PayoutsInv
<1>3. /\ mean = (2 * total + (n + 1)) \div (2 * (n + 1))
  BY DEF MeanWith
<1> HIDE DEF mean, d
<1>4. total \in Nat /\ total <= 500 * (n + 1)
  <2>1. ratingAverage[d] * n <= 500 * n /\ ratingAverage[d] * n \in Nat
    BY <1>2
  <2> QED  BY <1>2, <2>1
<1> HIDE DEF n
<1>5. mean \in Int /\ 2 * ((n + 1) * mean) <= 2 * total + (n + 1)
        /\ 2 * total - (n + 1) <= 2 * ((n + 1) * mean)
  <2> HIDE DEF total
  <2>1. n + 1 \in Nat /\ n + 1 > 0
    BY <1>2
  <2>2. mean \in Int
    BY <1>2, <1>3, <1>4
  <2> QED  BY <1>3, <1>4, <2>1, <2>2, MeanIsRounded
<1>6. mean \in 0..500
  <2> HIDE DEF total
  <2>1. n + 1 \in Nat /\ n + 1 > 0
    BY <1>2
  <2> QED  BY <1>4, <1>5, <2>1, MeanStaysInRange
<1>7. PayoutsTypeOK'
  <2>1. rating' \in [Courses -> 0..5]
    BY <1>1, <1>2 DEF PayoutsInv, PayoutsTypeOK
  <2>2. ratingCount' \in [Couriers -> Nat]
    BY <1>1, <1>2 DEF PayoutsInv, PayoutsTypeOK, n
  <2>3. ratingAverage' \in [Couriers -> 0..500]
    BY <1>1, <1>2, <1>6 DEF PayoutsInv, PayoutsTypeOK
  <2>4. /\ course' \in [Courses -> {"carried", "delivered"}]
        /\ earnings' \in [Couriers -> Nat]
        /\ withdrawal' \in [Withdrawals ->
             [status : {"none", "pending", "completed", "failed"}, amount : Nat]]
        /\ asking' \subseteq Courses \X Scores
    BY <1>1 DEF PayoutsInv, PayoutsTypeOK
  <2> QED  BY <2>1, <2>2, <2>3, <2>4 DEF PayoutsTypeOK
<1>8. ASSUME NEW c \in Couriers PROVE Conserved(c)'
  BY <1>1, ConservedStays DEF PayoutsInv, Delivered, Debited, AmountAsked
<1>9. ASSUME NEW c \in Couriers PROVE WellRated(c)'
  <2>1. CASE c # d
    <3>1. ratingCount'[c] = ratingCount[c] /\ ratingAverage'[c] = ratingAverage[c]
      BY <1>1, <2>1 DEF PayoutsInv, PayoutsTypeOK
    <3>2. RatedBy(c)' = RatedBy(c) /\ \A x \in RatedBy(c) : rating'[x] = rating[x]
      BY <1>1, <2>1 DEF RatedBy, d, PayoutsInv, PayoutsTypeOK
    <3>3. SumFunctionOnSet(rating', RatedBy(c)) = SumFunctionOnSet(rating, RatedBy(c))
      BY <3>2, PayoutsSets, SumLooksAt
    <3> QED  BY <3>1, <3>2, <3>3 DEF PayoutsInv, WellRated
  <2>2. CASE c = d
    <3> DEFINE S == RatedBy(c)
               sum == SumFunctionOnSet(rating, S)
    <3>1. RatedBy(c)' = S \cup {k} /\ k \notin S /\ rating'[k] = score
          /\ \A x \in S : rating'[x] = rating[x]
      BY <1>1, <1>2, <2>2 DEF RatedBy, d, PayoutsInv, PayoutsTypeOK
    <3>2. IsFiniteSet(S) /\ S \subseteq Courses
      BY PayoutsSets
    <3>3. ratingCount'[c] = n + 1 /\ ratingAverage'[c] = mean /\ ratingCount[c] = n
      BY <1>1, <1>2, <2>2 DEF PayoutsInv, PayoutsTypeOK, n
    <3>4. Cardinality(RatedBy(c)') = n + 1
      <4>1. Cardinality(S) = n
        BY <3>3 DEF PayoutsInv, WellRated
      <4> QED  BY <3>1, <3>2, <4>1, FS_AddElement
    <3>5. \A x \in S \cup {k} : rating'[x] \in Int
      BY <1>2, <1>7, <3>2 DEF PayoutsTypeOK
    <3>6. SumFunctionOnSet(rating', RatedBy(c)') = score + sum /\ sum \in Int
      <4>1. SumFunctionOnSet(rating', S \cup {k}) = rating'[k] + SumFunctionOnSet(rating', S)
        BY <3>1, <3>2, <3>5, SumPutsIn
      <4>2. SumFunctionOnSet(rating', S) = sum
        BY <3>1, <3>2, SumLooksAt
      <4>3. SumFunctionOnSet(rating', S) \in Int
        BY <3>2, <3>5, SumType
      <4> QED  BY <3>1, <4>1, <4>2, <4>3
    <3>7. 4 * Distance(n * ratingAverage[d], 100 * sum) <= n * (n + 1)
      BY <2>2, <3>3 DEF PayoutsInv, WellRated
    <3>8. 4 * Distance((n + 1) * mean, 100 * (score + sum)) <= (n + 1) * ((n + 1) + 1)
      <4> DEFINE q == n * ratingAverage[d]
                 p == (n + 1) * mean
      <4>1. q \in Int /\ p \in Int /\ total = q + 100 * score
        BY <1>2, <1>5
      <4>2. 2 * p <= 2 * (q + 100 * score) + (n + 1) /\ 2 * (q + 100 * score) - (n + 1) <= 2 * p
        BY <1>5, <4>1
      <4>3. 4 * Distance(q, 100 * sum) <= n * (n + 1)
        BY <3>7
      <4> HIDE DEF q, p, sum
      <4>4. 4 * Distance(p, 100 * (score + sum)) <= (n + 1) * ((n + 1) + 1)
        BY <1>2, <3>6, <4>1, <4>2, <4>3, DriftGrows
      <4> QED  BY <4>4 DEF p
    <3> QED  BY <3>3, <3>4, <3>6, <3>8 DEF WellRated
  <2> QED  BY <2>1, <2>2
<1> QED
  BY <1>7, <1>8, <1>9 DEF PayoutsInv

LEMMA StepPayouts == PayoutsInv /\ [PayoutsNext]_payoutsVars => PayoutsInv'
<1> SUFFICES ASSUME PayoutsInv, [PayoutsNext]_payoutsVars PROVE PayoutsInv'
  OBVIOUS
<1>1. ASSUME UNCHANGED <<course, earnings, withdrawal, rating, ratingCount, ratingAverage>>,
             asking' \subseteq Courses \X Scores
      PROVE  PayoutsInv'
  <2>1. PayoutsTypeOK'
    BY <1>1 DEF PayoutsInv, PayoutsTypeOK
  <2>2. \A c \in Couriers : Conserved(c)'
    BY <1>1, ConservedStays DEF PayoutsInv, Delivered, Debited, AmountAsked
  <2>3. \A c \in Couriers : WellRated(c)'
    BY <1>1, WellRatedStays DEF PayoutsInv
  <2> QED  BY <2>1, <2>2, <2>3 DEF PayoutsInv
<1>2. ASSUME NEW k \in Courses, NEW score \in Scores, AskRating(k, score) \/ AbortRating(k, score)
      PROVE  PayoutsInv'
  <2>1. asking' \subseteq Courses \X Scores
    BY <1>2 DEF AskRating, AbortRating, PayoutsInv, PayoutsTypeOK
  <2> QED  BY <1>1, <1>2, <2>1 DEF AskRating, AbortRating
<1>3. CASE UNCHANGED payoutsVars
  BY <1>1, <1>3 DEF payoutsVars, ratings, PayoutsInv, PayoutsTypeOK
<1> QED
  BY <1>2, <1>3, DeliverKeeps, WithdrawalsKeep, CommitKeeps DEF PayoutsNext

(* Every franc a courier earned is in the balance, asked for or paid out,  *)
(* whatever transfers fail; and the stored mean of n ratings is within     *)
(* (n + 1) / 4 hundredths of the true one, for any number of them.         *)
THEOREM CountersHold == PayoutsSpec => []CountersAddUp
<1>1. PayoutsInv => CountersAddUp
  BY CountersByCourier DEF PayoutsInv
<1> QED
  BY <1>1, InitPayouts, StepPayouts, PTL DEF PayoutsSpec

-----------------------------------------------------------------------------
(* The money of orders.                                                    *)

Paid == [t \in Transactions |-> payment[t].amount]
Back == [r \in Refunds |-> refund[r].amount]
Kept == {"completed", "refunded"}
BackOf(t) == RefundedAmount(RefundsAmong({t}, {"completed"}))

(* A refund is one of a payment that came in, and demands are for money.   *)
RefundsAreOfPayments ==
  \A r \in Refunds : refund[r].status # "none" =>
    refund[r].of \in Transactions /\ payment[refund[r].of].status \in Kept
DemandsAreForMoney ==
  \A t \in Transactions : payment[t].status # "none" => payment[t].amount > 0

(* Before the door nothing of a cash order is in, and there one payment.   *)
CashAtTheDoor ==
  /\ \A t \in Transactions :
       payment[t].status \in Kept /\ OrderOf[t] \in cash => OrderOf[t] \in delivered
  /\ \A t, u \in Transactions :
       /\ payment[t].status \in Kept /\ payment[u].status \in Kept
       /\ OrderOf[t] = OrderOf[u] /\ OrderOf[t] \in cash
       => t = u

(* A settlement under way will find its rows as it left them, and its sum  *)
(* is what the order will have in, unless another was written meanwhile.   *)
Counted(t, s) ==
  IF s.by = NoRefund
    THEN /\ payment[t].status = "open" /\ OrderOf[t] \notin cash
         /\ t \notin late => s.sum = SettledTotal(OrderOf[t]) + payment[t].amount
    ELSE /\ payment[t].status = "completed"
         /\ refund[s.by].status = "pending" /\ refund[s.by].of = t
         /\ BackOf(t) + refund[s.by].amount >= payment[t].amount
         /\ t \notin late => s.sum = SettledTotal(OrderOf[t]) - payment[t].amount
SettlementsCounted == \A t \in Transactions : \A s \in settling[t] : Counted(t, s)
LateIsSettling == \A t \in late : settling[t] # {} /\ OrderOf[t] \notin cash

Balanced(o) ==
  /\ AlreadyRefunded(o) <= EverCollected(o)
  /\ o \notin behind => amountPaid[o] = SettledTotal(o)
  /\ o \in cash => o \notin behind /\ EverCollected(o) = IF o \in delivered THEN Total[o] ELSE 0

LedgerInv ==
  /\ LedgerTypeOK /\ RefundsAreOfPayments /\ DemandsAreForMoney /\ CashAtTheDoor
  /\ SettlementsCounted /\ LateIsSettling
  /\ \A o \in Orders : Balanced(o)
  /\ RefundedWhenPaidBack /\ ReturnsAreTrue

LEMMA LedgerInvGives == LedgerInv => AccountsBalance
<1> SUFFICES ASSUME LedgerInv PROVE AccountsBalance
  OBVIOUS
<1>1. cash \subseteq Orders
  BY DEF LedgerInv, LedgerTypeOK
<1>2. DoorKnowsWhatIsDue
  BY <1>1 DEF LedgerInv, Balanced, DoorKnowsWhatIsDue
<1>3. RefundsWithinCollected
  BY DEF LedgerInv, Balanced, RefundsWithinCollected
<1> QED
  BY <1>2, <1>3 DEF LedgerInv, AccountsBalance

LEMMA LedgerSets ==
  ASSUME NEW o, NEW statuses, NEW ts
  PROVE  /\ PaymentsOf(o, statuses) \subseteq Transactions
         /\ PaymentsOf(o, statuses)' \subseteq Transactions
         /\ IsFiniteSet(PaymentsOf(o, statuses)) /\ IsFiniteSet(PaymentsOf(o, statuses)')
         /\ RefundsAmong(ts, statuses) \subseteq Refunds
         /\ RefundsAmong(ts, statuses)' \subseteq Refunds
         /\ IsFiniteSet(RefundsAmong(ts, statuses)) /\ IsFiniteSet(RefundsAmong(ts, statuses)')
<1>1. /\ PaymentsOf(o, statuses) \subseteq Transactions
      /\ PaymentsOf(o, statuses)' \subseteq Transactions
      /\ RefundsAmong(ts, statuses) \subseteq Refunds
      /\ RefundsAmong(ts, statuses)' \subseteq Refunds
  BY DEF PaymentsOf, RefundsAmong
<1> QED
  BY <1>1, LedgerAssumption, FS_Subset

PaymentTypes == [status : {"none", "open", "completed", "refunded"}, amount : Nat]
RefundTypes == [status : {"none", "pending", "completed", "cancelled"},
                of : Transactions \cup {NoTransaction}, amount : Nat]

LEMMA LedgerTypes ==
  /\ LedgerTypeOK => payment \in [Transactions -> PaymentTypes] /\ refund \in [Refunds -> RefundTypes]
  /\ payment \in [Transactions -> PaymentTypes] =>
       \A t \in Transactions : Paid[t] = payment[t].amount /\ Paid[t] \in Nat
  /\ payment' \in [Transactions -> PaymentTypes] =>
       \A t \in Transactions : Paid'[t] = payment'[t].amount /\ Paid'[t] \in Nat
  /\ refund \in [Refunds -> RefundTypes] =>
       \A r \in Refunds : Back[r] = refund[r].amount /\ Back[r] \in Nat
  /\ refund' \in [Refunds -> RefundTypes] =>
       \A r \in Refunds : Back'[r] = refund'[r].amount /\ Back'[r] \in Nat
  /\ \A t \in Transactions : OrderOf[t] \in Orders
  /\ \A o \in Orders : Total[o] \in Nat /\ Total[o] > 0
<1>1. LedgerTypeOK => payment \in [Transactions -> PaymentTypes] /\ refund \in [Refunds -> RefundTypes]
  BY DEF LedgerTypeOK, PaymentTypes, RefundTypes
<1>2. /\ payment \in [Transactions -> PaymentTypes] =>
           \A t \in Transactions : Paid[t] = payment[t].amount /\ Paid[t] \in Nat
      /\ payment' \in [Transactions -> PaymentTypes] =>
           \A t \in Transactions : Paid'[t] = payment'[t].amount /\ Paid'[t] \in Nat
  BY DEF Paid, PaymentTypes
<1>3. /\ refund \in [Refunds -> RefundTypes] =>
           \A r \in Refunds : Back[r] = refund[r].amount /\ Back[r] \in Nat
      /\ refund' \in [Refunds -> RefundTypes] =>
           \A r \in Refunds : Back'[r] = refund'[r].amount /\ Back'[r] \in Nat
  BY DEF Back, RefundTypes
<1>4. /\ \A t \in Transactions : OrderOf[t] \in Orders
      /\ \A o \in Orders : Total[o] \in Nat /\ Total[o] > 0
  BY LedgerAssumption
<1> QED
  BY <1>1, <1>2, <1>3, <1>4

LEMMA SumsOfPayments ==
  ASSUME NEW o
  PROVE  /\ SettledTotal(o) = SumFunctionOnSet(Paid, PaymentsOf(o, {"completed"}))
         /\ EverCollected(o) = SumFunctionOnSet(Paid, PaymentsOf(o, Kept))
         /\ SettledTotal(o)' = SumFunctionOnSet(Paid', PaymentsOf(o, {"completed"})')
         /\ EverCollected(o)' = SumFunctionOnSet(Paid', PaymentsOf(o, Kept)')
BY DEF SettledTotal, EverCollected, AmountOf, Paid, Kept

LEMMA SumsOfRefunds ==
  ASSUME NEW o, NEW t
  PROVE  /\ AlreadyRefunded(o) =
              SumFunctionOnSet(Back, RefundsAmong(OrderPayments(o), {"pending", "completed"}))
         /\ AlreadyRefunded(o)' =
              SumFunctionOnSet(Back', RefundsAmong(OrderPayments(o), {"pending", "completed"})')
         /\ BackOf(t) = SumFunctionOnSet(Back, RefundsAmong({t}, {"completed"}))
         /\ BackOf(t)' = SumFunctionOnSet(Back', RefundsAmong({t}, {"completed"})')
BY DEF AlreadyRefunded, RefundedAmount, BackOf, Back, OrderPayments

LEMMA SumsAreNatural ==
  ASSUME LedgerTypeOK, NEW o, NEW t
  PROVE  /\ SettledTotal(o) \in Nat /\ EverCollected(o) \in Nat
         /\ SettledTotal(o) <= EverCollected(o)
         /\ AlreadyRefunded(o) \in Nat /\ BackOf(t) \in Nat
<1>1. /\ \A u \in PaymentsOf(o, Kept) : Paid[u] \in Nat
      /\ \A r \in RefundsAmong({t}, {"completed"}) : Back[r] \in Nat
      /\ \A r \in RefundsAmong(OrderPayments(o), {"pending", "completed"}) : Back[r] \in Nat
  BY LedgerSets, LedgerTypes
<1>2. PaymentsOf(o, {"completed"}) \in SUBSET PaymentsOf(o, Kept)
  BY DEF PaymentsOf, Kept
<1>3. /\ IsFiniteSet(PaymentsOf(o, Kept)) /\ IsFiniteSet(PaymentsOf(o, {"completed"}))
      /\ IsFiniteSet(RefundsAmong({t}, {"completed"}))
      /\ IsFiniteSet(RefundsAmong(OrderPayments(o), {"pending", "completed"}))
  BY LedgerSets
<1>4. \A u \in PaymentsOf(o, {"completed"}) : Paid[u] \in Nat
  BY <1>1, <1>2
<1>5. SettledTotal(o) \in Nat /\ EverCollected(o) \in Nat
  BY <1>1, <1>3, <1>4, SumIsNatural, SumsOfPayments
<1>6. SettledTotal(o) <= EverCollected(o)
  BY <1>1, <1>2, <1>3, SumGrows, SumsOfPayments
<1>7. AlreadyRefunded(o) \in Nat /\ BackOf(t) \in Nat
  BY <1>1, <1>3, SumIsNatural, SumsOfRefunds
<1> QED
  BY <1>5, <1>6, <1>7

(* One payment moves: what its order has in, and had in, moves with it.    *)
In(t, statuses) == IF payment[t].status \in statuses THEN payment[t].amount ELSE 0

LEMMA PaymentMoves ==
  ASSUME LedgerTypeOK, payment' \in [Transactions -> PaymentTypes], NEW t \in Transactions,
         \A u \in Transactions \ {t} : payment'[u] = payment[u], NEW o \in Orders
  PROVE  IF OrderOf[t] = o
           THEN /\ SettledTotal(o)' = SettledTotal(o) - In(t, {"completed"}) + In(t, {"completed"})'
                /\ EverCollected(o)' = EverCollected(o) - In(t, Kept) + In(t, Kept)'
           ELSE /\ SettledTotal(o)' = SettledTotal(o)
                /\ EverCollected(o)' = EverCollected(o)
<1> DEFINE S(st) == PaymentsOf(o, st)
           T(st) == PaymentsOf(o, st)'
           f == Paid
           g == Paid'
<1>1. ASSUME NEW st
      PROVE  /\ IsFiniteSet(S(st)) /\ IsFiniteSet(T(st)) /\ S(st) \ {t} = T(st) \ {t}
             /\ \A u \in S(st) : f[u] \in Int
             /\ \A u \in T(st) : g[u] \in Int
             /\ \A u \in S(st) \ {t} : f[u] = g[u]
             /\ f[t] = payment[t].amount /\ g[t] = payment'[t].amount
  <2>1. S(st) \ {t} = T(st) \ {t}
    BY DEF PaymentsOf
  <2>2. /\ IsFiniteSet(S(st)) /\ IsFiniteSet(T(st))
        /\ S(st) \subseteq Transactions /\ T(st) \subseteq Transactions
    BY LedgerSets
  <2>3. /\ \A u \in Transactions : f[u] = payment[u].amount /\ f[u] \in Nat
        /\ \A u \in Transactions : g[u] = payment'[u].amount /\ g[u] \in Nat
    BY LedgerTypes
  <2> HIDE DEF S, T, f, g
  <2> QED  BY <2>1, <2>2, <2>3
<1>2. ASSUME NEW st
      PROVE  SumFunctionOnSet(g, T(st)) = SumFunctionOnSet(f, S(st))
               - (IF t \in S(st) THEN f[t] ELSE 0) + (IF t \in T(st) THEN g[t] ELSE 0)
  <2> DEFINE A == S(st)
             B == T(st)
  <2>1. /\ IsFiniteSet(A) /\ IsFiniteSet(B) /\ A \ {t} = B \ {t}
        /\ \A u \in A : f[u] \in Int
        /\ \A u \in B : g[u] \in Int
        /\ \A u \in A \ {t} : f[u] = g[u]
    BY <1>1
  <2> HIDE DEF f, g, A, B
  <2> QED  BY <2>1, SumMoves DEF A, B
<1>3. ASSUME NEW st
      PROVE  /\ (IF t \in S(st) THEN f[t] ELSE 0) = IF OrderOf[t] = o THEN In(t, st) ELSE 0
             /\ (IF t \in T(st) THEN g[t] ELSE 0) = IF OrderOf[t] = o THEN In(t, st)' ELSE 0
  BY <1>1 DEF PaymentsOf, In
<1>4. ASSUME NEW st
      PROVE  SumFunctionOnSet(f, S(st)) \in Int
  <2>1. IsFiniteSet(S(st)) /\ \A u \in S(st) : f[u] \in Int
    BY <1>1
  <2> HIDE DEF f, S
  <2> QED  BY <2>1, SumType
<1>5. ASSUME NEW st
      PROVE  SumFunctionOnSet(g, T(st)) =
               IF OrderOf[t] = o THEN SumFunctionOnSet(f, S(st)) - In(t, st) + In(t, st)'
                                 ELSE SumFunctionOnSet(f, S(st))
  <2> HIDE DEF f, g, S, T
  <2>1. CASE OrderOf[t] = o
    BY <1>2, <1>3, <2>1
  <2>2. CASE OrderOf[t] # o
    <3>1. SumFunctionOnSet(g, T(st)) = SumFunctionOnSet(f, S(st)) - 0 + 0
      BY <1>2, <1>3, <2>2
    <3> QED  BY <1>4, <2>2, <3>1
  <2> QED  BY <2>1, <2>2
<1> QED
  BY <1>5, SumsOfPayments

LEMMA SettledStaysNatural ==
  ASSUME payment' \in [Transactions -> PaymentTypes], NEW o
  PROVE  SettledTotal(o)' \in Nat
<1>1. IsFiniteSet(PaymentsOf(o, {"completed"})') /\ PaymentsOf(o, {"completed"})' \subseteq Transactions
  BY LedgerSets
<1>2. \A u \in PaymentsOf(o, {"completed"})' : Paid'[u] \in Nat
  BY <1>1, LedgerTypes
<1> QED
  BY <1>1, <1>2, SumIsNatural, SumsOfPayments

(* Payments left alone leave what is in alone, refunds what goes back.     *)
LEMMA PaymentsStay ==
  ASSUME UNCHANGED payment, NEW o
  PROVE  SettledTotal(o)' = SettledTotal(o) /\ EverCollected(o)' = EverCollected(o)
BY DEF SettledTotal, EverCollected, AmountOf, PaymentsOf

LEMMA RefundsStay ==
  ASSUME UNCHANGED refund
  PROVE  /\ \A o : AlreadyRefunded(o)' = AlreadyRefunded(o)
         /\ \A t : BackOf(t)' = BackOf(t)
BY DEF AlreadyRefunded, BackOf, RefundedAmount, RefundsAmong, OrderPayments

(* One refund moves.                                                       *)
Out(r, ts, statuses) ==
  IF refund[r].of \in ts /\ refund[r].status \in statuses THEN refund[r].amount ELSE 0

LEMMA RefundMoves ==
  ASSUME LedgerTypeOK, refund' \in [Refunds -> RefundTypes], NEW r \in Refunds,
         \A q \in Refunds \ {r} : refund'[q] = refund[q], NEW o, NEW t
  PROVE  /\ AlreadyRefunded(o)' = AlreadyRefunded(o)
              - Out(r, OrderPayments(o), {"pending", "completed"})
              + Out(r, OrderPayments(o), {"pending", "completed"})'
         /\ BackOf(t)' = BackOf(t) - Out(r, {t}, {"completed"}) + Out(r, {t}, {"completed"})'
<1> DEFINE S(ts, st) == RefundsAmong(ts, st)
           T(ts, st) == RefundsAmong(ts, st)'
           f == Back
           g == Back'
<1>1. ASSUME NEW ts, NEW st
      PROVE  /\ IsFiniteSet(S(ts, st)) /\ IsFiniteSet(T(ts, st))
             /\ S(ts, st) \ {r} = T(ts, st) \ {r}
             /\ \A u \in S(ts, st) : f[u] \in Int
             /\ \A u \in T(ts, st) : g[u] \in Int
             /\ \A u \in S(ts, st) \ {r} : f[u] = g[u]
             /\ f[r] = refund[r].amount /\ g[r] = refund'[r].amount
  <2>1. S(ts, st) \ {r} = T(ts, st) \ {r}
    BY DEF RefundsAmong
  <2>2. /\ IsFiniteSet(S(ts, st)) /\ IsFiniteSet(T(ts, st))
        /\ S(ts, st) \subseteq Refunds /\ T(ts, st) \subseteq Refunds
    BY LedgerSets
  <2>3. /\ \A u \in Refunds : f[u] = refund[u].amount /\ f[u] \in Nat
        /\ \A u \in Refunds : g[u] = refund'[u].amount /\ g[u] \in Nat
    BY LedgerTypes
  <2> HIDE DEF S, T, f, g
  <2> QED  BY <2>1, <2>2, <2>3
<1>2. ASSUME NEW ts, NEW st
      PROVE  SumFunctionOnSet(g, T(ts, st)) = SumFunctionOnSet(f, S(ts, st))
               - (IF r \in S(ts, st) THEN f[r] ELSE 0) + (IF r \in T(ts, st) THEN g[r] ELSE 0)
  <2> DEFINE A == S(ts, st)
             B == T(ts, st)
  <2>1. /\ IsFiniteSet(A) /\ IsFiniteSet(B) /\ A \ {r} = B \ {r}
        /\ \A u \in A : f[u] \in Int
        /\ \A u \in B : g[u] \in Int
        /\ \A u \in A \ {r} : f[u] = g[u]
    BY <1>1
  <2> HIDE DEF f, g, A, B
  <2> QED  BY <2>1, SumMoves DEF A, B
<1>3. ASSUME NEW ts, NEW st
      PROVE  /\ (IF r \in S(ts, st) THEN f[r] ELSE 0) = Out(r, ts, st)
             /\ (IF r \in T(ts, st) THEN g[r] ELSE 0) = Out(r, ts, st)'
  BY <1>1 DEF RefundsAmong, Out
<1>4. ASSUME NEW ts, NEW st
      PROVE  SumFunctionOnSet(g, T(ts, st)) = SumFunctionOnSet(f, S(ts, st))
               - Out(r, ts, st) + Out(r, ts, st)'
  <2> HIDE DEF f, g, S, T
  <2> QED  BY <1>2, <1>3
<1>5. ASSUME NEW ts, NEW st
      PROVE  SumFunctionOnSet(Back', RefundsAmong(ts, st)') = SumFunctionOnSet(Back, RefundsAmong(ts, st))
               - Out(r, ts, st) + Out(r, ts, st)'
  BY <1>4
<1> QED
  <2>1. OrderPayments(o)' = OrderPayments(o)
    BY DEF OrderPayments
  <2> QED  BY <1>5, <2>1, SumsOfRefunds

LEMMA InitLedger == LedgerInit => LedgerInv
<1> SUFFICES ASSUME LedgerInit PROVE LedgerInv
  OBVIOUS
<1>1. LedgerTypeOK
  <2>1. RETURN_TRANSITIONS["none"] = {} /\ "none" \in DOMAIN RETURN_TRANSITIONS
    BY DEF RETURN_TRANSITIONS
  <2> QED  BY <2>1 DEF LedgerInit, LedgerTypeOK
<1>2. RefundsAreOfPayments /\ DemandsAreForMoney /\ CashAtTheDoor
  BY DEF LedgerInit, RefundsAreOfPayments, DemandsAreForMoney, CashAtTheDoor, Kept
<1>3. SettlementsCounted /\ LateIsSettling /\ RefundedWhenPaidBack /\ ReturnsAreTrue
  BY DEF LedgerInit, SettlementsCounted, LateIsSettling, RefundedWhenPaidBack, ReturnsAreTrue
<1>4. ASSUME NEW o \in Orders PROVE Balanced(o)
  <2>1. /\ PaymentsOf(o, {"completed"}) = {} /\ PaymentsOf(o, Kept) = {}
        /\ RefundsAmong(OrderPayments(o), {"pending", "completed"}) = {}
    BY DEF LedgerInit, PaymentsOf, RefundsAmong, Kept
  <2>2. SettledTotal(o) = 0 /\ EverCollected(o) = 0 /\ AlreadyRefunded(o) = 0
    BY <2>1, SumOfNone, SumsOfPayments, SumsOfRefunds
  <2> QED  BY <2>2, LedgerTypes DEF LedgerInit, Balanced
<1> QED
  BY <1>1, <1>2, <1>3, <1>4 DEF LedgerInv

SettlingTypes == [by : Refunds \cup {NoRefund}, sum : Nat]

(* What a settlement under way counted stands while its rows stand.        *)
LEMMA CountedStays ==
  ASSUME NEW u \in Transactions, NEW s, Counted(u, s), payment'[u] = payment[u], UNCHANGED cash,
         s.by # NoRefund => refund'[s.by] = refund[s.by] /\ BackOf(u)' = BackOf(u),
         u \notin late' => u \notin late /\ SettledTotal(OrderOf[u])' = SettledTotal(OrderOf[u])
  PROVE  Counted(u, s)'
BY DEF Counted

(* A step that moves no money: it divides an order, hands over what a      *)
(* provider collects, decides a return, or begins or drops a settlement.   *)
LEMMA QuietKeeps ==
  ASSUME LedgerInv, UNCHANGED <<cash, payment, refund, amountPaid, behind>>,
         delivered \subseteq delivered', delivered' \subseteq Orders,
         \A o \in cash : o \in delivered' => o \in delivered,
         split' \subseteq Orders, claimed' \subseteq Shares,
         settling' \in [Transactions -> SUBSET SettlingTypes], late' \subseteq late,
         \A t \in Transactions :
           \/ settling'[t] = settling[t] /\ (t \in late => t \in late')
           \/ t \notin late' /\ \A s \in settling'[t] : Counted(t, s)',
         returned' \in [Returns -> DOMAIN RETURN_TRANSITIONS], ReturnsAreTrue'
  PROVE  LedgerInv'
<1>1. LedgerTypeOK'
  BY DEF LedgerInv, LedgerTypeOK, SettlingTypes
<1>2. RefundsAreOfPayments' /\ DemandsAreForMoney' /\ CashAtTheDoor'
  BY DEF LedgerInv, RefundsAreOfPayments, DemandsAreForMoney, CashAtTheDoor
<1>3. SettlementsCounted'
  <2> SUFFICES ASSUME NEW t \in Transactions, NEW s \in settling'[t] PROVE Counted(t, s)'
    BY DEF SettlementsCounted
  <2>1. CASE settling'[t] = settling[t] /\ (t \in late => t \in late')
    <3>1. Counted(t, s)
      BY <2>1 DEF LedgerInv, SettlementsCounted
    <3>2. BackOf(t)' = BackOf(t) /\ SettledTotal(OrderOf[t])' = SettledTotal(OrderOf[t])
      BY RefundsStay, PaymentsStay
    <3> QED  BY <2>1, <3>1, <3>2, CountedStays
  <2> QED  BY <2>1
<1>4. LateIsSettling'
  BY DEF LedgerInv, LedgerTypeOK, LateIsSettling
<1>5. RefundedWhenPaidBack'
  BY DEF LedgerInv, RefundedWhenPaidBack, RefundedAmount, RefundsAmong
<1>6. ASSUME NEW o \in Orders PROVE Balanced(o)'
  <2>1. /\ SettledTotal(o)' = SettledTotal(o) /\ EverCollected(o)' = EverCollected(o)
        /\ AlreadyRefunded(o)' = AlreadyRefunded(o)
    BY PaymentsStay, RefundsStay
  <2> QED  BY <2>1 DEF LedgerInv, Balanced
<1> QED
  BY <1>1, <1>2, <1>3, <1>4, <1>5, <1>6 DEF LedgerInv

(* A settlement begins by adding up: the payment it writes is in, or out.  *)
LEMMA TakeTotalKeeps ==
  ASSUME LedgerInv, NEW t \in Transactions, NEW r \in Refunds \cup {NoRefund}, NEW ts,
         settling[t] = {}, TakeTotal(t, r, ts), AmountOf(ts) \in Nat,
         Counted(t, [by |-> r, sum |-> AmountOf(ts)]),
         UNCHANGED <<cash, delivered, billing, payment, amountPaid, refund, returned, late, behind>>
  PROVE  LedgerInv'
<1>1. PICK s \in SettlingTypes : s = [by |-> r, sum |-> AmountOf(ts)]
  BY DEF SettlingTypes
<1>2. settling' = [settling EXCEPT ![t] = {s}] /\ Counted(t, s)
  BY <1>1 DEF TakeTotal
<1>3. /\ settling' \in [Transactions -> SUBSET SettlingTypes]
      /\ settling'[t] = {s} /\ \A u \in Transactions \ {t} : settling'[u] = settling[u]
  BY <1>1, <1>2 DEF LedgerInv, LedgerTypeOK, SettlingTypes
<1>4. t \notin late
  BY DEF LedgerInv, LateIsSettling
<1>5. Counted(t, s)'
  <2>1. BackOf(t)' = BackOf(t) /\ SettledTotal(OrderOf[t])' = SettledTotal(OrderOf[t])
    BY RefundsStay, PaymentsStay
  <2> QED  BY <1>2, <2>1, CountedStays
<1>6. returned' \in [Returns -> DOMAIN RETURN_TRANSITIONS] /\ ReturnsAreTrue'
  BY DEF LedgerInv, LedgerTypeOK, ReturnsAreTrue
<1>7. ASSUME NEW u \in Transactions
      PROVE  \/ settling'[u] = settling[u] /\ (u \in late => u \in late')
             \/ u \notin late' /\ \A q \in settling'[u] : Counted(u, q)'
  <2>1. CASE u = t
    <3>1. \A q \in settling'[t] : q = s
      BY <1>3
    <3> QED  BY <1>4, <1>5, <2>1, <3>1
  <2>2. CASE u # t
    BY <1>3, <2>2
  <2> QED  BY <2>1, <2>2
<1> QED
  BY <1>3, <1>6, <1>7, QuietKeeps DEF LedgerInv, LedgerTypeOK, billing

LEMMA CountInKeeps ==
  ASSUME LedgerInv, NEW t \in Transactions, CountIn(t) PROVE LedgerInv'
<1> DEFINE d == OrderOf[t]
           old == PaymentsOf(d, {"completed"})
<1>1. /\ payment[t].status = "open" /\ settling[t] = {} /\ d \notin cash
      /\ TakeTotal(t, NoRefund, old \cup {t})
      /\ UNCHANGED <<cash, delivered, billing, payment, amountPaid, refund, returned, late, behind>>
  BY DEF CountIn
<1>2. AmountOf(old \cup {t}) = SettledTotal(d) + payment[t].amount /\ AmountOf(old \cup {t}) \in Nat
  <2>1. IsFiniteSet(old) /\ old \subseteq Transactions
    BY LedgerSets
  <2>6. t \notin old
    BY <1>1 DEF PaymentsOf
  <2>2. \A u \in Transactions : Paid[u] = payment[u].amount /\ Paid[u] \in Nat
    BY LedgerTypes DEF LedgerInv
  <2>3. /\ AmountOf(old \cup {t}) = SumFunctionOnSet(Paid, old \cup {t})
        /\ SettledTotal(d) = SumFunctionOnSet(Paid, old)
    BY SumsOfPayments DEF AmountOf, Paid
  <2> HIDE DEF old
  <2>4. SumFunctionOnSet(Paid, old \cup {t}) = Paid[t] + SumFunctionOnSet(Paid, old)
    <3>1. \A u \in old \cup {t} : Paid[u] \in Int
      BY <2>1, <2>2
    <3> QED  BY <2>1, <2>6, <3>1, SumPutsIn
  <2>5. SettledTotal(d) \in Nat
    BY SumsAreNatural DEF LedgerInv
  <2> QED  BY <2>2, <2>3, <2>4, <2>5
<1>3. Counted(t, [by |-> NoRefund, sum |-> AmountOf(old \cup {t})])
  BY <1>1, <1>2 DEF Counted
<1> QED
  BY <1>1, <1>2, <1>3, TakeTotalKeeps

(* What of a payment has gone back, with one more refund.                  *)
LEMMA BackWith ==
  ASSUME LedgerTypeOK, NEW r \in Refunds, NEW t \in Transactions, refund[r].status = "pending"
  PROVE  RefundedAmount(RefundsAmong({t}, {"completed"}) \cup {r}) = BackOf(t) + refund[r].amount
<1> DEFINE done == RefundsAmong({t}, {"completed"})
<1>1. IsFiniteSet(done) /\ done \subseteq Refunds /\ r \notin done
  BY LedgerSets DEF RefundsAmong
<1>2. \A q \in Refunds : Back[q] = refund[q].amount /\ Back[q] \in Nat
  BY LedgerTypes
<1>3. /\ RefundedAmount(done \cup {r}) = SumFunctionOnSet(Back, done \cup {r})
      /\ BackOf(t) = SumFunctionOnSet(Back, done)
  BY SumsOfRefunds DEF RefundedAmount, Back
<1> HIDE DEF done
<1>4. SumFunctionOnSet(Back, done \cup {r}) = Back[r] + SumFunctionOnSet(Back, done)
  <2>1. \A q \in done \cup {r} : Back[q] \in Int
    BY <1>1, <1>2
  <2> QED  BY <1>1, <2>1, SumPutsIn
<1>5. BackOf(t) \in Nat
  BY SumsAreNatural
<1>6. RefundedAmount(done \cup {r}) = BackOf(t) + refund[r].amount
  BY <1>2, <1>3, <1>4, <1>5
<1> QED
  BY <1>6 DEF done

LEMMA CountOutKeeps ==
  ASSUME LedgerInv, NEW r \in Refunds, CountOut(r) PROVE LedgerInv'
<1>1. refund[r].status = "pending" /\ refund[r].of \in Transactions
  BY DEF LedgerInv, RefundsAreOfPayments, CountOut
<1>2. PICK t \in Transactions : t = refund[r].of
  BY <1>1
<1> DEFINE d == OrderOf[t]
           all == PaymentsOf(d, {"completed"})
<1>3. /\ settling[t] = {} /\ payment[t].status = "completed"
      /\ RefundedAmount(RefundsAmong({t}, {"completed"}) \cup {r}) >= payment[t].amount
      /\ TakeTotal(t, r, all \ {t})
      /\ UNCHANGED <<cash, delivered, billing, payment, amountPaid, refund, returned, late, behind>>
  BY <1>2 DEF CountOut, PaidBack
<1>4. BackOf(t) + refund[r].amount >= payment[t].amount
  BY <1>1, <1>3, BackWith DEF LedgerInv
<1>5. AmountOf(all \ {t}) = SettledTotal(d) - payment[t].amount /\ AmountOf(all \ {t}) \in Nat
  <2>1. IsFiniteSet(all) /\ all \subseteq Transactions
    BY LedgerSets
  <2>6. t \in all
    BY <1>3 DEF PaymentsOf
  <2>2. \A u \in Transactions : Paid[u] = payment[u].amount /\ Paid[u] \in Nat
    BY LedgerTypes DEF LedgerInv
  <2>3. /\ AmountOf(all \ {t}) = SumFunctionOnSet(Paid, all \ {t})
        /\ SettledTotal(d) = SumFunctionOnSet(Paid, all)
    BY SumsOfPayments DEF AmountOf, Paid
  <2> HIDE DEF all
  <2>4. SumFunctionOnSet(Paid, all) = Paid[t] + SumFunctionOnSet(Paid, all \ {t})
    <3>1. \A u \in all : Paid[u] \in Int
      BY <2>1, <2>2
    <3> QED  BY <2>1, <2>6, <3>1, SumTakesOut
  <2>5. SumFunctionOnSet(Paid, all \ {t}) \in Nat
    <3>1. IsFiniteSet(all \ {t}) /\ \A u \in all \ {t} : Paid[u] \in Nat
      BY <2>1, <2>2, FS_Subset
    <3> QED  BY <3>1, SumIsNatural
  <2> QED  BY <2>2, <2>3, <2>4, <2>5
<1>6. r # NoRefund
  BY LedgerAssumption
<1>7. Counted(t, [by |-> r, sum |-> AmountOf(all \ {t})])
  <2> HIDE DEF all
  <2> QED  BY <1>1, <1>2, <1>3, <1>4, <1>5, <1>6 DEF Counted
<1> QED
  BY <1>3, <1>5, <1>7, TakeTotalKeeps

LEMMA RollBackKeeps ==
  ASSUME LedgerInv, NEW t \in Transactions, RollBack(t) PROVE LedgerInv'
<1>1. /\ settling' = [settling EXCEPT ![t] = {}] /\ late' = late \ {t}
      /\ UNCHANGED <<cash, delivered, split, claimed, payment, amountPaid, refund, returned, behind>>
  BY DEF RollBack, billing
<1>2. /\ settling' \in [Transactions -> SUBSET SettlingTypes]
      /\ settling'[t] = {} /\ \A u \in Transactions \ {t} : settling'[u] = settling[u]
  BY <1>1 DEF LedgerInv, LedgerTypeOK, SettlingTypes
<1>3. \A u \in Transactions :
        \/ settling'[u] = settling[u] /\ (u \in late => u \in late')
        \/ u \notin late' /\ \A q \in settling'[u] : Counted(u, q)'
  BY <1>1, <1>2
<1>4. returned' \in [Returns -> DOMAIN RETURN_TRANSITIONS] /\ ReturnsAreTrue'
  BY <1>1 DEF LedgerInv, LedgerTypeOK, ReturnsAreTrue
<1> QED
  BY <1>1, <1>2, <1>3, <1>4, QuietKeeps DEF LedgerInv, LedgerTypeOK

(* A demand opens: no money moves, and the payment had no settlement.      *)
LEMMA DemandKeeps ==
  ASSUME LedgerInv, NEW t \in Transactions, NEW a \in Nat, a > 0, Demand(t, a),
         split' \subseteq Orders, claimed' \subseteq Shares
  PROVE  LedgerInv'
<1> DEFINE d == OrderOf[t]
<1>1. /\ payment[t].status = "none"
      /\ payment' = [payment EXCEPT ![t] = [status |-> "open", amount |-> a]]
      /\ UNCHANGED <<cash, delivered, settling, amountPaid, refund, returned, late, behind>>
  BY DEF Demand, NextPayment, counting
<1>2. payment' \in [Transactions -> PaymentTypes]
      /\ \A u \in Transactions : payment'[u] = IF u = t THEN [status |-> "open", amount |-> a]
                                                        ELSE payment[u]
  BY <1>1 DEF LedgerInv, LedgerTypeOK, PaymentTypes
<1>3. ASSUME NEW o \in Orders
      PROVE  SettledTotal(o)' = SettledTotal(o) /\ EverCollected(o)' = EverCollected(o)
  <2>1. In(t, {"completed"}) = 0 /\ In(t, Kept) = 0 /\ In(t, {"completed"})' = 0 /\ In(t, Kept)' = 0
    BY <1>1, <1>2 DEF In, Kept
  <2>2. SettledTotal(o) \in Nat /\ EverCollected(o) \in Nat
    BY SumsAreNatural DEF LedgerInv
  <2>3. IF d = o
          THEN /\ SettledTotal(o)' = SettledTotal(o) - In(t, {"completed"}) + In(t, {"completed"})'
               /\ EverCollected(o)' = EverCollected(o) - In(t, Kept) + In(t, Kept)'
          ELSE /\ SettledTotal(o)' = SettledTotal(o)
               /\ EverCollected(o)' = EverCollected(o)
    BY <1>2, PaymentMoves DEF LedgerInv
  <2> QED  BY <2>1, <2>2, <2>3
<1>4. /\ \A o : AlreadyRefunded(o)' = AlreadyRefunded(o)
      /\ \A u : BackOf(u)' = BackOf(u)
  BY <1>1, RefundsStay
<1>5. LedgerTypeOK'
  BY <1>1, <1>2 DEF LedgerInv, LedgerTypeOK, PaymentTypes
<1>6. RefundsAreOfPayments' /\ ReturnsAreTrue'
  BY <1>1, <1>2 DEF LedgerInv, RefundsAreOfPayments, ReturnsAreTrue, Kept
<1>7. DemandsAreForMoney' /\ CashAtTheDoor' /\ LateIsSettling'
  BY <1>1, <1>2 DEF LedgerInv, DemandsAreForMoney, CashAtTheDoor, LateIsSettling, Kept
<1>8. RefundedWhenPaidBack'
  <2>1. \A u \in Transactions : payment[u].status \in {"completed", "refunded"} =>
          (payment[u].status = "refunded" <=> BackOf(u) >= payment[u].amount)
    BY DEF LedgerInv, RefundedWhenPaidBack, BackOf
  <2>2. \A u \in Transactions : payment'[u].status \in {"completed", "refunded"} =>
          payment'[u] = payment[u]
    BY <1>2
  <2>3. \A u \in Transactions : payment'[u].status \in {"completed", "refunded"} =>
          (payment'[u].status = "refunded" <=> BackOf(u)' >= payment'[u].amount)
    BY <1>4, <2>1, <2>2
  <2> QED  BY <2>3 DEF RefundedWhenPaidBack, BackOf
<1>9. SettlementsCounted'
  <2> SUFFICES ASSUME NEW u \in Transactions, NEW s \in settling'[u] PROVE Counted(u, s)'
    BY DEF SettlementsCounted
  <2>1. Counted(u, s)
    BY <1>1 DEF LedgerInv, SettlementsCounted
  <2>2. u # t
    BY <1>1, <2>1 DEF Counted
  <2>3. SettledTotal(OrderOf[u])' = SettledTotal(OrderOf[u]) /\ BackOf(u)' = BackOf(u)
    BY <1>3, <1>4, LedgerTypes
  <2> QED  BY <1>1, <1>2, <2>1, <2>2, <2>3, CountedStays
<1>10. ASSUME NEW o \in Orders PROVE Balanced(o)'
  BY <1>1, <1>3, <1>4 DEF LedgerInv, Balanced
<1> QED
  BY <1>5, <1>6, <1>7, <1>8, <1>9, <1>10 DEF LedgerInv

LEMMA InitiateKeeps ==
  ASSUME LedgerInv, NEW t \in Transactions, initiate(t) PROVE LedgerInv'
<1> DEFINE d == OrderOf[t]
<1>1. /\ SettledTotal(d) < Total[d] /\ Demand(t, Outstanding(d)) /\ UNCHANGED <<split, claimed>>
  BY DEF initiate, billing
<1>2. SettledTotal(d) \in Nat /\ Total[d] \in Nat
  BY SumsAreNatural, LedgerTypes DEF LedgerInv
<1>3. Outstanding(d) \in Nat /\ Outstanding(d) > 0
  BY <1>1, <1>2 DEF Outstanding
<1> QED
  BY <1>1, <1>3, DemandKeeps DEF LedgerInv, LedgerTypeOK

LEMMA PayShareKeeps ==
  ASSUME LedgerInv, NEW t \in Transactions, NEW s \in Shares, pay_share(t, s) PROVE LedgerInv'
<1>1. Demand(t, ShareAmount[s]) /\ claimed' = claimed \cup {s} /\ UNCHANGED split
  BY DEF pay_share
<1>2. ShareAmount[s] \in Nat /\ ShareAmount[s] > 0
  BY LedgerAssumption
<1> QED
  BY <1>1, <1>2, DemandKeeps DEF LedgerInv, LedgerTypeOK

(* A refund moves, and its payment stays: nothing it counts is under way.  *)
LEMMA RefundKeeps ==
  ASSUME LedgerInv, NEW r \in Refunds, NEW row \in RefundTypes,
         refund' = [refund EXCEPT ![r] = row], row.status # "none", row.of \in Transactions,
         payment[row.of].status \in Kept,
         refund[r].status = "completed" => row.status = "completed" /\ row.of = refund[r].of,
         UNCHANGED <<cash, delivered, split, claimed, payment, settling, amountPaid,
                     returned, late, behind>>,
         \A u \in Transactions : \A s \in settling[u] : s.by # r,
         \A u \in Transactions : BackOf(u)' = BackOf(u) \/ settling[u] = {},
         \A u \in Transactions : payment[u].status \in Kept =>
           (payment[u].status = "refunded" <=> BackOf(u)' >= payment[u].amount),
         \A o \in Orders : AlreadyRefunded(o)' <= EverCollected(o)
  PROVE  LedgerInv'
<1>1. refund' \in [Refunds -> RefundTypes] /\ refund'[r] = row
      /\ \A q \in Refunds \ {r} : refund'[q] = refund[q]
  BY DEF LedgerInv, LedgerTypeOK, RefundTypes
<1>2. \A o : SettledTotal(o)' = SettledTotal(o) /\ EverCollected(o)' = EverCollected(o)
  BY PaymentsStay
<1>3. LedgerTypeOK'
  BY <1>1 DEF LedgerInv, LedgerTypeOK, RefundTypes
<1>4. RefundsAreOfPayments'
  BY <1>1 DEF LedgerInv, RefundsAreOfPayments
<1>5. DemandsAreForMoney' /\ CashAtTheDoor' /\ LateIsSettling'
  BY DEF LedgerInv, DemandsAreForMoney, CashAtTheDoor, LateIsSettling
<1>6. SettlementsCounted'
  <2> SUFFICES ASSUME NEW u \in Transactions, NEW s \in settling'[u] PROVE Counted(u, s)'
    BY DEF SettlementsCounted
  <2>1. Counted(u, s) /\ s.by # r /\ BackOf(u)' = BackOf(u)
    BY DEF LedgerInv, SettlementsCounted
  <2>2. s.by # NoRefund => s.by \in Refunds
    BY DEF LedgerInv, LedgerTypeOK
  <2> QED  BY <1>1, <1>2, <2>1, <2>2, CountedStays
<1>7. RefundedWhenPaidBack'
  BY DEF RefundedWhenPaidBack, BackOf, Kept
<1>8. ReturnsAreTrue'
  BY <1>1 DEF LedgerInv, ReturnsAreTrue
<1>9. ASSUME NEW o \in Orders PROVE Balanced(o)'
  BY <1>2 DEF LedgerInv, Balanced
<1> QED
  BY <1>3, <1>4, <1>5, <1>6, <1>7, <1>8, <1>9 DEF LedgerInv

LEMMA RefundedSoFar ==
  ASSUME LedgerInv
  PROVE  /\ \A u \in Transactions : payment[u].status \in Kept =>
              (payment[u].status = "refunded" <=> BackOf(u) >= payment[u].amount)
         /\ \A u \in Transactions : \A s \in settling[u] : s.by # NoRefund =>
              refund[s.by].status = "pending" /\ refund[s.by].of = u
BY DEF LedgerInv, RefundedWhenPaidBack, BackOf, Kept, SettlementsCounted, Counted

LEMMA RequestRefundKeeps ==
  ASSUME LedgerInv, NEW r \in Refunds, NEW t \in Transactions, RequestRefund(r, t)
  PROVE  LedgerInv'
<1> DEFINE d == OrderOf[t]
<1>1. /\ refund[r].status = "none" /\ payment[t].status = "completed" /\ d \in Orders
      /\ UNCHANGED <<cash, delivered, split, claimed, payment, settling, amountPaid,
                     returned, late, behind>>
  BY LedgerTypes DEF RequestRefund, billing, counting
<1>2. PICK a \in 1..Total[d] :
        /\ Refundable(d, a)
        /\ refund' = [refund EXCEPT ![r] = [status |-> "pending", of |-> t, amount |-> a]]
  BY DEF RequestRefund
<1> DEFINE row == [status |-> "pending", of |-> t, amount |-> a]
<1>3. a \in Nat /\ AlreadyRefunded(d) + a <= SettledTotal(d)
  BY <1>1, <1>2, LedgerTypes DEF Refundable
<1>4. row \in RefundTypes /\ refund' \in [Refunds -> RefundTypes]
      /\ \A q \in Refunds : refund'[q] = IF q = r THEN row ELSE refund[q]
  BY <1>2, <1>3 DEF LedgerInv, LedgerTypeOK, RefundTypes
<1>5. ASSUME NEW o, NEW u
      PROVE  /\ AlreadyRefunded(o)' = AlreadyRefunded(o) + (IF o = d THEN a ELSE 0)
             /\ BackOf(u)' = BackOf(u)
  <2>1. AlreadyRefunded(o) \in Nat /\ BackOf(u) \in Nat
    BY SumsAreNatural DEF LedgerInv
  <2>2. /\ Out(r, OrderPayments(o), {"pending", "completed"}) = 0
        /\ Out(r, OrderPayments(o), {"pending", "completed"})' = IF o = d THEN a ELSE 0
        /\ Out(r, {u}, {"completed"}) = 0 /\ Out(r, {u}, {"completed"})' = 0
    BY <1>1, <1>4 DEF Out, OrderPayments
  <2>3. /\ AlreadyRefunded(o)' = AlreadyRefunded(o)
              - Out(r, OrderPayments(o), {"pending", "completed"})
              + Out(r, OrderPayments(o), {"pending", "completed"})'
        /\ BackOf(u)' = BackOf(u) - Out(r, {u}, {"completed"}) + Out(r, {u}, {"completed"})'
    BY <1>4, RefundMoves DEF LedgerInv
  <2> QED  BY <1>3, <2>1, <2>2, <2>3
<1>6. ASSUME NEW o \in Orders PROVE AlreadyRefunded(o)' <= EverCollected(o)
  <2>1. SettledTotal(o) \in Nat /\ EverCollected(o) \in Nat /\ AlreadyRefunded(o) \in Nat
        /\ SettledTotal(o) <= EverCollected(o) /\ AlreadyRefunded(o) <= EverCollected(o)
    BY SumsAreNatural DEF LedgerInv, Balanced
  <2> HIDE DEF d
  <2>2. CASE o = d
    BY <1>3, <1>5, <2>1, <2>2
  <2>3. CASE o # d
    BY <1>5, <2>1, <2>3
  <2> QED  BY <2>2, <2>3
<1>7. /\ \A u \in Transactions : \A s \in settling[u] : s.by # r
      /\ \A u \in Transactions : payment[u].status \in Kept =>
           (payment[u].status = "refunded" <=> BackOf(u)' >= payment[u].amount)
  <2>1. r # NoRefund
    BY LedgerAssumption
  <2> QED  BY <1>1, <1>5, <2>1, RefundedSoFar
<1>8. refund' = [refund EXCEPT ![r] = row] /\ row.status # "none" /\ row.of \in Transactions
      /\ payment[row.of].status \in Kept /\ refund[r].status # "completed"
  BY <1>1, <1>2 DEF Kept
<1> HIDE DEF row
<1> QED
  BY <1>1, <1>4, <1>5, <1>6, <1>7, <1>8, RefundKeeps

(* A pending refund is settled or abandoned.                               *)
LEMMA PendingRefund ==
  ASSUME LedgerInv, NEW r \in Refunds, refund[r].status = "pending",
         NEW status \in {"completed", "cancelled"},
         refund' = [refund EXCEPT ![r].status = status]
  PROVE  /\ refund' \in [Refunds -> RefundTypes] /\ refund'[r] \in RefundTypes
         /\ refund' = [refund EXCEPT ![r] = refund'[r]]
         /\ refund'[r].status = status /\ refund'[r].of = refund[r].of
         /\ refund[r].of \in Transactions /\ payment[refund[r].of].status \in Kept
         /\ \A q \in Refunds \ {r} : refund'[q] = refund[q]
         /\ refund[r].amount \in Nat
         /\ \A o : IF status = "completed" THEN AlreadyRefunded(o)' = AlreadyRefunded(o)
                                           ELSE AlreadyRefunded(o)' <= AlreadyRefunded(o)
         /\ \A o : AlreadyRefunded(o)' \in Int /\ AlreadyRefunded(o) \in Nat
         /\ \A u : BackOf(u) \in Nat /\ BackOf(u)' =
              IF status = "completed" /\ u = refund[r].of THEN BackOf(u) + refund[r].amount
                                                          ELSE BackOf(u)
<1>1. refund \in [Refunds -> RefundTypes]
  BY LedgerTypes DEF LedgerInv
<1>2. /\ refund' \in [Refunds -> RefundTypes] /\ refund[r].amount \in Nat
      /\ refund'[r].status = status /\ refund'[r].of = refund[r].of
      /\ refund'[r].amount = refund[r].amount
      /\ \A q \in Refunds \ {r} : refund'[q] = refund[q]
  BY <1>1 DEF RefundTypes
<1>3. refund[r].of \in Transactions /\ payment[refund[r].of].status \in Kept
  BY DEF LedgerInv, RefundsAreOfPayments
<1>4. refund'[r] \in RefundTypes /\ refund' = [refund EXCEPT ![r] = refund'[r]]
  BY <1>1, <1>2
<1>5. ASSUME NEW o
      PROVE  /\ AlreadyRefunded(o)' \in Int /\ AlreadyRefunded(o) \in Nat
             /\ IF status = "completed" THEN AlreadyRefunded(o)' = AlreadyRefunded(o)
                                        ELSE AlreadyRefunded(o)' <= AlreadyRefunded(o)
  <2> DEFINE ts == OrderPayments(o)
             st == {"pending", "completed"}
  <2>1. AlreadyRefunded(o) \in Nat
    BY SumsAreNatural DEF LedgerInv
  <2>2. /\ Out(r, ts, st) \in Nat /\ Out(r, ts, st)' \in Nat /\ Out(r, ts, st)' <= Out(r, ts, st)
        /\ status = "completed" => Out(r, ts, st)' = Out(r, ts, st)
    <3>1. Out(r, ts, st) = IF refund[r].of \in ts THEN refund[r].amount ELSE 0
      BY DEF Out
    <3>2. Out(r, ts, st)' = IF status = "completed" /\ refund[r].of \in ts
                              THEN refund[r].amount ELSE 0
      BY <1>2 DEF Out, OrderPayments
    <3> QED  BY <1>2, <3>1, <3>2
  <2>3. AlreadyRefunded(o)' = AlreadyRefunded(o) - Out(r, ts, st) + Out(r, ts, st)'
    BY <1>2, RefundMoves DEF LedgerInv
  <2> HIDE DEF ts, st
  <2> QED  BY <2>1, <2>2, <2>3
<1>6. ASSUME NEW u
      PROVE  BackOf(u) \in Nat /\ BackOf(u)' =
               IF status = "completed" /\ u = refund[r].of THEN BackOf(u) + refund[r].amount
                                                           ELSE BackOf(u)
  <2>1. BackOf(u) \in Nat
    BY SumsAreNatural DEF LedgerInv
  <2>2. /\ Out(r, {u}, {"completed"}) = 0
        /\ Out(r, {u}, {"completed"})' = IF status = "completed" /\ u = refund[r].of
                                           THEN refund[r].amount ELSE 0
    BY <1>2 DEF Out
  <2>3. BackOf(u)' = BackOf(u) - Out(r, {u}, {"completed"}) + Out(r, {u}, {"completed"})'
    BY <1>2, RefundMoves DEF LedgerInv
  <2> QED  BY <1>2, <2>1, <2>2, <2>3
<1> QED
  BY <1>2, <1>3, <1>4, <1>5, <1>6

LEMMA CancelRefundKeeps ==
  ASSUME LedgerInv, NEW r \in Refunds, CancelRefund(r) PROVE LedgerInv'
<1>1. /\ refund[r].status = "pending" /\ refund' = [refund EXCEPT ![r].status = "cancelled"]
      /\ \A s \in settling[refund[r].of] : s.by # r
      /\ UNCHANGED <<cash, delivered, split, claimed, payment, settling, amountPaid,
                     returned, late, behind>>
  BY DEF CancelRefund, billing, counting
<1>2. /\ refund'[r] \in RefundTypes /\ refund' = [refund EXCEPT ![r] = refund'[r]]
      /\ refund'[r].status = "cancelled" /\ refund'[r].of \in Transactions
      /\ payment[refund'[r].of].status \in Kept
      /\ \A o : AlreadyRefunded(o)' <= AlreadyRefunded(o)
      /\ \A o : AlreadyRefunded(o)' \in Int /\ AlreadyRefunded(o) \in Nat
      /\ \A u : BackOf(u)' = BackOf(u)
  BY <1>1, PendingRefund
<1>3. ASSUME NEW o \in Orders PROVE AlreadyRefunded(o)' <= EverCollected(o)
  <2>1. EverCollected(o) \in Nat /\ AlreadyRefunded(o) <= EverCollected(o)
    BY SumsAreNatural DEF LedgerInv, Balanced
  <2> QED  BY <1>2, <2>1
<1>4. \A u \in Transactions : \A s \in settling[u] : s.by # r
  <2>1. r # NoRefund
    BY LedgerAssumption
  <2> QED  BY <1>1, <2>1, RefundedSoFar
<1>5. \A u \in Transactions : payment[u].status \in Kept =>
        (payment[u].status = "refunded" <=> BackOf(u)' >= payment[u].amount)
  BY <1>2, RefundedSoFar
<1>6. PICK row \in RefundTypes : row = refund'[r]
  BY <1>2
<1> QED
  BY <1>1, <1>2, <1>3, <1>4, <1>5, <1>6, RefundKeeps

LEMMA SettleRefundKeeps ==
  ASSUME LedgerInv, NEW r \in Refunds, SettleRefund(r) PROVE LedgerInv'
<1>1. /\ refund[r].status = "pending" /\ refund' = [refund EXCEPT ![r].status = "completed"]
      /\ settling[refund[r].of] = {} /\ ~PaidBack(refund[r].of, r)
      /\ UNCHANGED <<cash, delivered, split, claimed, payment, settling, amountPaid,
                     returned, late, behind>>
  BY DEF SettleRefund, billing, counting
<1>2. /\ refund'[r] \in RefundTypes /\ refund' = [refund EXCEPT ![r] = refund'[r]]
      /\ refund'[r].status = "completed" /\ refund'[r].of = refund[r].of
      /\ refund[r].of \in Transactions /\ payment[refund[r].of].status \in Kept
      /\ \A o : AlreadyRefunded(o)' = AlreadyRefunded(o)
      /\ \A u : BackOf(u) \in Nat /\ BackOf(u)' =
           IF u = refund[r].of THEN BackOf(u) + refund[r].amount ELSE BackOf(u)
      /\ refund[r].amount \in Nat
  BY <1>1, PendingRefund
<1>3. \A o \in Orders : AlreadyRefunded(o)' <= EverCollected(o)
  BY <1>2 DEF LedgerInv, Balanced
<1>4. \A u \in Transactions : \A s \in settling[u] : s.by # r
  <2>1. r # NoRefund
    BY LedgerAssumption
  <2> QED  BY <1>1, <2>1, RefundedSoFar
<1>5. ASSUME NEW u \in Transactions, payment[u].status \in Kept
      PROVE  payment[u].status = "refunded" <=> BackOf(u)' >= payment[u].amount
  <2>1. payment[u].status = "refunded" <=> BackOf(u) >= payment[u].amount
    BY <1>5, RefundedSoFar
  <2>2. payment[u].amount \in Nat
    BY LedgerTypes DEF LedgerInv, PaymentTypes
  <2>3. CASE u # refund[r].of
    BY <1>2, <2>1, <2>3
  <2>4. CASE u = refund[r].of
    <3>1. CASE payment[u].status = "completed"
      <4>1. RefundedAmount(RefundsAmong({u}, {"completed"}) \cup {r}) = BackOf(u) + refund[r].amount
        BY <1>1, BackWith DEF LedgerInv
      <4>2. ~(BackOf(u) + refund[r].amount >= payment[u].amount)
        BY <1>1, <2>4, <3>1, <4>1 DEF PaidBack
      <4> QED  BY <1>2, <2>4, <3>1, <4>2
    <3>2. CASE payment[u].status = "refunded"
      <4>1. BackOf(u)' = BackOf(u) + refund[r].amount /\ BackOf(u) \in Nat
        BY <1>2, <2>4
      <4> QED  BY <1>2, <2>1, <2>2, <3>2, <4>1
    <3> QED  BY <1>5, <3>1, <3>2 DEF Kept
  <2> QED  BY <2>3, <2>4
<1>6. PICK row \in RefundTypes : row = refund'[r]
  BY <1>2
<1>7. \A u \in Transactions : BackOf(u)' = BackOf(u) \/ settling[u] = {}
  BY <1>1, <1>2
<1> QED
  BY <1>1, <1>2, <1>3, <1>4, <1>5, <1>6, <1>7, RefundKeeps

(* A payment comes in: nothing of it was given back.                       *)
LEMMA PaymentComesIn ==
  ASSUME LedgerInv, NEW t \in Transactions, payment[t].status \in {"none", "open"},
         NEW a \in Nat, a > 0,
         payment' = [payment EXCEPT ![t] = [status |-> "completed", amount |-> a]],
         UNCHANGED <<refund, returned>>
  PROVE  RefundsAreOfPayments' /\ RefundedWhenPaidBack' /\ ReturnsAreTrue'
<1>1. \A u \in Transactions : payment'[u] = IF u = t THEN [status |-> "completed", amount |-> a]
                                                      ELSE payment[u]
  BY DEF LedgerInv, LedgerTypeOK
<1>2. RefundsAreOfPayments'
  BY <1>1 DEF LedgerInv, RefundsAreOfPayments, Kept
<1>3. RefundedWhenPaidBack'
  <2>1. BackOf(t) = 0
    <3>1. RefundsAmong({t}, {"completed"}) = {}
      BY DEF LedgerInv, RefundsAreOfPayments, Kept, RefundsAmong
    <3> QED  BY <3>1, SumOfNone, SumsOfRefunds
  <2>2. \A u : BackOf(u)' = BackOf(u)
    BY RefundsStay
  <2>3. \A u \in Transactions : payment[u].status \in {"completed", "refunded"} =>
          (payment[u].status = "refunded" <=> BackOf(u) >= payment[u].amount)
    BY DEF LedgerInv, RefundedWhenPaidBack, BackOf
  <2>4. \A u \in Transactions : payment'[u].status \in {"completed", "refunded"} =>
          (payment'[u].status = "refunded" <=> BackOf(u)' >= payment'[u].amount)
    <3> SUFFICES ASSUME NEW u \in Transactions, payment'[u].status \in {"completed", "refunded"}
                 PROVE  payment'[u].status = "refunded" <=> BackOf(u)' >= payment'[u].amount
      OBVIOUS
    <3>1. CASE u = t
      BY <1>1, <2>1, <2>2, <3>1
    <3>2. CASE u # t
      BY <1>1, <2>2, <2>3, <3>2
    <3> QED  BY <3>1, <3>2
  <2> QED  BY <2>4 DEF RefundedWhenPaidBack, BackOf
<1>4. ReturnsAreTrue'
  BY DEF LedgerInv, ReturnsAreTrue
<1> QED
  BY <1>2, <1>3, <1>4

(* What writing the sum of a settlement leaves behind it.                  *)
LEMMA ReportGives ==
  ASSUME LedgerInv, NEW t \in Transactions, NEW n \in Nat, report_settled_total(t, n)
  PROVE  /\ amountPaid' \in [Orders -> Nat] /\ amountPaid'[OrderOf[t]] = n
         /\ \A o \in Orders \ {OrderOf[t]} : amountPaid'[o] = amountPaid[o]
         /\ settling' \in [Transactions -> SUBSET SettlingTypes]
         /\ \A u \in Transactions : settling'[u] = IF u = t THEN {} ELSE settling[u]
         /\ late' \subseteq Transactions
         /\ \A u \in Transactions : u \in late' <=>
              u # t /\ (u \in late \/ (OrderOf[u] = OrderOf[t] /\ settling[u] # {}))
         /\ behind' \subseteq Orders
         /\ \A o \in Orders : o \in behind' <=>
              IF o = OrderOf[t] THEN t \in late ELSE o \in behind
<1>1. OrderOf[t] \in Orders
  BY LedgerTypes
<1> QED
  BY <1>1 DEF LedgerInv, LedgerTypeOK, SettlingTypes, report_settled_total, Settling

(* A payment comes in: by a provider, or in cash at the door.              *)
LEMMA ComesInKeeps ==
  ASSUME LedgerInv, NEW t \in Transactions, payment[t].status \in {"none", "open"},
         NEW a \in Nat, a > 0,
         payment' = [payment EXCEPT ![t] = [status |-> "completed", amount |-> a]],
         NEW n \in Nat, report_settled_total(t, n),
         t \notin late => n = SettledTotal(OrderOf[t]) + a,
         UNCHANGED <<cash, split, claimed, refund, returned>>,
         IF OrderOf[t] \in cash
           THEN /\ OrderOf[t] \notin delivered /\ delivered' = delivered \cup {OrderOf[t]}
                /\ a = Total[OrderOf[t]]
           ELSE UNCHANGED delivered
  PROVE  LedgerInv'
<1>1. PICK d \in Orders : d = OrderOf[t]
  BY LedgerTypes
<1>2. payment' \in [Transactions -> PaymentTypes]
      /\ \A u \in Transactions : payment'[u] = IF u = t THEN [status |-> "completed", amount |-> a]
                                                        ELSE payment[u]
  BY DEF LedgerInv, LedgerTypeOK, PaymentTypes
<1>3. ASSUME NEW o \in Orders
      PROVE  /\ SettledTotal(o)' = SettledTotal(o) + (IF o = d THEN a ELSE 0)
             /\ EverCollected(o)' = EverCollected(o) + (IF o = d THEN a ELSE 0)
             /\ SettledTotal(o) \in Nat /\ EverCollected(o) \in Nat /\ AlreadyRefunded(o) \in Nat
  <2>1. SettledTotal(o) \in Nat /\ EverCollected(o) \in Nat /\ AlreadyRefunded(o) \in Nat
    BY SumsAreNatural DEF LedgerInv
  <2>2. /\ In(t, {"completed"}) = 0 /\ In(t, Kept) = 0
        /\ In(t, {"completed"})' = a /\ In(t, Kept)' = a
    BY <1>2 DEF In, Kept
  <2>3. IF d = o
          THEN /\ SettledTotal(o)' = SettledTotal(o) - In(t, {"completed"}) + In(t, {"completed"})'
               /\ EverCollected(o)' = EverCollected(o) - In(t, Kept) + In(t, Kept)'
          ELSE /\ SettledTotal(o)' = SettledTotal(o)
               /\ EverCollected(o)' = EverCollected(o)
    BY <1>1, <1>2, PaymentMoves DEF LedgerInv
  <2> QED  BY <2>1, <2>2, <2>3
<1>4. /\ \A o : AlreadyRefunded(o)' = AlreadyRefunded(o)
      /\ \A u : BackOf(u)' = BackOf(u)
  BY RefundsStay
<1>5. /\ amountPaid' \in [Orders -> Nat] /\ amountPaid'[d] = n
      /\ \A o \in Orders \ {d} : amountPaid'[o] = amountPaid[o]
      /\ settling' \in [Transactions -> SUBSET SettlingTypes]
      /\ \A u \in Transactions : settling'[u] = IF u = t THEN {} ELSE settling[u]
      /\ late' \subseteq Transactions
      /\ \A u \in Transactions : u \in late' <=>
           u # t /\ (u \in late \/ (OrderOf[u] = d /\ settling[u] # {}))
      /\ behind' \subseteq Orders
      /\ \A o \in Orders : o \in behind' <=> IF o = d THEN t \in late ELSE o \in behind
  BY <1>1, ReportGives
<1>6. LedgerTypeOK'
  <2>1. delivered' \subseteq Orders
    BY <1>1 DEF LedgerInv, LedgerTypeOK
  <2> QED  BY <1>2, <1>5, <2>1 DEF LedgerInv, LedgerTypeOK, PaymentTypes, SettlingTypes
<1>7. RefundsAreOfPayments' /\ RefundedWhenPaidBack' /\ ReturnsAreTrue'
  <2>1. UNCHANGED <<refund, returned>>
    OBVIOUS
  <2> QED  BY <2>1, PaymentComesIn
<1>8. DemandsAreForMoney'
  BY <1>2 DEF LedgerInv, DemandsAreForMoney
<1>9. CashAtTheDoor'
  <2>1. CASE d \in cash
    <3>1. d \notin delivered /\ d \in delivered' /\ delivered \subseteq delivered'
      BY <1>1, <2>1
    <3>2. \A u \in Transactions : payment[u].status \in Kept => OrderOf[u] # d
      BY <2>1, <3>1 DEF LedgerInv, CashAtTheDoor
    <3> QED  BY <1>1, <1>2, <3>1, <3>2 DEF LedgerInv, CashAtTheDoor
  <2>2. CASE d \notin cash
    BY <1>1, <1>2, <2>2 DEF LedgerInv, CashAtTheDoor, Kept
  <2> QED  BY <2>1, <2>2
<1>10. SettlementsCounted'
  <2> SUFFICES ASSUME NEW u \in Transactions, NEW s \in settling'[u] PROVE Counted(u, s)'
    BY DEF SettlementsCounted
  <2>1. u # t /\ settling[u] # {} /\ Counted(u, s)
    BY <1>5 DEF LedgerInv, SettlementsCounted
  <2>2. u \notin late' => u \notin late /\ SettledTotal(OrderOf[u])' = SettledTotal(OrderOf[u])
    <3> SUFFICES ASSUME u \notin late'
                 PROVE  u \notin late /\ SettledTotal(OrderOf[u])' = SettledTotal(OrderOf[u])
      OBVIOUS
    <3>1. u \notin late /\ OrderOf[u] # d
      BY <1>5, <2>1
    <3>2. PICK o \in Orders : o = OrderOf[u]
      BY LedgerTypes
    <3>3. SettledTotal(o)' = SettledTotal(o)
      BY <1>3, <3>1, <3>2
    <3> QED  BY <3>1, <3>2, <3>3
  <2>3. payment'[u] = payment[u] /\ BackOf(u)' = BackOf(u)
    BY <1>2, <1>4, <2>1
  <2> QED  BY <2>1, <2>2, <2>3, CountedStays
<1>11. LateIsSettling'
  <2> SUFFICES ASSUME NEW u \in late' PROVE settling'[u] # {} /\ OrderOf[u] \notin cash
    BY DEF LateIsSettling
  <2>1. u \in Transactions /\ u # t /\ settling'[u] = settling[u]
    BY <1>5
  <2>2. CASE u \in late
    BY <2>1, <2>2 DEF LedgerInv, LateIsSettling
  <2>3. CASE OrderOf[u] = d /\ settling[u] # {}
    <3>1. PICK s \in settling[u] : Counted(u, s)
      BY <2>1, <2>3 DEF LedgerInv, SettlementsCounted
    <3>2. payment[u].status = "completed" \/ OrderOf[u] \notin cash
      BY <3>1 DEF Counted
    <3>3. d \notin cash
      BY <1>1, <2>1, <2>3, <3>2 DEF LedgerInv, CashAtTheDoor, Kept
    <3> QED  BY <2>1, <2>3, <3>3
  <2> QED  BY <1>5, <2>1, <2>2, <2>3
<1>12. ASSUME NEW o \in Orders PROVE Balanced(o)'
  <2>1. Balanced(o) /\ Total[o] \in Nat
    BY LedgerTypes DEF LedgerInv
  <2>2. CASE o # d
    <3>1. o \in delivered' <=> o \in delivered
      BY <1>1, <2>2
    <3> QED  BY <1>3, <1>4, <1>5, <2>1, <2>2, <3>1 DEF Balanced
  <2>3. CASE o = d
    <3>1. /\ SettledTotal(o)' = SettledTotal(o) + a /\ EverCollected(o)' = EverCollected(o) + a
          /\ SettledTotal(o) \in Nat /\ EverCollected(o) \in Nat /\ AlreadyRefunded(o) \in Nat
          /\ AlreadyRefunded(o)' = AlreadyRefunded(o) /\ amountPaid'[o] = n
          /\ o \in behind' <=> t \in late
      BY <1>3, <1>4, <1>5, <2>3
    <3>2. o \notin behind' => amountPaid'[o] = SettledTotal(o)'
      BY <1>1, <2>3, <3>1
    <3>3. AlreadyRefunded(o)' <= EverCollected(o)'
      BY <2>1, <3>1 DEF Balanced
    <3>4. o \in cash => o \notin behind' /\ o \in delivered' /\ EverCollected(o)' = Total[o]
      <4> SUFFICES ASSUME o \in cash
                   PROVE  o \notin behind' /\ o \in delivered' /\ EverCollected(o)' = Total[o]
        OBVIOUS
      <4>1. t \notin late
        BY <1>1, <2>3 DEF LedgerInv, LateIsSettling
      <4>2. o \notin delivered /\ o \in delivered' /\ a = Total[o]
        BY <1>1, <2>3
      <4>3. EverCollected(o) = 0
        BY <2>1, <4>2 DEF Balanced
      <4> QED  BY <2>1, <3>1, <4>1, <4>2, <4>3
    <3> QED  BY <3>2, <3>3, <3>4 DEF Balanced
  <2> QED  BY <2>2, <2>3
<1> QED
  BY <1>6, <1>7, <1>8, <1>9, <1>10, <1>11, <1>12 DEF LedgerInv

LEMMA CollectKeeps ==
  ASSUME LedgerInv, NEW t \in Transactions, Collect(t) PROVE LedgerInv'
<1>1. PICK s \in settling[t] : s.by = NoRefund /\ report_settled_total(t, s.sum)
  BY DEF Collect
<1>2. /\ payment' = [payment EXCEPT ![t].status = "completed"]
      /\ UNCHANGED <<cash, delivered, split, claimed, refund, returned>>
  BY DEF Collect, billing
<1>3. /\ payment[t].status = "open" /\ OrderOf[t] \notin cash
      /\ t \notin late => s.sum = SettledTotal(OrderOf[t]) + payment[t].amount
  BY <1>1 DEF LedgerInv, SettlementsCounted, Counted
<1>4. payment[t] \in PaymentTypes /\ s.sum \in Nat
  BY LedgerTypes DEF LedgerInv, LedgerTypeOK
<1>5. PICK a \in Nat : a = payment[t].amount
  BY <1>4 DEF PaymentTypes
<1>6. a > 0
  BY <1>3, <1>5 DEF LedgerInv, DemandsAreForMoney
<1>7. payment' = [payment EXCEPT ![t] = [status |-> "completed", amount |-> a]]
  <2>1. [payment[t] EXCEPT !.status = "completed"] = [status |-> "completed", amount |-> a]
    BY <1>4, <1>5 DEF PaymentTypes
  <2>2. payment' = [payment EXCEPT ![t] = [payment[t] EXCEPT !.status = "completed"]]
    BY <1>2
  <2> QED  BY <2>1, <2>2
<1>8. PICK n \in Nat : n = s.sum
  BY <1>4
<1> QED
  BY <1>1, <1>2, <1>3, <1>5, <1>6, <1>7, <1>8, ComesInKeeps

LEMMA HandOverKeeps ==
  ASSUME LedgerInv, NEW d \in Orders, HandOver(d) PROVE LedgerInv'
<1>1. /\ d \notin delivered /\ delivered' = delivered \cup {d}
      /\ UNCHANGED <<cash, split, claimed, refund, returned>>
      /\ d \in cash /\ SettledTotal(d) < Total[d] =>
           \E t \in Transactions :
              /\ CashPayment(t, d)
              /\ payment' = [payment EXCEPT ![t] =
                               [status |-> "completed", amount |-> Outstanding(d)]]
              /\ report_settled_total(t, SettledTotal(d)')
      /\ ~(d \in cash /\ SettledTotal(d) < Total[d]) =>
           UNCHANGED <<payment, settling, amountPaid, late, behind>>
  BY DEF HandOver, billing, counting
<1>2. CASE d \in cash
  <2>1. SettledTotal(d) = 0 /\ Total[d] \in Nat /\ Total[d] > 0 /\ Outstanding(d) = Total[d]
    <3>1. SettledTotal(d) \in Nat /\ SettledTotal(d) <= EverCollected(d) /\ EverCollected(d) = 0
      BY <1>1, <1>2, SumsAreNatural DEF LedgerInv, Balanced
    <3> QED  BY <3>1, LedgerTypes DEF Outstanding
  <2>2. PICK t \in Transactions :
          /\ CashPayment(t, d)
          /\ payment' = [payment EXCEPT ![t] =
                           [status |-> "completed", amount |-> Outstanding(d)]]
          /\ report_settled_total(t, SettledTotal(d)')
    BY <1>1, <1>2, <2>1
  <2>3. OrderOf[t] = d /\ payment[t].status \in {"none", "open"}
    BY <2>2 DEF CashPayment, OpenForAll, PaymentsOf, NextPayment
  <2>4. PICK a \in Nat : a = Total[d]
    BY <2>1
  <2>5. /\ payment' = [payment EXCEPT ![t] = [status |-> "completed", amount |-> a]]
        /\ payment' \in [Transactions -> PaymentTypes]
        /\ \A u \in Transactions : payment'[u] =
             IF u = t THEN [status |-> "completed", amount |-> a] ELSE payment[u]
    BY <2>1, <2>2, <2>4 DEF LedgerInv, LedgerTypeOK, PaymentTypes
  <2>6. SettledTotal(d)' = a
    <3>1. SettledTotal(d)' = SettledTotal(d) - In(t, {"completed"}) + In(t, {"completed"})'
      BY <2>3, <2>5, PaymentMoves DEF LedgerInv
    <3>2. In(t, {"completed"}) = 0 /\ In(t, {"completed"})' = a
      BY <2>3, <2>5 DEF In
    <3> QED  BY <2>1, <3>1, <3>2
  <2>7. report_settled_total(t, a) /\ a > 0 /\ a = SettledTotal(OrderOf[t]) + a
    BY <2>1, <2>2, <2>3, <2>4, <2>6
  <2> QED  BY <1>1, <1>2, <2>3, <2>4, <2>5, <2>7, ComesInKeeps
<1>3. CASE d \notin cash
  <2>1. UNCHANGED <<cash, split, claimed, payment, settling, amountPaid, refund, returned, late, behind>>
    BY <1>1, <1>3
  <2>2. /\ settling' \in [Transactions -> SUBSET SettlingTypes]
        /\ returned' \in [Returns -> DOMAIN RETURN_TRANSITIONS] /\ ReturnsAreTrue'
    BY <2>1 DEF LedgerInv, LedgerTypeOK, SettlingTypes, ReturnsAreTrue
  <2> QED  BY <1>1, <1>3, <2>1, <2>2, QuietKeeps DEF LedgerInv, LedgerTypeOK
<1> QED
  BY <1>2, <1>3

(* The last refund of a payment settles: the payment leaves what is in.    *)
LEMMA PayBackKeeps ==
  ASSUME LedgerInv, NEW r \in Refunds, PayBack(r) PROVE LedgerInv'
<1>1. refund[r].status = "pending" /\ refund[r].of \in Transactions /\ r # NoRefund
  BY LedgerAssumption DEF LedgerInv, RefundsAreOfPayments, PayBack
<1>2. PICK t \in Transactions : t = refund[r].of
  BY <1>1
<1>3. PICK d \in Orders : d = OrderOf[t]
  BY LedgerTypes
<1>4. PICK s \in settling[t] : s.by = r /\ report_settled_total(t, s.sum)
  BY <1>2 DEF PayBack
<1>5. /\ refund' = [refund EXCEPT ![r].status = "completed"]
      /\ payment' = [payment EXCEPT ![t].status = "refunded"]
      /\ UNCHANGED <<cash, delivered, split, claimed, returned>>
  BY <1>2 DEF PayBack, billing
<1>6. /\ payment[t].status = "completed" /\ BackOf(t) + refund[r].amount >= payment[t].amount
      /\ t \notin late => s.sum = SettledTotal(d) - payment[t].amount
  BY <1>1, <1>3, <1>4 DEF LedgerInv, SettlementsCounted, Counted
<1>7. PICK n \in Nat : n = s.sum
  BY <1>4 DEF LedgerInv, LedgerTypeOK
<1>8. /\ payment' \in [Transactions -> PaymentTypes] /\ payment[t].amount \in Nat
      /\ payment'[t].status = "refunded" /\ payment'[t].amount = payment[t].amount
      /\ \A u \in Transactions \ {t} : payment'[u] = payment[u]
  <2>1. payment \in [Transactions -> PaymentTypes]
    BY LedgerTypes DEF LedgerInv
  <2> QED  BY <1>5, <2>1 DEF PaymentTypes
<1>9. /\ refund' \in [Refunds -> RefundTypes] /\ refund[r].amount \in Nat
      /\ refund'[r].status = "completed" /\ refund'[r].of = t
      /\ \A q \in Refunds \ {r} : refund'[q] = refund[q]
      /\ \A o : AlreadyRefunded(o)' = AlreadyRefunded(o)
      /\ \A u : BackOf(u) \in Nat /\ BackOf(u)' =
           IF u = t THEN BackOf(u) + refund[r].amount ELSE BackOf(u)
  BY <1>1, <1>2, <1>5, PendingRefund
<1>10. ASSUME NEW o \in Orders
       PROVE  /\ SettledTotal(o)' = IF o = d THEN SettledTotal(o) - payment[t].amount
                                             ELSE SettledTotal(o)
              /\ EverCollected(o)' = EverCollected(o)
              /\ SettledTotal(o) \in Nat
  <2>1. SettledTotal(o) \in Nat /\ EverCollected(o) \in Nat
    BY SumsAreNatural DEF LedgerInv
  <2>2. /\ In(t, Kept) = payment[t].amount /\ In(t, Kept)' = payment[t].amount
        /\ In(t, {"completed"}) = payment[t].amount /\ In(t, {"completed"})' = 0
    BY <1>6, <1>8 DEF In, Kept
  <2>3. IF d = o
          THEN /\ SettledTotal(o)' = SettledTotal(o) - In(t, {"completed"}) + In(t, {"completed"})'
               /\ EverCollected(o)' = EverCollected(o) - In(t, Kept) + In(t, Kept)'
          ELSE /\ SettledTotal(o)' = SettledTotal(o)
               /\ EverCollected(o)' = EverCollected(o)
    BY <1>3, <1>8, PaymentMoves DEF LedgerInv
  <2> QED  BY <1>8, <2>1, <2>2, <2>3
<1>11. /\ amountPaid' \in [Orders -> Nat] /\ amountPaid'[d] = n
       /\ \A o \in Orders \ {d} : amountPaid'[o] = amountPaid[o]
       /\ settling' \in [Transactions -> SUBSET SettlingTypes]
       /\ \A u \in Transactions : settling'[u] = IF u = t THEN {} ELSE settling[u]
       /\ late' \subseteq Transactions
       /\ \A u \in Transactions : u \in late' <=>
            u # t /\ (u \in late \/ (OrderOf[u] = d /\ settling[u] # {}))
       /\ behind' \subseteq Orders
       /\ \A o \in Orders : o \in behind' <=> IF o = d THEN t \in late ELSE o \in behind
  BY <1>3, <1>4, <1>7, ReportGives
<1>12. LedgerTypeOK'
  BY <1>5, <1>8, <1>9, <1>11 DEF LedgerInv, LedgerTypeOK, PaymentTypes, RefundTypes, SettlingTypes
<1>13. RefundsAreOfPayments'
  BY <1>6, <1>8, <1>9 DEF LedgerInv, RefundsAreOfPayments, Kept
<1>14. DemandsAreForMoney' /\ CashAtTheDoor'
  <2>1. /\ \A u \in Transactions : payment[u].status \in Kept <=> payment'[u].status \in Kept
        /\ \A u \in Transactions : payment[u].status # "none" <=> payment'[u].status # "none"
        /\ \A u \in Transactions : payment'[u].amount = payment[u].amount
    BY <1>6, <1>8 DEF Kept
  <2> QED  BY <1>5, <2>1 DEF LedgerInv, DemandsAreForMoney, CashAtTheDoor
<1>15. ReturnsAreTrue'
  BY <1>1, <1>2, <1>5, <1>9 DEF LedgerInv, ReturnsAreTrue
<1>16. RefundedWhenPaidBack'
  <2>1. \A u \in Transactions \ {t} : BackOf(u)' = BackOf(u) /\ payment'[u] = payment[u]
    BY <1>8, <1>9
  <2>2. BackOf(t)' >= payment'[t].amount
    BY <1>6, <1>8, <1>9
  <2>3. \A u \in Transactions : payment'[u].status \in Kept =>
          (payment'[u].status = "refunded" <=> BackOf(u)' >= payment'[u].amount)
    BY <1>8, <2>1, <2>2, RefundedSoFar
  <2> QED  BY <2>3 DEF RefundedWhenPaidBack, BackOf, Kept
<1>17. SettlementsCounted'
  <2> SUFFICES ASSUME NEW u \in Transactions, NEW q \in settling'[u] PROVE Counted(u, q)'
    BY DEF SettlementsCounted
  <2>1. u # t /\ settling[u] # {} /\ Counted(u, q)
    BY <1>11 DEF LedgerInv, SettlementsCounted
  <2>2. u \notin late' => u \notin late /\ SettledTotal(OrderOf[u])' = SettledTotal(OrderOf[u])
    <3> SUFFICES ASSUME u \notin late'
                 PROVE  u \notin late /\ SettledTotal(OrderOf[u])' = SettledTotal(OrderOf[u])
      OBVIOUS
    <3>1. u \notin late /\ OrderOf[u] # d
      BY <1>11, <2>1
    <3>2. PICK o \in Orders : o = OrderOf[u]
      BY LedgerTypes
    <3>3. SettledTotal(o)' = SettledTotal(o)
      BY <1>10, <3>1, <3>2
    <3> QED  BY <3>1, <3>2, <3>3
  <2>3. payment'[u] = payment[u] /\ BackOf(u)' = BackOf(u)
    BY <1>8, <1>9, <2>1
  <2>4. q.by # NoRefund => refund'[q.by] = refund[q.by]
    <3>1. q.by # NoRefund => q.by \in Refunds /\ refund[q.by].of = u
      BY <1>11, <2>1 DEF LedgerInv, LedgerTypeOK, Counted
    <3> QED  BY <1>2, <1>9, <2>1, <3>1
  <2> QED  BY <1>5, <2>1, <2>2, <2>3, <2>4, CountedStays
<1>18. LateIsSettling'
  <2> SUFFICES ASSUME NEW u \in late' PROVE settling'[u] # {} /\ OrderOf[u] \notin cash
    BY <1>5 DEF LateIsSettling
  <2>1. u \in Transactions /\ u # t /\ settling'[u] = settling[u]
    BY <1>11
  <2>2. CASE u \in late
    BY <2>1, <2>2 DEF LedgerInv, LateIsSettling
  <2>3. CASE OrderOf[u] = d /\ settling[u] # {}
    <3>1. PICK q \in settling[u] : Counted(u, q)
      BY <2>1, <2>3 DEF LedgerInv, SettlementsCounted
    <3>2. payment[u].status = "completed" \/ OrderOf[u] \notin cash
      BY <3>1 DEF Counted
    <3> QED  BY <1>3, <1>6, <2>1, <2>3, <3>2 DEF LedgerInv, CashAtTheDoor, Kept
  <2> QED  BY <1>11, <2>1, <2>2, <2>3
<1>19. ASSUME NEW o \in Orders PROVE Balanced(o)'
  <2>1. Balanced(o) /\ EverCollected(o)' = EverCollected(o) /\ AlreadyRefunded(o)' = AlreadyRefunded(o)
    BY <1>9, <1>10 DEF LedgerInv
  <2>2. o \notin behind' => amountPaid'[o] = SettledTotal(o)'
    BY <1>6, <1>7, <1>10, <1>11, <2>1 DEF Balanced
  <2>3. o \in cash => o \notin behind'
    <3>1. d \in cash => t \notin late
      BY <1>3 DEF LedgerInv, LateIsSettling
    <3> QED  BY <1>11, <2>1, <3>1 DEF Balanced
  <2> QED  BY <1>5, <2>1, <2>2, <2>3 DEF Balanced
<1> QED
  BY <1>12, <1>13, <1>14, <1>15, <1>16, <1>17, <1>18, <1>19 DEF LedgerInv

LEMMA ReturnKeeps ==
  ASSUME LedgerInv, NEW q \in Returns,
         UNCHANGED <<cash, delivered, billing, payment, counting, refund>>,
         NEW status \in DOMAIN RETURN_TRANSITIONS, returned' = [returned EXCEPT ![q] = status],
         status = "refunded" => GivenBack(ReturnOf[q])
  PROVE  LedgerInv'
<1>1. UNCHANGED <<cash, delivered, split, claimed, payment, settling, amountPaid, refund, late, behind>>
  BY DEF billing, counting
<1>2. ReturnsAreTrue'
  <2> SUFFICES ASSUME NEW p \in Returns, returned'[p] = "refunded"
               PROVE  \E r \in Refunds : refund[r].status = "completed"
                                           /\ OrderOf[refund[r].of] = ReturnOf[p]
    BY <1>1 DEF ReturnsAreTrue
  <2>1. CASE p = q
    <3>1. status = "refunded"
      BY <2>1 DEF LedgerInv, LedgerTypeOK
    <3> QED  BY <2>1, <3>1 DEF GivenBack, RefundsAmong, OrderPayments
  <2>2. CASE p # q
    BY <2>2 DEF LedgerInv, LedgerTypeOK, ReturnsAreTrue
  <2> QED  BY <2>1, <2>2
<1>3. /\ settling' \in [Transactions -> SUBSET SettlingTypes]
      /\ returned' \in [Returns -> DOMAIN RETURN_TRANSITIONS]
  BY <1>1 DEF LedgerInv, LedgerTypeOK, SettlingTypes
<1> QED
  BY <1>1, <1>2, <1>3, QuietKeeps DEF LedgerInv, LedgerTypeOK

LEMMA StepLedger == LedgerInv /\ [LedgerNext]_ledgerVars => LedgerInv'
<1> SUFFICES ASSUME LedgerInv, [LedgerNext]_ledgerVars PROVE LedgerInv'
  OBVIOUS
<1>1. ASSUME NEW q \in Returns, request_return(q) PROVE LedgerInv'
  <2>1. "pending" \in DOMAIN RETURN_TRANSITIONS
    BY DEF RETURN_TRANSITIONS
  <2> QED  BY <1>1, <2>1, ReturnKeeps DEF request_return
<1>2. ASSUME NEW q \in Returns, NEW status \in {"approved", "rejected", "refunded"},
             decide_return(q, status)
      PROVE  LedgerInv'
  <2>1. status \in DOMAIN RETURN_TRANSITIONS
    BY DEF RETURN_TRANSITIONS
  <2> QED  BY <1>2, <2>1, ReturnKeeps DEF decide_return
<1>3. ASSUME \/ UNCHANGED ledgerVars
             \/ \E o \in Orders : create(o)
      PROVE  LedgerInv'
  <2>1. /\ UNCHANGED <<cash, delivered, claimed, payment, settling, amountPaid, refund, returned,
                       late, behind>>
        /\ split' \subseteq Orders
    BY <1>3 DEF ledgerVars, create, counting, LedgerInv, LedgerTypeOK
  <2>2. /\ settling' \in [Transactions -> SUBSET SettlingTypes]
        /\ returned' \in [Returns -> DOMAIN RETURN_TRANSITIONS] /\ ReturnsAreTrue'
    BY <2>1 DEF LedgerInv, LedgerTypeOK, SettlingTypes, ReturnsAreTrue
  <2> QED  BY <2>1, <2>2, QuietKeeps DEF LedgerInv, LedgerTypeOK
<1> QED
  BY <1>1, <1>2, <1>3, InitiateKeeps, PayShareKeeps, CountInKeeps, CollectKeeps, RollBackKeeps,
     HandOverKeeps, RequestRefundKeeps, SettleRefundKeeps, CountOutKeeps, PayBackKeeps,
     CancelRefundKeeps DEF LedgerNext

(* Whatever payments, hand-overs, refunds and returns cross, and whichever *)
(* settlements overlap, no order gives back more than it collected, a      *)
(* payment is refunded when its settled refunds add up to it, the copy the *)
(* door reads is what the order has in unless a settlement overtaken by    *)
(* another wrote it last - and always of an order in cash -, and a return  *)
(* is told refunded only when something went back.                         *)
THEOREM AccountsHold == LedgerSpec => []AccountsBalance
<1> QED
  BY InitLedger, StepLedger, LedgerInvGives, PTL DEF LedgerSpec
=============================================================================
