------------------------------ MODULE Payouts -------------------------------
(***************************************************************************)
(* The counters of a courier's profile: the earnings that deliveries       *)
(* credit and withdrawals debit, and the mean of the ratings customers     *)
(* give to delivered courses.  Every writer locks the profile and saves    *)
(* its own columns; a rating is first looked for without any lock.         *)
(***************************************************************************)
EXTENDS Integers, FiniteSets, FiniteSetsExt

CONSTANTS
  Couriers,
  Courses, CourierOf,        \* the courses, and who carries each
  Fee,                       \* courier_fee of each course
  Withdrawals, AskedBy,      \* the withdrawals, and who asks for each
  Scores                     \* the stars a customer may give

ASSUME PayoutsAssumption ==
  /\ IsFiniteSet(Courses) /\ IsFiniteSet(Withdrawals)
  /\ CourierOf \in [Courses -> Couriers]
  /\ Fee \in [Courses -> Nat]
  /\ AskedBy \in [Withdrawals -> Couriers]
  /\ Scores \subseteq 1..5

VARIABLES
  course,       \* "carried" or "delivered"
  earnings,     \* CourierProfile.total_earnings
  withdrawal,   \* [status, amount] of each withdrawal
  rating,       \* CourierRating.score by course, 0 without one
  asking,       \* scores on their way, the existence of a rating checked
  ratingCount, ratingAverage   \* the average in hundredths, as stored

payoutsVars == <<course, earnings, withdrawal, rating, asking, ratingCount, ratingAverage>>
ratings == <<rating, asking, ratingCount, ratingAverage>>

PayoutsInit ==
  /\ course = [k \in Courses |-> "carried"]
  /\ earnings = [c \in Couriers |-> 0]
  /\ withdrawal = [w \in Withdrawals |-> [status |-> "none", amount |-> 0]]
  /\ rating = [k \in Courses |-> 0]
  /\ asking = {}
  /\ ratingCount = [c \in Couriers |-> 0]
  /\ ratingAverage = [c \in Couriers |-> 0]

-----------------------------------------------------------------------------
(* _credit, in the transaction that delivers the course.                   *)
Deliver(k) ==
  LET c == CourierOf[k] IN
  /\ course[k] = "carried"
  /\ course' = [course EXCEPT ![k] = "delivered"]
  /\ earnings' = [earnings EXCEPT ![c] = @ + Fee[k]]
  /\ UNCHANGED <<withdrawal, ratings>>

RequestWithdrawal(w) ==
  LET c == AskedBy[w] IN
  /\ withdrawal[w].status = "none"
  /\ \E a \in 1..earnings[c] :
       /\ earnings' = [earnings EXCEPT ![c] = @ - a]
       /\ withdrawal' = [withdrawal EXCEPT ![w] = [status |-> "pending", amount |-> a]]
  /\ UNCHANGED <<course, ratings>>

SettleWithdrawal(w) ==
  /\ withdrawal[w].status = "pending"
  /\ withdrawal' = [withdrawal EXCEPT ![w].status = "completed"]
  /\ UNCHANGED <<course, earnings, ratings>>

(* The transfer failed: what was debited goes back, once.                  *)
MayFailUnread(w) == withdrawal[w].status \in {"pending", "failed"}  \* mutant: not read again
MayFail(w) == withdrawal[w].status = "pending"
FailWithdrawal(w) ==
  LET c == AskedBy[w] IN
  /\ MayFail(w)
  /\ earnings' = [earnings EXCEPT ![c] = @ + withdrawal[w].amount]
  /\ withdrawal' = [withdrawal EXCEPT ![w].status = "failed"]
  /\ UNCHANGED <<course, ratings>>

-----------------------------------------------------------------------------
(* rate: the course is delivered, nobody rated it yet, as far as was read. *)
AskRating(k, score) ==
  /\ course[k] = "delivered" /\ rating[k] = 0
  /\ asking' = asking \cup {<<k, score>>}
  /\ UNCHANGED <<course, earnings, withdrawal, rating, ratingCount, ratingAverage>>

(* _recompute_average: one more score, rounded half up to the hundredth.   *)
MeanWith(c, score) ==
  LET n == ratingCount[c] + 1
      total == ratingAverage[c] * ratingCount[c] + 100 * score
  IN  (2 * total + n) \div (2 * n)

CommitRating(k, score) ==
  LET c == CourierOf[k] IN
  /\ <<k, score>> \in asking /\ rating[k] = 0
  /\ rating' = [rating EXCEPT ![k] = score]
  /\ ratingCount' = [ratingCount EXCEPT ![c] = @ + 1]
  /\ ratingAverage' = [ratingAverage EXCEPT ![c] = MeanWith(c, score)]
  /\ asking' = asking \ {<<k, score>>}
  /\ UNCHANGED <<course, earnings, withdrawal>>

(* The one-to-one link refuses the second of two ratings asked at once.    *)
AbortRating(k, score) ==
  /\ <<k, score>> \in asking /\ rating[k] # 0
  /\ asking' = asking \ {<<k, score>>}
  /\ UNCHANGED <<course, earnings, withdrawal, rating, ratingCount, ratingAverage>>

-----------------------------------------------------------------------------
PayoutsNext ==
  \/ \E k \in Courses : Deliver(k)
  \/ \E w \in Withdrawals :
       RequestWithdrawal(w) \/ SettleWithdrawal(w) \/ FailWithdrawal(w)
  \/ \E k \in Courses, score \in Scores :
       AskRating(k, score) \/ CommitRating(k, score) \/ AbortRating(k, score)

PayoutsSpec == PayoutsInit /\ [][PayoutsNext]_payoutsVars

-----------------------------------------------------------------------------
PayoutsTypeOK ==
  /\ course \in [Courses -> {"carried", "delivered"}]
  /\ earnings \in [Couriers -> Nat]
  /\ withdrawal \in [Withdrawals ->
       [status : {"none", "pending", "completed", "failed"}, amount : Nat]]
  /\ rating \in [Courses -> 0..5] /\ asking \subseteq Courses \X Scores
  /\ ratingCount \in [Couriers -> Nat] /\ ratingAverage \in [Couriers -> 0..500]

(* Every franc a courier earned is in the balance, asked for, or paid out; *)
(* a transfer that fails brings it back once.                              *)
Delivered(c) == {k \in Courses : CourierOf[k] = c /\ course[k] = "delivered"}
Debited(c) == {w \in Withdrawals : AskedBy[w] = c
                 /\ withdrawal[w].status \in {"pending", "completed"}}
EarningsAreConserved ==
  \A c \in Couriers :
    SumFunctionOnSet(Fee, Delivered(c)) =
      earnings[c] + SumFunctionOnSet([w \in Withdrawals |-> withdrawal[w].amount], Debited(c))

(* The stored mean, rounded again at each rating, may leave the true one   *)
(* by (n + 1) / 4 hundredths after n ratings, and no more; it counts each  *)
(* rated course once.                                                      *)
RatedBy(c) == {k \in Courses : CourierOf[k] = c /\ rating[k] # 0}
Distance(a, b) == IF a < b THEN b - a ELSE a - b
RatingsAddUp ==
  \A c \in Couriers :
    LET n == ratingCount[c] IN
    /\ n = Cardinality(RatedBy(c))
    /\ 4 * Distance(n * ratingAverage[c],
                    100 * SumFunctionOnSet(rating, RatedBy(c)))
         <= n * (n + 1)

(* Both counters of a profile add up to the courses they were made of.     *)
CountersAddUp == EarningsAreConserved /\ RatingsAddUp
=============================================================================
