------------------------------ MODULE Loyalty -------------------------------
(***************************************************************************)
(* The points of one customer: earned once per delivered order, granted by *)
(* achievements, spent on rewards that mint a promotion code, and put out  *)
(* by a daily task after a year without a movement.                        *)
(*                                                                         *)
(* earn and adjust lock the account, a reward is paid by one conditional   *)
(* UPDATE; the task writes back the account it has iterated over.          *)
(***************************************************************************)
EXTENDS Integers, FiniteSets, FiniteSetsExt

CONSTANTS
  RewardedOrders, Points,     \* delivered orders, and points_for each total
  Gifts, GiftPoints,  \* achievements, each unlocked once
  Rewards, Cost       \* points_cost of each reward

ASSUME LoyaltyAssumption ==
  /\ IsFiniteSet(RewardedOrders) /\ IsFiniteSet(Gifts) /\ IsFiniteSet(Rewards)
  /\ RewardedOrders \cap Gifts = {}
  /\ Points \in [RewardedOrders -> Nat]
  /\ GiftPoints \in [Gifts -> Nat \ {0}]
  /\ Cost \in [Rewards -> Nat \ {0}]

VARIABLES
  balance, lifetimeEarned, lifetimeSpent,   \* PointsAccount
  idle,      \* no activity for LOYALTY_EXPIRY_MONTHS
  entries,   \* the sum of PointsEntry.delta
  credited,  \* orders and gifts with an entry
  minted,    \* codes minted for each reward
  read,      \* the balance the expiry task has read, 0 when it has not
  raced      \* history: the account moved after the task had read it

loyaltyVars == <<balance, lifetimeEarned, lifetimeSpent, idle, entries,
                 credited, minted, read, raced>>

LoyaltyInit ==
  /\ balance = 0 /\ lifetimeEarned = 0 /\ lifetimeSpent = 0
  /\ idle = FALSE /\ entries = 0 /\ credited = {}
  /\ minted = [w \in Rewards |-> 0]
  /\ read = 0 /\ raced = FALSE

-----------------------------------------------------------------------------
(* _move for a positive delta, and what every movement does.               *)
Touch ==
  /\ idle' = FALSE
  /\ raced' = (raced \/ read > 0)
  /\ UNCHANGED read

CreditPoints(n) ==
  /\ balance' = balance + n
  /\ lifetimeEarned' = lifetimeEarned + n
  /\ entries' = entries + n
  /\ Touch
  /\ UNCHANGED <<lifetimeSpent, minted>>

(* The delivery may be announced again: the order was credited already.    *)
EarnableAgain(o) == Points[o] > 0                \* mutant: the entry not looked for
Earnable(o) == Points[o] > 0 /\ o \notin credited
earn(o) ==
  /\ Earnable(o)
  /\ credited' = credited \cup {o}
  /\ CreditPoints(Points[o])

adjust(g) ==
  /\ g \notin credited
  /\ credited' = credited \cup {g}
  /\ CreditPoints(GiftPoints[g])

(* _spend: UPDATE ... WHERE balance >= cost, then the entry and the code.  *)
EverEarned(w) == lifetimeEarned >= Cost[w]       \* mutant: the wrong column
Affords(w) == balance >= Cost[w]
redeem(w) ==
  /\ Affords(w)
  /\ balance' = balance - Cost[w]
  /\ lifetimeSpent' = lifetimeSpent + Cost[w]
  /\ entries' = entries - Cost[w]
  /\ minted' = [minted EXCEPT ![w] = @ + 1]
  /\ Touch
  /\ UNCHANGED <<lifetimeEarned, credited>>

-----------------------------------------------------------------------------
YearPasses ==
  /\ ~idle
  /\ idle' = TRUE
  /\ UNCHANGED <<balance, lifetimeEarned, lifetimeSpent, entries, credited, minted, read, raced>>

ReadIdle ==
  /\ idle /\ balance > 0 /\ read = 0
  /\ read' = balance
  /\ UNCHANGED <<balance, lifetimeEarned, lifetimeSpent, idle, entries, credited, minted, raced>>

(* expire_inactive: the balance as read, less itself.                      *)
expire_inactive ==
  /\ read > 0
  /\ balance' = 0
  /\ entries' = entries - read
  /\ read' = 0
  /\ UNCHANGED <<lifetimeEarned, lifetimeSpent, idle, credited, minted, raced>>

-----------------------------------------------------------------------------
LoyaltyNext ==
  \/ \E o \in RewardedOrders : earn(o)
  \/ \E g \in Gifts : adjust(g)
  \/ \E w \in Rewards : redeem(w)
  \/ YearPasses \/ ReadIdle \/ expire_inactive

LoyaltySpec == LoyaltyInit /\ [][LoyaltyNext]_loyaltyVars

-----------------------------------------------------------------------------
LoyaltyTypeOK ==
  /\ balance \in Nat /\ lifetimeEarned \in Nat /\ lifetimeSpent \in Nat
  /\ idle \in BOOLEAN /\ entries \in Int
  /\ credited \subseteq RewardedOrders \cup Gifts
  /\ minted \in [Rewards -> Nat]
  /\ read \in Nat /\ raced \in BOOLEAN

Worth == [x \in RewardedOrders \cup Gifts |->
            IF x \in RewardedOrders THEN Points[x] ELSE GiftPoints[x]]

(* F1.  Whatever is credited, spent or put out, and however the task       *)
(* writes over what it did not see, codes are never minted for more points *)
(* than deliveries and achievements were worth.                            *)
CodesArePaidFor ==
  /\ SumFunction([w \in Rewards |-> Cost[w] * minted[w]]) = lifetimeSpent
  /\ balance + lifetimeSpent <= lifetimeEarned
  /\ lifetimeEarned = SumFunctionOnSet(Worth, credited)

(* F5.  The balance is the sum of the entries, as long as no movement      *)
(* falls between the reading and the writing of the expiry.                *)
BalanceIsItsEntriesUnlessRaced == ~raced => balance = entries

(* The two of them: points come from deliveries and achievements, go into  *)
(* codes, and the balance says so.                                         *)
PointsAddUp == CodesArePaidFor /\ BalanceIsItsEntriesUnlessRaced
=============================================================================
