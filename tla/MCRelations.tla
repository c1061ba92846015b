---------------------------- MODULE MCRelations -----------------------------
(***************************************************************************)
(* An order of two units, in cash or not, of two shares, three payments,   *)
(* two refunds and a return; a courier, his courses and a withdrawal; a    *)
(* mailing that fails and one that does not, two rounds of the beat; a     *)
(* customer with two phones; two deliveries worth points, one gift and one *)
(* reward; four meals, one of them worth none, for an achievement at       *)
(* three; two subscriptions of one subscriber, and two passes of the task  *)
(* that charges them; a group with room for two, one of whom asks twice;   *)
(* events of two workers, one of which may die; a ticket and a complaint   *)
(* before two agents, two calls, two codes of two tries, a basket of two   *)
(* lines, a bill of four units and three guests, a dish of two reviews, a  *)
(* post of two readers who tap four times.                                 *)
(***************************************************************************)
EXTENDS Relations

CONSTANTS order1, share1, share2,
          courier1, course1, course2, course3, withdrawal1, beat1, beat2,
          treat1, treat2, gift1, reward1, alice, pass1, pass2,
          return1, news1, news2, round1, round2, phone1, phone2,
          meal1, meal2, meal3, meal4, ann, bob, join1, join2, join3,
          agent1, agent2, ring1, ring2, press1, press2, ask1, ask2,
          line1, line2, screen1, screen2, small, big, form1, form2,
          tap1, tap2, tap3, tap4, remark1

MCTotal == [o \in Orders |-> 2]
MCOrderOf == [t \in Transactions |-> order1]
MCBillOf == [s \in Shares |-> order1]
MCShareAmount == [s \in Shares |-> 1]

MCReturnOf == [q \in Returns |-> order1]

MCCourierOf == [k \in Courses |-> courier1]
MCFee == [k \in Courses |-> IF k = course1 THEN 2 ELSE 1]
MCAskedBy == [w \in Withdrawals |-> courier1]

MCPoints == [o \in RewardedOrders |-> IF o = treat1 THEN 2 ELSE 1]
MCGiftPoints == [g \in Gifts |-> 1]
MCCost == [w \in Rewards |-> 2]

MCCustomer == [s \in Subs |-> alice]

MCBy == [r \in JoinRequests |-> IF r = join3 THEN bob ELSE ann]

MCSentAmounts == {-1, 1, 2, 3}

MCTappedBy == [t \in Taps |-> IF t = tap4 THEN bob ELSE ann]
=============================================================================
