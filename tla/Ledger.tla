------------------------------- MODULE Ledger -------------------------------
(***************************************************************************)
(* Money once it is in: what an order has collected, by a provider or in   *)
(* cash at the door, as a whole or by shares, and the refunds staff        *)
(* request, settle and abandon.  The transfers themselves are made by hand:*)
(* settling records that one was.  The returns customers ask for are       *)
(* decided by support, which only looks at the refunds.                    *)
(*                                                                         *)
(* A handler that locks the order is one step.  A settlement locks the row *)
(* of its payment only, adds up what the order has in, and then writes the *)
(* sum: two steps, between which other settlements of the order commit.    *)
(* A demand that fails leaves the order as if it had not been opened; what *)
(* else a provider says of a payment is in Payments.                       *)
(***************************************************************************)
EXTENDS Naturals, FiniteSets, FiniteSetsExt

CONSTANTS
  Orders, Total,                   \* what each order costs
  Transactions, OrderOf,           \* the payments of an order
  Shares, BillOf, ShareAmount,     \* what each is a part of, and how much
  Refunds, NoTransaction, NoRefund,
  Returns, ReturnOf                \* the returns customers ask for

ASSUME LedgerAssumption ==
  /\ IsFiniteSet(Transactions) /\ IsFiniteSet(Refunds)
  /\ Transactions \subseteq Nat /\ Refunds \subseteq Nat     \* keys, given in order
  /\ Total \in [Orders -> Nat \ {0}]
  /\ OrderOf \in [Transactions -> Orders]
  /\ BillOf \in [Shares -> Orders] /\ ShareAmount \in [Shares -> Nat \ {0}]
  /\ NoTransaction \notin Transactions /\ NoRefund \notin Refunds
  /\ ReturnOf \in [Returns -> Orders]

VARIABLES
  cash,        \* the orders whose payment_method is cash
  delivered,   \* the orders handed over
  split,       \* the orders divided in shares
  claimed,     \* the shares a payment was opened for
  payment,     \* [status, amount] of each transaction
  settling,    \* settlements under way: the refund each records, and its sum
  amountPaid,  \* Order.amount_paid, the copy delivery reads
  refund,      \* [status, of, amount] of each refund
  returned,    \* ReturnRequest.status
  late,        \* history: payments whose settlement added up what has moved since
  behind       \* history: orders whose copy was last written by such a settlement

ledgerVars == <<cash, delivered, split, claimed, payment, settling, amountPaid,
                refund, returned, late, behind>>

billing == <<split, claimed>>
counting == <<settling, amountPaid, late, behind>>

RETURN_TRANSITIONS == [
  none     |-> {},
  pending  |-> {"approved", "rejected"},
  approved |-> {"refunded", "rejected"},
  rejected |-> {},
  refunded |-> {}]

LedgerInit ==
  /\ cash \in SUBSET Orders
  /\ delivered = {} /\ split = {} /\ claimed = {}
  /\ payment = [t \in Transactions |-> [status |-> "none", amount |-> 0]]
  /\ settling = [t \in Transactions |-> {}]
  /\ amountPaid = [o \in Orders |-> 0]
  /\ refund = [r \in Refunds |-> [status |-> "none", of |-> NoTransaction, amount |-> 0]]
  /\ returned = [q \in Returns |-> "none"]
  /\ late = {} /\ behind = {}

-----------------------------------------------------------------------------
(* What is asked.                                                          *)

PaymentsOf(o, statuses) ==
  {t \in Transactions : OrderOf[t] = o /\ payment[t].status \in statuses}
AmountOf(ts) == SumFunctionOnSet([t \in Transactions |-> payment[t].amount], ts)

SettledTotal(o) == AmountOf(PaymentsOf(o, {"completed"}))
Outstanding(o) == Total[o] - SettledTotal(o)

(* The open demands for all that is due.                                   *)
OpenForAll(o) == {t \in PaymentsOf(o, {"open"}) : payment[t].amount = Outstanding(o)}

NextPayment(t) ==
  /\ payment[t].status = "none"
  /\ \A u \in Transactions : OrderOf[u] = OrderOf[t] /\ u < t => payment[u].status # "none"

Demand(t, amount) ==
  /\ NextPayment(t)
  /\ payment' = [payment EXCEPT ![t] = [status |-> "open", amount |-> amount]]
  /\ UNCHANGED <<cash, delivered, counting, refund, returned>>

(* The customer opens the payment screen: an open demand is given back.    *)
initiate(t) ==
  LET o == OrderOf[t] IN
  /\ o \notin split /\ SettledTotal(o) < Total[o] /\ OpenForAll(o) = {}
  /\ Demand(t, Outstanding(o))
  /\ UNCHANGED billing

(* Dividing looks at what is in, not at the demands already open.          *)
create(o) ==
  /\ o \notin split /\ SettledTotal(o) = 0
  /\ split' = split \cup {o}
  /\ UNCHANGED <<cash, delivered, claimed, payment, counting, refund, returned>>

pay_share(t, s) ==
  /\ BillOf[s] \in split /\ OrderOf[t] = BillOf[s] /\ s \notin claimed
  /\ Demand(t, ShareAmount[s])
  /\ claimed' = claimed \cup {s}
  /\ UNCHANGED split

-----------------------------------------------------------------------------
(* What comes in.                                                          *)

(* The settlement of t writes the sum it took, n: it waits for whoever     *)
(* holds the order, and not for the settlements that have only counted.    *)
Settling(o) == {t \in Transactions : OrderOf[t] = o /\ settling[t] # {}}
report_settled_total(t, n) ==
  LET o == OrderOf[t] IN
  /\ amountPaid' = [amountPaid EXCEPT ![o] = n]
  /\ settling' = [settling EXCEPT ![t] = {}]
  /\ late' = (late \cup Settling(o)) \ {t}
  /\ behind' = IF t \in late THEN behind \cup {o} ELSE behind \ {o}

TakeTotal(t, r, ts) ==
  settling' = [settling EXCEPT ![t] = {[by |-> r, sum |-> AmountOf(ts)]}]

(* _apply: the provider says a payment is completed.                       *)
CountIn(t) ==
  /\ payment[t].status = "open" /\ settling[t] = {} /\ OrderOf[t] \notin cash
  /\ TakeTotal(t, NoRefund, PaymentsOf(OrderOf[t], {"completed"}) \cup {t})
  /\ UNCHANGED <<cash, delivered, billing, payment, amountPaid, refund, returned, late, behind>>

Collect(t) ==
  /\ \E s \in settling[t] : s.by = NoRefund /\ report_settled_total(t, s.sum)
  /\ payment' = [payment EXCEPT ![t].status = "completed"]
  /\ UNCHANGED <<cash, delivered, billing, refund, returned>>

(* The worker dies, or the database ends a deadlock: the settlement of a   *)
(* payment waits for the order, a refund requested meanwhile holds it and  *)
(* waits for the payment.                                                  *)
RollBack(t) ==
  /\ settling[t] # {}
  /\ settling' = [settling EXCEPT ![t] = {}]
  /\ late' = late \ {t}
  /\ UNCHANGED <<cash, delivered, billing, payment, amountPaid, refund, returned, behind>>

(* record_cash_collected settles the open cash payment, or makes one.      *)
CashPayment(t, o) ==
  /\ OrderOf[t] = o
  /\ IF OpenForAll(o) # {} THEN t \in OpenForAll(o) ELSE NextPayment(t)

HandOver(o) ==
  /\ o \notin delivered
  /\ delivered' = delivered \cup {o}
  /\ IF o \in cash /\ SettledTotal(o) < Total[o]
       THEN \E t \in Transactions :
              /\ CashPayment(t, o)
              /\ payment' = [payment EXCEPT ![t] =
                               [status |-> "completed", amount |-> Outstanding(o)]]
              /\ report_settled_total(t, SettledTotal(o)')
       ELSE UNCHANGED <<payment, counting>>
  /\ UNCHANGED <<cash, billing, refund, returned>>

-----------------------------------------------------------------------------
(* Refunds.                                                                *)

RefundsAmong(ts, statuses) ==
  {r \in Refunds : refund[r].of \in ts /\ refund[r].status \in statuses}
RefundedAmount(rs) == SumFunctionOnSet([r \in Refunds |-> refund[r].amount], rs)

OrderPayments(o) == {t \in Transactions : OrderOf[t] = o}
AlreadyPaidBack(o) ==                            \* mutant: pending ones not counted
  RefundedAmount(RefundsAmong(OrderPayments(o), {"completed"}))
AlreadyRefunded(o) == RefundedAmount(RefundsAmong(OrderPayments(o), {"pending", "completed"}))

(* a <= settled_total - already, written without a negative number.        *)
Refundable(o, a) == AlreadyRefunded(o) + a <= SettledTotal(o)

RequestRefund(r, t) ==
  LET o == OrderOf[t] IN
  /\ refund[r].status = "none" /\ \A q \in Refunds : q < r => refund[q].status # "none"
  /\ payment[t].status = "completed" /\ settling[t] = {}
  /\ \E a \in 1..Total[o] :
       /\ Refundable(o, a)
       /\ refund' = [refund EXCEPT ![r] = [status |-> "pending", of |-> t, amount |-> a]]
  /\ UNCHANGED <<cash, delivered, billing, payment, counting, returned>>

(* The transaction follows when all of it has been paid back.              *)
PaidBack(t, r) ==
  /\ payment[t].status = "completed"
  /\ RefundedAmount(RefundsAmong({t}, {"completed"}) \cup {r}) >= payment[t].amount

(* settle, while part of the payment stays.                                *)
SettleRefund(r) ==
  LET t == refund[r].of IN
  /\ refund[r].status = "pending" /\ settling[t] = {} /\ ~PaidBack(t, r)
  /\ refund' = [refund EXCEPT ![r].status = "completed"]
  /\ UNCHANGED <<cash, delivered, billing, payment, counting, returned>>

(* settle, when the payment leaves what the order has in.                  *)
CountOut(r) ==
  LET t == refund[r].of IN
  /\ refund[r].status = "pending" /\ settling[t] = {} /\ PaidBack(t, r)
  /\ TakeTotal(t, r, PaymentsOf(OrderOf[t], {"completed"}) \ {t})
  /\ UNCHANGED <<cash, delivered, billing, payment, amountPaid, refund, returned, late, behind>>

PayBack(r) ==
  LET t == refund[r].of IN
  /\ refund[r].status = "pending"
  /\ \E s \in settling[t] : s.by = r /\ report_settled_total(t, s.sum)
  /\ refund' = [refund EXCEPT ![r].status = "completed"]
  /\ payment' = [payment EXCEPT ![t].status = "refunded"]
  /\ UNCHANGED <<cash, delivered, billing, returned>>

CancelRefund(r) ==
  /\ refund[r].status = "pending" /\ \A s \in settling[refund[r].of] : s.by # r
  /\ refund' = [refund EXCEPT ![r].status = "cancelled"]
  /\ UNCHANGED <<cash, delivered, billing, payment, counting, returned>>

-----------------------------------------------------------------------------
(* Returns: support says what was decided, and pays nothing.               *)

request_return(q) ==
  /\ returned[q] = "none" /\ ReturnOf[q] \in delivered
  /\ returned' = [returned EXCEPT ![q] = "pending"]
  /\ UNCHANGED <<cash, delivered, billing, payment, counting, refund>>

(* _assert_rembourse: some refund of the order was settled.                *)
TakenOnTrust(o) == TRUE                          \* mutant: the refund not looked for
GivenBack(o) == RefundsAmong(OrderPayments(o), {"completed"}) # {}

decide_return(q, status) ==
  /\ status \in RETURN_TRANSITIONS[returned[q]]
  /\ status = "refunded" => GivenBack(ReturnOf[q])
  /\ returned' = [returned EXCEPT ![q] = status]
  /\ UNCHANGED <<cash, delivered, billing, payment, counting, refund>>

-----------------------------------------------------------------------------
LedgerNext ==
  \/ \E t \in Transactions : initiate(t) \/ CountIn(t) \/ Collect(t) \/ RollBack(t)
  \/ \E t \in Transactions, s \in Shares : pay_share(t, s)
  \/ \E o \in Orders : create(o) \/ HandOver(o)
  \/ \E r \in Refunds, t \in Transactions : RequestRefund(r, t)
  \/ \E r \in Refunds : SettleRefund(r) \/ CountOut(r) \/ PayBack(r) \/ CancelRefund(r)
  \/ \E q \in Returns :
       \/ request_return(q)
       \/ \E status \in {"approved", "rejected", "refunded"} : decide_return(q, status)

LedgerSpec == LedgerInit /\ [][LedgerNext]_ledgerVars

-----------------------------------------------------------------------------
LedgerTypeOK ==
  /\ cash \subseteq Orders /\ delivered \subseteq Orders
  /\ split \subseteq Orders /\ claimed \subseteq Shares
  /\ payment \in [Transactions ->
       [status : {"none", "open", "completed", "refunded"}, amount : Nat]]
  /\ settling \in [Transactions -> SUBSET [by : Refunds \cup {NoRefund}, sum : Nat]]
  /\ amountPaid \in [Orders -> Nat]
  /\ refund \in [Refunds -> [status : {"none", "pending", "completed", "cancelled"},
                             of : Transactions \cup {NoTransaction}, amount : Nat]]
  /\ returned \in [Returns -> DOMAIN RETURN_TRANSITIONS]
  /\ late \subseteq Transactions /\ behind \subseteq Orders

(* P3.  However requests, settlements and abandons of refunds interleave   *)
(* with payments, an order never gives back more than it ever collected,   *)
(* and a transaction is refunded exactly when its settled refunds add up   *)
(* to it: partial refunds leave it completed until the last one.           *)
EverCollected(o) == AmountOf(PaymentsOf(o, {"completed", "refunded"}))
RefundsWithinCollected == \A o \in Orders : AlreadyRefunded(o) <= EverCollected(o)
RefundedWhenPaidBack ==
  \A t \in Transactions : payment[t].status \in {"completed", "refunded"} =>
    (payment[t].status = "refunded" <=>
       RefundedAmount(RefundsAmong({t}, {"completed"})) >= payment[t].amount)

(* The copy delivery reads is what the order has in, unless the settlement *)
(* that last wrote it had added up before another committed: the next one  *)
(* that counts afterwards puts it right.  It is always so of an order in   *)
(* cash, which the courier collects from that copy: nothing before the     *)
(* door, and there all of it, once, whatever demands and shares were open. *)
DoorKnowsWhatIsDue ==
  /\ \A o \in Orders \ behind : amountPaid[o] = SettledTotal(o)
  /\ \A o \in cash :
       /\ o \notin behind
       /\ EverCollected(o) = IF o \in delivered THEN Total[o] ELSE 0

(* A customer who reads that his return is refunded was paid something     *)
(* back, and still has been: no later step undoes the refund support saw.  *)
ReturnsAreTrue ==
  \A q \in Returns : returned[q] = "refunded" =>
    \E r \in Refunds : refund[r].status = "completed" /\ OrderOf[refund[r].of] = ReturnOf[q]

(* Payments, refunds, returns and the copy delivery reads tell the same    *)
(* story.                                                                  *)
AccountsBalance ==
  /\ RefundsWithinCollected /\ RefundedWhenPaidBack
  /\ DoorKnowsWhatIsDue /\ ReturnsAreTrue
=============================================================================
