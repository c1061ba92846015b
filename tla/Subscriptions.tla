--------------------------- MODULE Subscriptions ----------------------------
(***************************************************************************)
(* Subscriptions and their renewals: a customer subscribes and cancels,    *)
(* the provider settles or refuses charges, and an hourly task expires     *)
(* what is overdue, then charges what is due, from lists it read first.    *)
(* Nothing keeps two passes of the task apart: a backlog of hourly         *)
(* messages, or a message acknowledged late and delivered again, has two   *)
(* workers make them together.                                             *)
(*                                                                         *)
(* Opening a renewal is two writes without a transaction around them: the  *)
(* payment, then its link to the subscription.                             *)
(***************************************************************************)
EXTENDS Naturals, FiniteSets

CONSTANTS
  Subs,              \* subscriptions, by their keys
  Subscribers, Customer,   \* and whose each is
  MaxCharges,        \* bound on the payments opened
  Passes,            \* passes of the task that may be under way together
  Period, Grace,     \* billing_period_days, SUBSCRIPTION_RENEWAL_GRACE_DAYS
  LastTick           \* bound on the time that passes

ASSUME SubscriptionsAssumption ==
  /\ Subs \subseteq Nat /\ Customer \in [Subs -> Subscribers]
  /\ Period \in Nat \ {0} /\ Grace \in Nat /\ LastTick \in Nat
  /\ MaxCharges \in Nat

Charges == 1..MaxCharges     \* payments that may be opened

VARIABLES
  now,
  sub,      \* [status, autoRenew, end] of each subscription
  charge,   \* [status, of, linked, end] of each payment
  task,     \* [at, moment, list, opened] of each pass: the instant its lists are
            \* read at, what it has still to do, the payment opened and not linked
  doubled   \* history: subscriptions two passes were to charge at once

subsVars == <<now, sub, charge, task, doubled>>

Idle == [at |-> "rest", moment |-> 0, list |-> {}, opened |-> {}]
NoCharge == [status |-> "none"]

SubsInit ==
  /\ now = 0
  /\ sub = [s \in Subs |-> [status |-> "none", autoRenew |-> TRUE, end |-> 0]]
  /\ charge = [k \in Charges |-> NoCharge]
  /\ task = [p \in Passes |-> Idle]
  /\ doubled = {}

Tick ==
  /\ now < LastTick
  /\ now' = now + 1
  /\ UNCHANGED <<sub, charge, task, doubled>>

-----------------------------------------------------------------------------
(* The customer.                                                           *)

OpenStatuses == {"pending", "active"}
OpenOf(c) == {s \in Subs : Customer[s] = c /\ sub[s].status \in OpenStatuses}

(* Primary keys are given in order.                                        *)
NextSub(s) == sub[s].status = "none" /\ \A r \in Subs : r < s => sub[r].status # "none"
NextKey(k) == charge[k] = NoCharge /\ \A l \in Charges : l < k => charge[l] # NoCharge
NewCharge(s, linked) ==
  [status |-> "open", of |-> s, linked |-> linked, end |-> now + Period]

subscribe(s, k) ==
  /\ NextSub(s) /\ OpenOf(Customer[s]) = {}
  /\ NextKey(k)
  /\ sub' = [sub EXCEPT ![s].status = "pending"]
  /\ charge' = [charge EXCEPT ![k] = NewCharge(s, TRUE)]
  /\ UNCHANGED <<now, task, doubled>>

cancel(s) ==
  /\ sub[s].status \in OpenStatuses
  /\ sub' = [sub EXCEPT ![s].status = "cancelled", ![s].autoRenew = FALSE]
  /\ UNCHANGED <<now, charge, task, doubled>>

-----------------------------------------------------------------------------
(* The provider.  on_payment_settled runs in the settlement, and knows the *)
(* subscription by the link.  Nothing looks at a payment once answered.    *)
Answered(k) == [charge EXCEPT ![k].status = "answered", ![k].end = 0]

Settle(k) ==
  /\ charge[k].status = "open"
  /\ charge' = Answered(k)
  /\ IF charge[k].linked /\ sub[charge[k].of].status \in OpenStatuses
       THEN sub' = [sub EXCEPT ![charge[k].of].status = "active",
                               ![charge[k].of].end = charge[k].end]
       ELSE UNCHANGED sub
  /\ UNCHANGED <<now, task, doubled>>

Refuse(k) ==
  /\ charge[k].status = "open"
  /\ charge' = Answered(k)
  /\ UNCHANGED <<now, sub, task, doubled>>

-----------------------------------------------------------------------------
(* A pass of the hourly task, renew_due.                                   *)

Awaiting(s) == {k \in Charges : charge[k].status = "open" /\ charge[k].linked /\ charge[k].of = s}

Overdue(s, moment) == sub[s].status = "active" /\ sub[s].end + Grace < moment
UnlessAwaited(s, moment) == Overdue(s, moment) /\ Awaiting(s) = {}  \* mutant: an open charge shields it
Listed(s, moment) == Overdue(s, moment)

DueTwice(s, moment) ==                           \* mutant: open charges not excluded
  /\ sub[s].status = "active" /\ sub[s].autoRenew
  /\ sub[s].end <= moment /\ moment <= sub[s].end + Grace
Due(s, moment) ==
  /\ sub[s].status = "active" /\ sub[s].autoRenew
  /\ sub[s].end <= moment /\ moment <= sub[s].end + Grace
  /\ Awaiting(s) = {}

(* Pass p is about to charge s: it has it listed, or opened and not linked.*)
Charging(p, s) ==
  /\ task[p].at = "charging"
  /\ s \in task[p].list \/ \E k \in task[p].opened : charge[k].of = s

ReadOverdue(p) ==
  /\ task[p].at = "rest"
  /\ task' = [task EXCEPT ![p] = [at |-> "expiring", moment |-> now,
                                  list |-> {s \in Subs : Listed(s, now)}, opened |-> {}]]
  /\ UNCHANGED <<now, sub, charge, doubled>>

(* expire reads the status again under its lock, and not the period.       *)
expire(p, s) ==
  /\ task[p].at = "expiring" /\ s \in task[p].list
  /\ task' = [task EXCEPT ![p].list = @ \ {s}]
  /\ sub' = IF sub[s].status = "active" THEN [sub EXCEPT ![s].status = "expired"] ELSE sub
  /\ UNCHANGED <<now, charge, doubled>>

ReadDue(p) ==
  LET due == {s \in Subs : Due(s, task[p].moment)} IN
  /\ task[p].at = "expiring" /\ task[p].list = {}
  /\ task' = [task EXCEPT ![p] = [Idle EXCEPT !.at = "charging", !.list = due]]
  /\ doubled' = doubled \cup {s \in due : \E q \in Passes : Charging(q, s)}
  /\ UNCHANGED <<now, sub, charge>>

OpenPayment(p, s, k) ==
  /\ task[p].at = "charging" /\ s \in task[p].list /\ task[p].opened = {}
  /\ NextKey(k)
  /\ charge' = [charge EXCEPT ![k] = NewCharge(s, FALSE)]
  /\ task' = [task EXCEPT ![p].list = @ \ {s}, ![p].opened = {k}]
  /\ UNCHANGED <<now, sub, doubled>>

LinkPayment(p, k) ==
  /\ k \in task[p].opened
  /\ charge' = [charge EXCEPT ![k].linked = TRUE]
  /\ task' = [task EXCEPT ![p].opened = {}]
  /\ UNCHANGED <<now, sub, doubled>>

(* The list is done, or the provider refuses to open a checkout: the       *)
(* exception ends the pass.                                                *)
EndPass(p) ==
  /\ task[p].at = "charging" /\ task[p].opened = {}
  /\ task' = [task EXCEPT ![p] = Idle]
  /\ UNCHANGED <<now, sub, charge, doubled>>

TaskDies(p) ==
  /\ task[p].at # "rest"
  /\ task' = [task EXCEPT ![p] = Idle]
  /\ UNCHANGED <<now, sub, charge, doubled>>

-----------------------------------------------------------------------------
PassWorks(p) ==
  \/ ReadOverdue(p) \/ ReadDue(p) \/ EndPass(p)
  \/ \E s \in Subs : expire(p, s)
  \/ \E s \in Subs, k \in Charges : OpenPayment(p, s, k)
  \/ \E k \in Charges : LinkPayment(p, k)

TaskWorks == \E p \in Passes : PassWorks(p)

SubsNext ==
  \/ Tick
  \/ \E s \in Subs, k \in Charges : subscribe(s, k)
  \/ \E s \in Subs : cancel(s)
  \/ \E k \in Charges : Settle(k) \/ Refuse(k)
  \/ TaskWorks \/ \E p \in Passes : TaskDies(p)

(* The task is scheduled every hour, and does not die at every pass before *)
(* it has expired what it read.                                            *)
SubsFairness ==
  /\ WF_subsVars(TaskWorks)
  /\ \A s \in Subs : SF_subsVars(\E p \in Passes : expire(p, s))

SubsSpec == SubsInit /\ [][SubsNext]_subsVars /\ SubsFairness

-----------------------------------------------------------------------------
SubsTypeOK ==
  /\ now \in 0..LastTick
  /\ sub \in [Subs -> [status : {"none", "pending", "active", "cancelled", "expired"},
                       autoRenew : BOOLEAN, end : Nat]]
  /\ charge \in [Charges -> {NoCharge} \cup
       [status : {"open", "answered"}, of : Subs, linked : BOOLEAN, end : Nat]]
  /\ task \in [Passes -> [at : {"rest", "expiring", "charging"}, moment : 0..LastTick,
                           list : SUBSET Subs, opened : SUBSET Charges]]
  /\ doubled \subseteq Subs

(* However passes overlap and die, and whenever the provider answers, a    *)
(* subscription awaits two payments, which late answers would both collect,*)
(* only if one pass listed it while another was charging it; and a customer*)
(* has one open subscription.                                              *)
OneChargeAtATime ==
  /\ \A s \in Subs \ doubled : Cardinality(Awaiting(s)) <= 1
  /\ \A s \in Subs : Cardinality(OpenOf(Customer[s])) <= 1

(* The subscription nobody pays for is closed in the end, whatever passes  *)
(* of the task died.                                                       *)
OverdueIsClosed == \A s \in Subs : Overdue(s, now) ~> ~Overdue(s, now)
=============================================================================
