------------------------------ MODULE Payments ------------------------------
(***************************************************************************)
(* The online payment of orders: opening a demand at the provider, the     *)
(* provider's notifications, and what they write to the transaction, the   *)
(* split and the order, while staff and the expiry task move the order.    *)
(*                                                                         *)
(* The handlers run in database transactions at READ COMMITTED, with row   *)
(* locks.  A handler is cut where another one can interleave: at a call to *)
(* the provider, at a commit, and before a statement that waits for a row. *)
(* What a handler has written and not yet committed stays in its worker    *)
(* record; committed rows are in the other variables.                      *)
(***************************************************************************)
EXTENDS Naturals, Payables, Machines

CONSTANTS Txns,      \* identifiers of payments.Transaction, never reused
          Workers,   \* web workers, each running one handler at a time
          Crashes,   \* TRUE when a worker may die in the middle of a handler
          NoPayable, NoTxn

ASSUME PaymentsAssumption ==
  /\ Crashes \in BOOLEAN
  /\ NoPayable \notin Payables
  /\ NoTxn \notin Txns

VARIABLES
  order,     \* Order.status
  reported,  \* Order.amount_paid, as the set of transactions it adds up
  split,     \* SplitPayment.status, or "none"
  share,     \* SplitShare.status
  shareTxn,  \* SplitShare.transaction
  txn,       \* Transaction.status, or "absent" while no row is committed
  pays,      \* what the invoice opened at the provider asks for
  event,     \* WebhookEvent: "unknown", "recorded" (no processed_at), "closed"
  alerted,   \* the transactions staff were told to refund
  effects,   \* how often payment_transaction_settled was committed for each
  sweeping,  \* orders expire_unpaid_orders has read and not yet cancelled
  worker

orderVars   == <<order, sweeping>>
splitVars   == <<split, share, shareTxn>>
outcomeVars == <<alerted, effects, reported>>
vars == <<order, reported, split, share, shareTxn, txn, pays, event, alerted,
           effects, sweeping, worker>>

(* event_id is the provider's reference followed by the status.            *)
EventIds      == Txns \X {"completed", "failed"}
Notifications == [id : EventIds, exact : BOOLEAN]

(* A worker's place in its handler and what it remembers of its reads.     *)
Stages == {"idle", "checkout", "sharing", "recorded", "locked", "counted"}
Idle ==
  [at |-> "idle", txn |-> NoTxn, target |-> "completed", exact |-> TRUE,
   seen |-> "pending", tally |-> {}, closing |-> FALSE]
WorkerStates ==
  [at : Stages, txn : Txns \cup {NoTxn}, target : {"completed", "failed"},
   exact : BOOLEAN, seen : OrderStatus, tally : SUBSET Txns, closing : BOOLEAN]

(* What settled_total adds up: the completed transactions of the order.    *)
OrderOfTxn(t)  == OrderOf(pays[t])
Settled(o)     == {t \in Txns : txn[t] = "completed" /\ OrderOfTxn(t) = o}
PaidBy(T)      == {pays[t] : t \in T}
FullyPaid(o, T) == Covered(o, PaidBy(T))
(* amount_paid > total: the total would be covered with one fewer.         *)
Exceeds(o, T)  == \E t \in T : FullyPaid(o, T \ {t})

(* Row locks held across the steps of a handler.                           *)
Opening(w)  == worker[w].at \in {"checkout", "sharing"}
Settling(w) == worker[w].at \in {"locked", "counted"}
OrderUnlocked(o) ==
  \A w \in Workers : ~(Opening(w) /\ OrderOfTxn(worker[w].txn) = o)
ShareUnlocked(s) ==
  \A w \in Workers :
    /\ ~(worker[w].at = "sharing" /\ pays[worker[w].txn] = s)
    /\ ~(worker[w].at = "counted" /\ shareTxn[s] = worker[w].txn)
TxnNotLocked(t) == TRUE                          \* mutant: no select_for_update
TxnUnlocked(t) == \A w \in Workers : ~(Settling(w) /\ worker[w].txn = t)

Init ==
  /\ order = [o \in Orders |-> "pending"]
  /\ reported = [o \in Orders |-> {}]
  /\ split = [o \in Orders |-> "none"]
  /\ share = [s \in Shares |-> "pending"]
  /\ shareTxn = [s \in Shares |-> NoTxn]
  /\ txn = [t \in Txns |-> "absent"]
  /\ pays = [t \in Txns |-> NoPayable]
  /\ event = [e \in EventIds |-> "unknown"]
  /\ alerted = {}
  /\ effects = [t \in Txns |-> 0]
  /\ sweeping = {}
  /\ worker = [w \in Workers |-> Idle]

-----------------------------------------------------------------------------
(* Opening a demand.                                                       *)

IsOpenOnlyWhenPending(t) == txn[t] = "pending"   \* mutant: an open demand missed
IsOpen(t) == txn[t] \in {"pending", "processing"}

(* PaymentService._move, whose validation is a guard of its callers.       *)
MovedToCancelled(t, target) ==                   \* mutant: failures misfiled
  [txn EXCEPT ![t] = IF target = "failed" THEN "cancelled" ELSE target]
Moved(t, target) == [txn EXCEPT ![t] = target]

Become(w, state) == worker' = [worker EXCEPT ![w] = state]
Finish(w)        == Become(w, Idle)

(* PaymentService.initiate, up to the provider's answer: the order is      *)
(* locked, and the provider knows the invoice before its row is committed. *)
(* A demand still open is returned instead, which changes nothing.         *)
OpenCheckout(w, o, t) ==
  /\ worker[w].at = "idle"
  /\ OrderUnlocked(o)
  /\ order[o] # "cancelled"
  /\ split[o] = "none"
  /\ ~FullyPaid(o, Settled(o))
  /\ \A u \in Txns : ~(IsOpen(u) /\ pays[u] = o)
  /\ pays[t] = NoPayable
  /\ pays' = [pays EXCEPT ![t] = o]
  /\ Become(w, [Idle EXCEPT !.at = "checkout", !.txn = t])
  /\ UNCHANGED <<orderVars, splitVars, outcomeVars, txn, event>>

CommitCheckout(w) ==
  /\ worker[w].at = "checkout"
  /\ txn' = Moved(worker[w].txn, "processing")
  /\ Finish(w)
  /\ UNCHANGED <<orderVars, splitVars, outcomeVars, pays, event>>

(* SplitService.create                                                     *)
CreateSplit(o) ==
  /\ OrderUnlocked(o)
  /\ order[o] # "cancelled"
  /\ split[o] = "none"
  /\ Settled(o) = {}
  /\ split' = [split EXCEPT ![o] = "pending"]
  /\ UNCHANGED <<orderVars, share, shareTxn, outcomeVars, txn, pays,
                 event, worker>>

(* SplitService.pay_share: select_for_update with select_related locks the *)
(* share, its split and the order.                                         *)
OpenShare(w, s, t) ==
  /\ worker[w].at = "idle"
  /\ split[ShareOf[s]] # "none"
  /\ ShareUnlocked(s)
  /\ OrderUnlocked(ShareOf[s])
  /\ share[s] # "completed"
  /\ order[ShareOf[s]] # "cancelled"
  /\ shareTxn[s] # NoTxn => ~IsOpen(shareTxn[s])
  /\ pays[t] = NoPayable
  /\ pays' = [pays EXCEPT ![t] = s]
  /\ Become(w, [Idle EXCEPT !.at = "sharing", !.txn = t])
  /\ UNCHANGED <<orderVars, splitVars, outcomeVars, txn, event>>

CommitShare(w) ==
  LET t == worker[w].txn
      s == pays[t]
  IN  /\ worker[w].at = "sharing"
      /\ txn' = Moved(t, "processing")
      /\ shareTxn' = [shareTxn EXCEPT ![s] = t]
      /\ share' = [share EXCEPT ![s] = "processing"]
      /\ split' = [split EXCEPT ![ShareOf[s]] =
                     IF PaymentCan(@, "processing") THEN "processing" ELSE @]
      /\ Finish(w)
      /\ UNCHANGED <<orderVars, outcomeVars, pays, event>>

-----------------------------------------------------------------------------
(* The reception of the provider's notifications.                          *)

(* External: an invoice the provider knows may be announced completed or   *)
(* failed, with or without the expected amount, at any time, repeatedly,   *)
(* in any order, or never.                                                 *)
Deliverable(n) == pays[n.id[1]] # NoPayable

(* handle_webhook: get_or_create commits the event on its own, before the  *)
(* transaction that applies it.  The delivery of an event already there is *)
(* answered "already processed" and changes nothing.                       *)
RecordEvent(w, n) ==
  /\ worker[w].at = "idle"
  /\ Deliverable(n)
  /\ event[n.id] = "unknown"
  /\ event' = [event EXCEPT ![n.id] = "recorded"]
  /\ Become(w, [Idle EXCEPT !.at = "recorded", !.txn = n.id[1],
                            !.target = n.id[2], !.exact = n.exact])
  /\ UNCHANGED <<orderVars, splitVars, outcomeVars, txn, pays>>

EventOf(w)  == <<worker[w].txn, worker[w].target>>
CloseEvent(w) == event' = [event EXCEPT ![EventOf(w)] = "closed"]

(* _apply: what the locked row says of the notification.                   *)
ApplicableToAnyState(w) ==                       \* mutant: the machine is not asked
  /\ txn[worker[w].txn] # "absent"
  /\ worker[w].target = "completed" => worker[w].exact
Applicable(w) ==
  LET t == worker[w].txn
  IN  /\ txn[t] # "absent"
      /\ PaymentCan(txn[t], worker[w].target)
      /\ worker[w].target = "completed" => worker[w].exact

(* No row, status already reached, illegal transition or another amount:   *)
(* the event is closed with its anomaly and nothing else moves.            *)
DiscardEvent(w) ==
  /\ worker[w].at = "recorded"
  /\ TxnUnlocked(worker[w].txn)
  /\ ~Applicable(w)
  /\ CloseEvent(w)
  /\ Finish(w)
  /\ UNCHANGED <<orderVars, splitVars, outcomeVars, txn, pays>>

FailTxn(w) ==
  /\ worker[w].at = "recorded"
  /\ worker[w].target = "failed"
  /\ TxnUnlocked(worker[w].txn)
  /\ Applicable(w)
  /\ txn' = Moved(worker[w].txn, "failed")
  /\ CloseEvent(w)
  /\ Finish(w)
  /\ UNCHANGED <<orderVars, splitVars, outcomeVars, pays>>

(* The row is locked and moved; txn.order is read, not locked.             *)
BeginSettlement(w) ==
  /\ worker[w].at = "recorded"
  /\ worker[w].target = "completed"
  /\ TxnUnlocked(worker[w].txn)
  /\ Applicable(w)
  /\ Become(w, [worker[w] EXCEPT !.at = "locked",
                                 !.seen = order[OrderOfTxn(worker[w].txn)]])
  /\ UNCHANGED <<orderVars, splitVars, outcomeVars, txn, pays, event>>

(* The share backed by the transaction a worker is settling, if any.       *)
SharesBackedByPending(t) ==                      \* mutant: a started share is refused
  {s \in Shares : shareTxn[s] = t /\ share[s] = "pending"}
SharesBackedBy(t) ==
  {s \in Shares : shareTxn[s] = t /\ PaymentCan(share[s], "completed")}

(* SplitService.on_transaction_settled, _close_if_complete and the first   *)
(* settled_total: they see committed rows and this worker's own writes.    *)
SettleShare(w) ==
  LET t == worker[w].txn
      o == OrderOfTxn(t)
  IN  /\ worker[w].at = "locked"
      /\ \A s \in Shares : shareTxn[s] = t => ShareUnlocked(s)
      /\ Become(w, [worker[w] EXCEPT
           !.at = "counted",
           !.tally = Settled(o) \cup {t},
           !.closing =
              /\ SharesBackedBy(t) # {}
              /\ \A s \in SharesOf(o) \ SharesBackedBy(t) : share[s] = "completed"
              /\ PaymentCan(split[o], "completed")])
      /\ UNCHANGED <<orderVars, splitVars, outcomeVars, txn, pays, event>>

(* _confirm_order: the total is read again once the UPDATE of amount_paid  *)
(* holds the order row; the status it tests is the one read before.        *)
WantsConfirmationOnFirstCount(w) ==              \* mutant: the total is not read again
  /\ FullyPaid(OrderOfTxn(worker[w].txn), worker[w].tally)
  /\ OrderCan(worker[w].seen, "confirmed")
WantsConfirmationOfAnyPayment(w) ==              \* mutant: a part payment confirms
  OrderCan(worker[w].seen, "confirmed")
WantsConfirmation(w) ==
  LET t == worker[w].txn
      o == OrderOfTxn(t)
  IN  /\ FullyPaid(o, Settled(o) \cup {t})
      /\ OrderCan(worker[w].seen, "confirmed")

(* transition_to under the lock: a no-op, a legal transition, or an error. *)
ConfirmationLegal(o) ==
  order[o] = "confirmed" \/ OrderCan(order[o], "confirmed")

(* on_payment_to_refund, which reads the order again before it judges.     *)
MustAlertOnFirstRead(w) ==                       \* mutant: no refresh_from_db
  \/ worker[w].seen = "cancelled"
  \/ Exceeds(OrderOfTxn(worker[w].txn), worker[w].tally)
MustAlert(w) ==
  LET o == OrderOfTxn(worker[w].txn)
  IN  order[o] = "cancelled" \/ Exceeds(o, worker[w].tally)

CommitSettlement(w) ==
  LET t == worker[w].txn
      o == OrderOfTxn(t)
  IN  /\ worker[w].at = "counted"
      /\ OrderUnlocked(o)
      /\ WantsConfirmation(w) => ConfirmationLegal(o)
      /\ txn' = Moved(t, "completed")
      /\ share' = [s \in Shares |->
                     IF s \in SharesBackedBy(t) THEN "completed" ELSE share[s]]
      /\ split' = [split EXCEPT ![o] = IF worker[w].closing THEN "completed" ELSE @]
      /\ reported' = [reported EXCEPT ![o] = worker[w].tally]
      /\ order' = [order EXCEPT ![o] = IF WantsConfirmation(w) THEN "confirmed" ELSE @]
      /\ effects' = [effects EXCEPT ![t] = @ + 1]
      /\ alerted' = alerted \cup IF MustAlert(w) THEN {t} ELSE {}
      /\ CloseEvent(w)
      /\ Finish(w)
      /\ UNCHANGED <<sweeping, shareTxn, pays>>

(* IllegalTransition leaves _apply: everything is rolled back but the      *)
(* event, which was committed before.                                      *)
AbortSettlement(w) ==
  LET o == OrderOfTxn(worker[w].txn)
  IN  /\ worker[w].at = "counted"
      /\ OrderUnlocked(o)
      /\ WantsConfirmation(w)
      /\ ~ConfirmationLegal(o)
      /\ Finish(w)
      /\ UNCHANGED <<orderVars, splitVars, outcomeVars, txn, pays, event>>

Crash(w) ==
  /\ Crashes
  /\ worker[w].at # "idle"
  /\ Finish(w)
  /\ UNCHANGED <<orderVars, splitVars, outcomeVars, txn, pays, event>>

-----------------------------------------------------------------------------
(* The other writers of the order.  OrderService.transition_to locks the   *)
(* row, checks the machine and commits: one step here.                     *)

MoveOrder(o) ==
  /\ OrderUnlocked(o)
  /\ \E s \in OrderNext[order[o]] : order' = [order EXCEPT ![o] = s]
  /\ UNCHANGED <<splitVars, outcomeVars, txn, pays, event, sweeping, worker>>

(* expire_unpaid_orders reads its candidates, then cancels them one by     *)
(* one.  Its time limits are abstracted: any order may have waited long    *)
(* enough, and any demand may be old enough.                               *)
SweepReads(o) ==
  /\ order[o] = "pending"
  /\ split[o] = "none"
  /\ sweeping' = sweeping \cup {o}
  /\ UNCHANGED <<order, splitVars, outcomeVars, txn, pays, event, worker>>

SweepCancels(o) ==
  /\ o \in sweeping
  /\ OrderUnlocked(o)
  /\ sweeping' = sweeping \ {o}
  /\ order' = [order EXCEPT ![o] = IF OrderCan(@, "cancelled") THEN "cancelled" ELSE @]
  /\ UNCHANGED <<splitVars, outcomeVars, txn, pays, event, worker>>

-----------------------------------------------------------------------------
WorkerStep(w) ==
  \/ \E t \in Txns : \/ \E o \in Orders : OpenCheckout(w, o, t)
                     \/ \E s \in Shares : OpenShare(w, s, t)
  \/ CommitCheckout(w)
  \/ CommitShare(w)
  \/ \E n \in Notifications : RecordEvent(w, n)
  \/ DiscardEvent(w)
  \/ FailTxn(w)
  \/ BeginSettlement(w)
  \/ SettleShare(w)
  \/ CommitSettlement(w)
  \/ AbortSettlement(w)
  \/ Crash(w)

OrderStep(o) == CreateSplit(o) \/ MoveOrder(o) \/ SweepReads(o) \/ SweepCancels(o)

Next ==
  \/ \E w \in Workers : WorkerStep(w)
  \/ \E o \in Orders : OrderStep(o)

Spec == Init /\ [][Next]_vars

-----------------------------------------------------------------------------
TypeOK ==
  /\ order \in [Orders -> OrderStatus]
  /\ reported \in [Orders -> SUBSET Txns]
  /\ split \in [Orders -> {"none", "pending", "processing", "completed"}]
  /\ share \in [Shares -> {"pending", "processing", "completed"}]
  /\ shareTxn \in [Shares -> Txns \cup {NoTxn}]
  /\ txn \in [Txns -> {"absent", "processing", "completed", "failed"}]
  /\ pays \in [Txns -> Payables \cup {NoPayable}]
  /\ event \in [EventIds -> {"unknown", "recorded", "closed"}]
  /\ alerted \subseteq Txns
  /\ effects \in [Txns -> Nat]
  /\ sweeping \subseteq Orders
  /\ worker \in [Workers -> WorkerStates]

(* C5: a demand still open is returned, never doubled; what is collected   *)
(* is not asked for again.  At most one live transaction per payable,      *)
(* whatever retries, failed attempts and late notifications come between   *)
(* (services.py initiate, split.py pay_share).                             *)
Live(t) == txn[t] \in {"processing", "completed"}
OneLiveDemand ==
  \A t, u \in Txns : Live(t) /\ Live(u) /\ pays[t] = pays[u] => t = u

(* A share is settled by its transaction and by nothing else: it is        *)
(* completed exactly when a collected transaction asked for it (split.py   *)
(* pay_share, on_transaction_settled), whatever attempts came before.      *)
SharesFollowTxns ==
  \A s \in Shares :
    share[s] = "completed" <=> \E t \in Txns : txn[t] = "completed" /\ pays[t] = s

(* An order whose collected transactions cover its total never stays       *)
(* pending, even when its last shares are settled by two workers at once:  *)
(* _confirm_order counts again under the row lock of amount_paid.          *)
PaidInFullIsNotPending ==
  \A o \in Orders : FullyPaid(o, Settled(o)) => order[o] # "pending"

(* P1: the effects of a settlement (points, subscriptions, alerts: the     *)
(* subscribers of payment_transaction_settled) are committed exactly once  *)
(* per collected transaction, and never without the collection.            *)
SettledOnce ==
  \A t \in Txns : effects[t] = IF txn[t] = "completed" THEN 1 ELSE 0

(* A payment recorded on an order already cancelled tells staff to refund  *)
(* it (notifications/receivers.py on_payment_to_refund), even when the     *)
(* cancellation was committed after the worker had read the order.         *)
LateSettlementAlerted ==
  [][\A t \in Txns : txn[t] # "completed" /\ txn'[t] = "completed"
       => (order[OrderOfTxn(t)] = "cancelled" => t \in alerted')]_vars

(* Why the above hold: who may be where, and what a handler in flight may  *)
(* rely on until it commits, whatever the other workers commit meanwhile.  *)
(* An order has one demand being opened, a transaction one settlement      *)
(* (the row locks of initiate, pay_share and _apply).                      *)
LockDiscipline ==
  \A v, w \in Workers :
    \/ v = w
    \/ /\ Opening(v) /\ Opening(w)
          => OrderOfTxn(worker[v].txn) # OrderOfTxn(worker[w].txn)
       /\ Settling(v) /\ Settling(w) => worker[v].txn # worker[w].txn

(* A row is written after its invoice is opened, and a worker is busy with *)
(* an invoice that exists.                                                 *)
InvoicesFirst ==
  /\ \A t \in Txns : txn[t] # "absent" => pays[t] # NoPayable
  /\ \A w \in Workers : worker[w].at # "idle" =>
        worker[w].txn \in Txns /\ pays[worker[w].txn] # NoPayable

(* Nobody demands, before it commits, what a handler that is opening a     *)
(* demand found undemanded.                                                *)
OpeningsAreSole ==
  /\ \A w \in Workers : Opening(w) =>
        /\ txn[worker[w].txn] = "absent"
        /\ pays[worker[w].txn] \in IF worker[w].at = "sharing" THEN Shares ELSE Orders
        /\ \A t \in Txns : Live(t) => pays[t] # pays[worker[w].txn]
  /\ \A w \in Workers : worker[w].at = "sharing" =>
        LET s == pays[worker[w].txn]
        IN  /\ share[s] # "completed"
            /\ shareTxn[s] # NoTxn => txn[shareTxn[s]] \notin {"absent", "processing"}

(* A settlement in flight works on a transaction that stays processing,    *)
(* and an order it has not read pending has left pending for good.         *)
SettlingIsStable ==
  \A w \in Workers : Settling(w) =>
    /\ txn[worker[w].txn] = "processing"
    /\ worker[w].seen # "pending" => order[OrderOfTxn(worker[w].txn)] # "pending"

(* SplitShare.transaction and Transaction tell the same story.             *)
SharesLinked ==
  \A s \in Shares :
    /\ shareTxn[s] # NoTxn => txn[shareTxn[s]] # "absent" /\ pays[shareTxn[s]] = s
    /\ share[s] = "completed" => shareTxn[s] # NoTxn /\ txn[shareTxn[s]] = "completed"
    /\ \A t \in Txns : Live(t) /\ pays[t] = s => shareTxn[s] = t /\ share[s] = txn[t]

IndInv ==
  /\ LockDiscipline
  /\ InvoicesFirst
  /\ OpeningsAreSole
  /\ SettlingIsStable
  /\ SharesLinked
  /\ OneLiveDemand
  /\ PaidInFullIsNotPending
  /\ SettledOnce

(* The detailed handlers implement the one-step collection.                *)
Promise == INSTANCE Collection
             WITH collected <- {pays[t] : t \in {u \in Txns : txn[u] = "completed"}}
CollectionSpec == Promise!Spec

-----------------------------------------------------------------------------
(* What the documentation of the code says, and its races break.           *)

(* services.py handle_webhook: the replay of an event is answered with     *)
(* success because it "has already been processed".  An event that is      *)
(* there, and on which no worker is busy, has been processed.              *)
ReplayAnswerIsTrue ==
  \A e \in EventIds :
    event[e] = "recorded" => \E w \in Workers : worker[w].at # "idle" /\ EventOf(w) = e

(* tasks.py expire_unpaid_orders: an order that a payment covered and      *)
(* confirmed between the reading and the lock is left alone.               *)
SweepSparesConfirmed ==
  [][\A o \in sweeping \ sweeping' :
       order[o] = "confirmed" /\ FullyPaid(o, Settled(o)) => order'[o] = "confirmed"]_vars

(* services.py report_settled_total and _apply: the order always carries   *)
(* the up-to-date collected total.                                         *)
ReportedIsSettled == \A o \in Orders : reported[o] = Settled(o)
=============================================================================
