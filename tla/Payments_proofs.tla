--------------------------- MODULE Payments_proofs ---------------------------
(***************************************************************************)
(* Proofs about Payments, for every number of orders, shares, transactions *)
(* and workers.                                                            *)
(***************************************************************************)
EXTENDS Payments, TLAPS

-----------------------------------------------------------------------------
(* Type correctness.  The type of what a worker has read of its order      *)
(* depends on the order of its transaction being defined: the invoice is   *)
(* opened before the row is written and before anything is notified.       *)

Named(w) == worker[w].txn \in Txns /\ pays[worker[w].txn] # NoPayable
WellFormed == TypeOK /\ InvoicesFirst

LEMMA IdleType == Idle \in WorkerStates
BY DEF Idle, WorkerStates, Stages, OrderStatus

LEMMA LockedType ==
  ASSUME NEW r \in WorkerStates, NEW status \in OrderStatus
  PROVE  /\ [r EXCEPT !.at = "locked", !.seen = status] \in WorkerStates
         /\ [r EXCEPT !.at = "locked", !.seen = status].txn = r.txn
BY DEF WorkerStates, Stages

LEMMA CountedType ==
  ASSUME NEW r \in WorkerStates, NEW T \in SUBSET Txns, NEW b \in BOOLEAN
  PROVE  /\ [r EXCEPT !.at = "counted", !.tally = T, !.closing = b] \in WorkerStates
         /\ [r EXCEPT !.at = "counted", !.tally = T, !.closing = b].txn = r.txn
BY DEF WorkerStates, Stages

(* What going on with a notification keeps of it.                          *)
LEMMA LockedKeeps ==
  ASSUME NEW r \in WorkerStates, NEW status \in OrderStatus
  PROVE  /\ [r EXCEPT !.at = "locked", !.seen = status].at = "locked"
         /\ [r EXCEPT !.at = "locked", !.seen = status].target = r.target
BY DEF WorkerStates

LEMMA CountedKeeps ==
  ASSUME NEW r \in WorkerStates, NEW T \in SUBSET Txns, NEW b \in BOOLEAN
  PROVE  /\ [r EXCEPT !.at = "counted", !.tally = T, !.closing = b].at = "counted"
         /\ [r EXCEPT !.at = "counted", !.tally = T, !.closing = b].target = r.target
         /\ [r EXCEPT !.at = "counted", !.tally = T, !.closing = b].tally = T
BY DEF WorkerStates

LEMMA OrderOfType == \A p \in Payables : OrderOf(p) \in Orders
BY PayablesAssumption DEF Payables, OrderOf

LEMMA BecomeType ==
  ASSUME worker \in [Workers -> WorkerStates], NEW w \in Workers,
         NEW state \in WorkerStates, Become(w, state)
  PROVE  /\ worker' \in [Workers -> WorkerStates]
         /\ worker'[w] = state
         /\ \A v \in Workers : v # w => worker'[v] = worker[v]
BY DEF Become

LEMMA FinishType ==
  ASSUME worker \in [Workers -> WorkerStates], NEW w \in Workers, Finish(w)
  PROVE  /\ worker' \in [Workers -> WorkerStates]
         /\ worker'[w].at = "idle"
         /\ \A v \in Workers : v # w => worker'[v] = worker[v]
BY IdleType, BecomeType DEF Finish, Idle

LEMMA InitWellFormed == Init => WellFormed
BY IdleType DEF Init, WellFormed, InvoicesFirst, TypeOK, OrderStatus, EventIds, Idle

(* What a handler that ends here leaves well formed.                       *)
LEMMA FinishWellFormed ==
  ASSUME WellFormed, NEW w \in Workers, Finish(w), TypeOK', UNCHANGED pays,
         \A t \in Txns : txn'[t] # txn[t] => t = worker[w].txn /\ worker[w].at # "idle"
  PROVE  WellFormed'
BY FinishType DEF WellFormed, InvoicesFirst, TypeOK, Named

LEMMA BecomeWellFormed ==
  ASSUME WellFormed, NEW w \in Workers, NEW state \in WorkerStates, Become(w, state),
         TypeOK', UNCHANGED txn, state.txn \in Txns, pays'[state.txn] # NoPayable,
         \A t \in Txns : pays[t] # NoPayable => pays'[t] # NoPayable
  PROVE  WellFormed'
BY BecomeType DEF WellFormed, InvoicesFirst, TypeOK, Named

LEMMA StepWellFormed == WellFormed /\ [Next]_vars => WellFormed'
<1> SUFFICES ASSUME WellFormed, [Next]_vars PROVE WellFormed'
  OBVIOUS
<1> TypeOK
  BY DEF WellFormed
<1>1. ASSUME NEW w \in Workers, NEW o \in Orders, NEW t \in Txns, OpenCheckout(w, o, t)
      PROVE  WellFormed'
  <2> DEFINE state == [Idle EXCEPT !.at = "checkout", !.txn = t]
  <2>1. state \in WorkerStates /\ state.txn = t
    BY IdleType DEF WorkerStates, Stages
  <2>2. Become(w, state)
    BY <1>1 DEF OpenCheckout
  <2>3. worker' \in [Workers -> WorkerStates]
    BY <2>1, <2>2, BecomeType DEF TypeOK
  <2>4. pays' = [pays EXCEPT ![t] = o] /\ o # NoPayable
    BY <1>1, PaymentsAssumption DEF OpenCheckout, Payables
  <2>5. TypeOK'
    BY <1>1, <2>3, <2>4 DEF OpenCheckout, orderVars, splitVars, outcomeVars, TypeOK, Payables
  <2>6. UNCHANGED txn
    BY <1>1 DEF OpenCheckout
  <2> HIDE DEF state
  <2> QED
    BY <2>1, <2>2, <2>4, <2>5, <2>6, BecomeWellFormed DEF TypeOK
<1>2. ASSUME NEW w \in Workers, NEW s \in Shares, NEW t \in Txns, OpenShare(w, s, t)
      PROVE  WellFormed'
  <2> DEFINE state == [Idle EXCEPT !.at = "sharing", !.txn = t]
  <2>1. state \in WorkerStates /\ state.txn = t
    BY IdleType DEF WorkerStates, Stages
  <2>2. Become(w, state)
    BY <1>2 DEF OpenShare
  <2>3. worker' \in [Workers -> WorkerStates]
    BY <2>1, <2>2, BecomeType DEF TypeOK
  <2>4. pays' = [pays EXCEPT ![t] = s] /\ s # NoPayable
    BY <1>2, PaymentsAssumption DEF OpenShare, Payables
  <2>5. TypeOK'
    BY <1>2, <2>3, <2>4 DEF OpenShare, orderVars, splitVars, outcomeVars, TypeOK, Payables
  <2>6. UNCHANGED txn
    BY <1>2 DEF OpenShare
  <2> HIDE DEF state
  <2> QED
    BY <2>1, <2>2, <2>4, <2>5, <2>6, BecomeWellFormed DEF TypeOK
<1>3. ASSUME NEW w \in Workers, CommitCheckout(w) PROVE WellFormed'
  <2>1. TypeOK'
    BY <1>3, FinishType DEF CommitCheckout, Moved, orderVars, splitVars, outcomeVars, TypeOK
  <2> QED
    BY <1>3, <2>1, FinishWellFormed DEF CommitCheckout, Moved, TypeOK
<1>4. ASSUME NEW w \in Workers, CommitShare(w) PROVE WellFormed'
  <2>1. TypeOK'
    BY <1>4, FinishType DEF CommitShare, Moved, orderVars, outcomeVars, TypeOK, WellFormed, InvoicesFirst, Named
  <2> QED
    BY <1>4, <2>1, FinishWellFormed DEF CommitShare, Moved, TypeOK
<1>5. ASSUME NEW w \in Workers, NEW n \in Notifications, RecordEvent(w, n)
      PROVE  WellFormed'
  <2> DEFINE state == [Idle EXCEPT !.at = "recorded", !.txn = n.id[1],
                                   !.target = n.id[2], !.exact = n.exact]
  <2>1. n.id \in EventIds /\ n.id[1] \in Txns /\ n.id[2] \in {"completed", "failed"}
        /\ n.exact \in BOOLEAN
    BY DEF Notifications, EventIds
  <2>2. state \in WorkerStates /\ state.txn = n.id[1]
    BY <2>1, IdleType DEF WorkerStates, Stages
  <2>3. Become(w, state)
    BY <1>5 DEF RecordEvent
  <2>4. worker' \in [Workers -> WorkerStates]
    BY <2>2, <2>3, BecomeType DEF TypeOK
  <2>5. TypeOK'
    BY <1>5, <2>1, <2>4 DEF RecordEvent, orderVars, splitVars, outcomeVars, TypeOK
  <2>6. UNCHANGED <<txn, pays>> /\ pays[n.id[1]] # NoPayable
    BY <1>5 DEF RecordEvent, Deliverable
  <2> HIDE DEF state
  <2> QED
    BY <2>1, <2>2, <2>3, <2>5, <2>6, BecomeWellFormed
<1>6. ASSUME NEW w \in Workers, DiscardEvent(w) \/ AbortSettlement(w) \/ Crash(w)
      PROVE  WellFormed'
  <2>1. Finish(w) /\ UNCHANGED <<orderVars, splitVars, outcomeVars, txn, pays>>
    BY <1>6 DEF DiscardEvent, AbortSettlement, Crash
  <2>2. UNCHANGED event \/ CloseEvent(w)
    BY <1>6 DEF DiscardEvent, AbortSettlement, Crash
  <2>3. TypeOK'
    BY <2>1, <2>2, FinishType DEF CloseEvent, orderVars, splitVars, outcomeVars, TypeOK
  <2> QED
    BY <2>1, <2>3, FinishWellFormed
<1>7. ASSUME NEW w \in Workers, FailTxn(w) PROVE WellFormed'
  <2>1. TypeOK'
    BY <1>7, FinishType
       DEF FailTxn, Moved, CloseEvent, orderVars, splitVars, outcomeVars, TypeOK
  <2> QED
    BY <1>7, <2>1, FinishWellFormed DEF FailTxn, Moved, TypeOK
<1>8. ASSUME NEW w \in Workers, BeginSettlement(w) PROVE WellFormed'
  <2> DEFINE state == [worker[w] EXCEPT !.at = "locked",
                                        !.seen = order[OrderOfTxn(worker[w].txn)]]
  <2>1. Named(w)
    BY <1>8 DEF BeginSettlement, WellFormed, InvoicesFirst, Named
  <2>2. order[OrderOfTxn(worker[w].txn)] \in OrderStatus
    BY <2>1, OrderOfType DEF TypeOK, Named, OrderOfTxn
  <2>3. state \in WorkerStates /\ state.txn = worker[w].txn
    BY <2>2, LockedType DEF TypeOK
  <2>4. Become(w, state)
    BY <1>8 DEF BeginSettlement
  <2>5. UNCHANGED <<orderVars, splitVars, outcomeVars, txn, pays, event>>
    BY <1>8 DEF BeginSettlement
  <2> HIDE DEF state
  <2>6. TypeOK'
    BY <2>3, <2>4, <2>5, BecomeType DEF orderVars, splitVars, outcomeVars, TypeOK
  <2> QED
    BY <2>1, <2>3, <2>4, <2>5, <2>6, BecomeWellFormed DEF Named
<1>9. ASSUME NEW w \in Workers, SettleShare(w) PROVE WellFormed'
  <2> DEFINE t == worker[w].txn
             o == OrderOfTxn(t)
             full == /\ SharesBackedBy(t) # {}
                     /\ \A s \in SharesOf(o) \ SharesBackedBy(t) : share[s] = "completed"
                     /\ PaymentCan(split[o], "completed")
             state == [worker[w] EXCEPT !.at = "counted", !.tally = Settled(o) \cup {t},
                                        !.closing = full]
  <2>1. Named(w)
    BY <1>9 DEF SettleShare, WellFormed, InvoicesFirst, Named
  <2>2. Become(w, state)
    BY <1>9 DEF SettleShare
  <2> HIDE DEF full
  <2>3. Settled(o) \cup {t} \subseteq Txns
    BY <2>1 DEF Settled, Named
  <2>4. full \in BOOLEAN
    BY DEF full
  <2>5. state \in WorkerStates /\ state.txn = t
    <3>1. worker[w] \in WorkerStates
      BY DEF TypeOK
    <3> QED
      BY <2>3, <2>4, <3>1, CountedType
  <2>6. UNCHANGED <<orderVars, splitVars, outcomeVars, txn, pays, event>>
    BY <1>9 DEF SettleShare
  <2> HIDE DEF state
  <2>7. TypeOK'
    BY <2>2, <2>5, <2>6, BecomeType DEF orderVars, splitVars, outcomeVars, TypeOK
  <2> QED
    BY <2>1, <2>2, <2>5, <2>6, <2>7, BecomeWellFormed DEF Named
<1>10. ASSUME NEW w \in Workers, CommitSettlement(w) PROVE WellFormed'
  <2> DEFINE t == worker[w].txn
  <2>1. Named(w) /\ t \in Txns
    BY <1>10 DEF CommitSettlement, WellFormed, InvoicesFirst, Named
  <2>2. Finish(w) /\ UNCHANGED <<sweeping, shareTxn, pays>>
    BY <1>10 DEF CommitSettlement
  <2>3. /\ order' \in [Orders -> OrderStatus]
        /\ reported' \in [Orders -> SUBSET Txns]
        /\ worker' \in [Workers -> WorkerStates]
    BY <1>10, <2>2, FinishType DEF CommitSettlement, TypeOK, OrderStatus, WorkerStates
  <2>4. /\ split' \in [Orders -> {"none", "pending", "processing", "completed"}]
        /\ share' \in [Shares -> {"pending", "processing", "completed"}]
    BY <1>10 DEF CommitSettlement, TypeOK
  <2>5. /\ txn' \in [Txns -> {"absent", "processing", "completed", "failed"}]
        /\ event' \in [EventIds -> {"unknown", "recorded", "closed"}]
        /\ \A u \in Txns : txn'[u] # txn[u] => u = t
    BY <1>10 DEF CommitSettlement, Moved, CloseEvent, TypeOK
  <2>6. alerted' \subseteq Txns /\ effects' \in [Txns -> Nat]
    BY <1>10, <2>1 DEF CommitSettlement, TypeOK
  <2>7. TypeOK'
    BY <2>2, <2>3, <2>4, <2>5, <2>6 DEF TypeOK
  <2> QED
    BY <1>10, <2>2, <2>5, <2>7, FinishWellFormed DEF CommitSettlement
<1>11. ASSUME NEW o \in Orders, OrderStep(o) PROVE WellFormed'
  <2>1. UNCHANGED <<txn, pays, worker>>
    BY <1>11 DEF OrderStep, CreateSplit, MoveOrder, SweepReads, SweepCancels
  <2>2. TypeOK'
    BY <1>11 DEF OrderStep, CreateSplit, MoveOrder, SweepReads, SweepCancels, orderVars,
                 splitVars, outcomeVars, OrderNext, OrderCan, OrderStatus, TypeOK
  <2> QED
    BY <2>1, <2>2 DEF WellFormed, InvoicesFirst, Named
<1>12. CASE UNCHANGED vars
  BY <1>12 DEF vars, WellFormed, InvoicesFirst, TypeOK, Named
<1> QED
  BY <1>1, <1>2, <1>3, <1>4, <1>5, <1>6, <1>7, <1>8, <1>9, <1>10, <1>11, <1>12
     DEF Next, WorkerStep

(* Every variable keeps its type in every reachable state.                 *)
THEOREM TypeCorrect == Spec => []TypeOK
<1>1. WellFormed => TypeOK
  BY DEF WellFormed
<1> QED
  BY <1>1, InitWellFormed, StepWellFormed, PTL DEF Spec

-----------------------------------------------------------------------------
(* The inductive invariant.  Each lemma below is about one action, or      *)
(* about the actions that disturb the same variables.                      *)

Inv == WellFormed /\ IndInv

LEMMA InitInv == Init => IndInv
<1> SUFFICES ASSUME Init PROVE IndInv
  OBVIOUS
<1>1. \A w \in Workers : worker[w].at = "idle"
  BY DEF Init, Idle
<1>2. LockDiscipline /\ InvoicesFirst /\ OpeningsAreSole /\ SettlingIsStable
  BY <1>1, PaymentsAssumption
     DEF Init, LockDiscipline, InvoicesFirst, OpeningsAreSole, SettlingIsStable, Opening, Settling
<1>3. SharesLinked /\ OneLiveDemand /\ SettledOnce
  BY DEF Init, SharesLinked, OneLiveDemand, SettledOnce, Live
<1>4. PaidInFullIsNotPending
  <2> SUFFICES ASSUME NEW o \in Orders PROVE ~FullyPaid(o, Settled(o))
    BY DEF PaidInFullIsNotPending
  <2>1. PaidBy(Settled(o)) = {}
    BY DEF Init, Settled, PaidBy
  <2> QED
    BY <2>1, PayablesAssumption DEF FullyPaid, Covered, SharesOf
<1> QED
  BY <1>2, <1>3, <1>4 DEF IndInv

(* What an order has been paid only depends on the collected transactions. *)
LEMMA PaidUnchanged ==
  ASSUME NEW o,
         \A t \in Txns : txn'[t] = "completed" <=> txn[t] = "completed",
         \A t \in Txns : txn[t] = "completed" => pays'[t] = pays[t]
  PROVE  FullyPaid(o, Settled(o))' <=> FullyPaid(o, Settled(o))
<1>1. Settled(o)' = Settled(o)
  BY DEF Settled, OrderOfTxn
<1>2. PaidBy(Settled(o))' = PaidBy(Settled(o))
  BY <1>1 DEF PaidBy, Settled
<1> QED
  BY <1>2 DEF FullyPaid

(* Moving an order, which never goes back to pending, and what touches     *)
(* neither a worker, a transaction nor a share.                            *)
LEMMA OrderMoves ==
  ASSUME Inv, WellFormed', UNCHANGED <<share, shareTxn, txn, pays, effects, worker>>,
         \A o \in Orders : order'[o] = "pending" => order[o] = "pending"
  PROVE  IndInv'
<1>1. LockDiscipline' /\ OpeningsAreSole' /\ SharesLinked' /\ OneLiveDemand' /\ SettledOnce'
  BY DEF Inv, IndInv, LockDiscipline, OpeningsAreSole, SharesLinked, OneLiveDemand, SettledOnce,
         Opening, Settling, OrderOfTxn, Live
<1>2. SettlingIsStable'
  <2> SUFFICES ASSUME NEW w \in Workers, Settling(w)
               PROVE  OrderOfTxn(worker[w].txn) \in Orders
    BY DEF Inv, IndInv, SettlingIsStable, Settling, OrderOfTxn
  <2> QED
    BY OrderOfType DEF Inv, WellFormed, TypeOK, InvoicesFirst, Settling, OrderOfTxn
<1>3. PaidInFullIsNotPending'
  BY PaidUnchanged DEF Inv, IndInv, PaidInFullIsNotPending
<1> QED
  BY <1>1, <1>2, <1>3 DEF IndInv, WellFormed

(* A worker that ends its handler without writing to the payments.         *)
LEMMA WorkerGivesUp ==
  ASSUME Inv, WellFormed', NEW w \in Workers, Finish(w),
         UNCHANGED <<order, share, shareTxn, txn, pays, effects>>
  PROVE  IndInv'
<1>1. worker'[w].at = "idle" /\ \A v \in Workers : v # w => worker'[v] = worker[v]
  BY FinishType DEF Inv, WellFormed, TypeOK
<1>2. LockDiscipline' /\ OpeningsAreSole' /\ SettlingIsStable'
  BY <1>1 DEF Inv, IndInv, LockDiscipline, OpeningsAreSole, SettlingIsStable,
              Opening, Settling, OrderOfTxn, Live
<1>3. SharesLinked' /\ OneLiveDemand' /\ SettledOnce'
  BY DEF Inv, IndInv, SharesLinked, OneLiveDemand, SettledOnce, Live
<1>4. PaidInFullIsNotPending'
  BY PaidUnchanged DEF Inv, IndInv, PaidInFullIsNotPending
<1> QED
  BY <1>2, <1>3, <1>4 DEF IndInv, WellFormed

(* A worker that takes a notification on, or goes further with it.         *)
LEMMA WorkerGoesOn ==
  ASSUME Inv, WellFormed', NEW w \in Workers, NEW state \in WorkerStates, Become(w, state),
         UNCHANGED <<order, share, shareTxn, txn, pays, effects>>,
         state.at \in {"recorded", "locked", "counted"},
         state.at # "recorded" =>
           /\ txn[state.txn] = "processing"
           /\ state.seen # "pending" => order[OrderOfTxn(state.txn)] # "pending"
           /\ \A v \in Workers : v # w /\ Settling(v) => worker[v].txn # state.txn
  PROVE  IndInv'
<1>1. worker'[w] = state /\ \A v \in Workers : v # w => worker'[v] = worker[v]
  BY BecomeType DEF Inv, WellFormed, TypeOK
<1>2. LockDiscipline'
  BY <1>1 DEF Inv, IndInv, LockDiscipline, Opening, Settling, OrderOfTxn
<1>3. OpeningsAreSole'
  BY <1>1 DEF Inv, IndInv, OpeningsAreSole, Opening, Live
<1>4. SettlingIsStable'
  BY <1>1 DEF Inv, IndInv, SettlingIsStable, Settling, OrderOfTxn
<1>5. SharesLinked' /\ OneLiveDemand' /\ SettledOnce'
  BY DEF Inv, IndInv, SharesLinked, OneLiveDemand, SettledOnce, Live
<1>6. PaidInFullIsNotPending'
  BY PaidUnchanged DEF Inv, IndInv, PaidInFullIsNotPending
<1> QED
  BY <1>2, <1>3, <1>4, <1>5, <1>6 DEF IndInv, WellFormed

(* A worker that opens a demand: nobody opens one for the same order, and  *)
(* no live transaction demands the payable.                                *)
LEMMA WorkerOpens ==
  ASSUME Inv, WellFormed', NEW w \in Workers, NEW t \in Txns, NEW p \in Payables,
         NEW state \in WorkerStates, Become(w, state),
         UNCHANGED <<order, share, shareTxn, txn, effects>>,
         pays' = [pays EXCEPT ![t] = p], pays[t] = NoPayable,
         state.txn = t,
         \/ state.at = "checkout" /\ p \in Orders
         \/ /\ state.at = "sharing" /\ p \in Shares
            /\ share[p] # "completed"
            /\ shareTxn[p] # NoTxn => txn[shareTxn[p]] \notin {"absent", "processing"},
         OrderUnlocked(OrderOf(p)),
         \A u \in Txns : Live(u) => pays[u] # p
  PROVE  IndInv'
<1>1. worker'[w] = state /\ \A v \in Workers : v # w => worker'[v] = worker[v]
  BY BecomeType DEF Inv, WellFormed, TypeOK
<1>2. /\ pays'[t] = p
      /\ \A u \in Txns : pays[u] # NoPayable => u # t /\ pays'[u] = pays[u]
      /\ \A u \in Txns : txn[u] # "absent" => pays[u] # NoPayable
      /\ \A v \in Workers : worker[v].at # "idle" =>
           worker[v].txn \in Txns /\ pays[worker[v].txn] # NoPayable
  BY DEF Inv, WellFormed, TypeOK, InvoicesFirst
<1>3. LockDiscipline'
  BY <1>1, <1>2 DEF Inv, IndInv, LockDiscipline, Opening, Settling, OrderOfTxn, OrderUnlocked
<1>4. OpeningsAreSole'
  BY <1>1, <1>2, PayablesAssumption DEF Inv, IndInv, OpeningsAreSole, Opening, Live
<1>5. SettlingIsStable'
  BY <1>1, <1>2 DEF Inv, IndInv, SettlingIsStable, Settling, OrderOfTxn
<1>6. SharesLinked'
  BY <1>2 DEF Inv, IndInv, SharesLinked, Live, WellFormed, TypeOK
<1>7. OneLiveDemand' /\ SettledOnce'
  BY <1>2 DEF Inv, IndInv, OneLiveDemand, SettledOnce, Live
<1>8. PaidInFullIsNotPending'
  BY <1>2, PaidUnchanged DEF Inv, IndInv, PaidInFullIsNotPending
<1> QED
  BY <1>3, <1>4, <1>5, <1>6, <1>7, <1>8 DEF IndInv, WellFormed

LEMMA CheckoutCommits ==
  ASSUME Inv, WellFormed', NEW w \in Workers, CommitCheckout(w)
  PROVE  IndInv'
<1> DEFINE t == worker[w].txn
<1>1. /\ worker[w].at = "checkout" /\ Opening(w)
      /\ UNCHANGED <<order, share, shareTxn, effects, pays>>
  BY DEF CommitCheckout, Opening, orderVars, splitVars, outcomeVars
<1>2. worker'[w].at = "idle" /\ \A v \in Workers : v # w => worker'[v] = worker[v]
  BY FinishType DEF Inv, WellFormed, TypeOK, CommitCheckout
<1>3. /\ t \in Txns /\ txn[t] = "absent" /\ pays[t] \in Orders
      /\ \A u \in Txns : Live(u) => pays[u] # pays[t]
  BY <1>1 DEF Inv, IndInv, InvoicesFirst, OpeningsAreSole
<1>4. txn'[t] = "processing" /\ \A u \in Txns : u # t => txn'[u] = txn[u]
  BY <1>3 DEF CommitCheckout, Moved, Inv, WellFormed, TypeOK
<1>5. LockDiscipline'
  BY <1>1, <1>2 DEF Inv, IndInv, LockDiscipline, Opening, Settling, OrderOfTxn
<1>6. OpeningsAreSole'
  <2>1. \A v \in Workers : v # w /\ Opening(v) => pays[worker[v].txn] # pays[t]
    BY <1>1 DEF Inv, IndInv, LockDiscipline, OrderOfTxn
  <2>2. \A s \in Shares : shareTxn[s] # NoTxn => shareTxn[s] # t /\ shareTxn[s] \in Txns
    BY <1>3 DEF Inv, IndInv, SharesLinked, WellFormed, TypeOK
  <2> QED
    BY <1>1, <1>2, <1>3, <1>4, <2>1, <2>2
       DEF Inv, IndInv, OpeningsAreSole, InvoicesFirst, Opening, Live
<1>7. SettlingIsStable'
  BY <1>1, <1>2, <1>3, <1>4
     DEF Inv, IndInv, SettlingIsStable, InvoicesFirst, Settling, OrderOfTxn
<1>8. SharesLinked'
  BY <1>1, <1>3, <1>4, PayablesAssumption
     DEF Inv, IndInv, SharesLinked, Live, WellFormed, TypeOK
<1>9. OneLiveDemand' /\ SettledOnce'
  BY <1>1, <1>3, <1>4 DEF Inv, IndInv, OneLiveDemand, SettledOnce, Live
<1>10. PaidInFullIsNotPending'
  BY <1>1, <1>3, <1>4, PaidUnchanged DEF Inv, IndInv, PaidInFullIsNotPending
<1> QED
  BY <1>5, <1>6, <1>7, <1>8, <1>9, <1>10 DEF IndInv, WellFormed

LEMMA ShareCommits ==
  ASSUME Inv, WellFormed', NEW w \in Workers, CommitShare(w)
  PROVE  IndInv'
<1> DEFINE t == worker[w].txn
           s == pays[t]
<1>1. /\ worker[w].at = "sharing" /\ Opening(w)
      /\ UNCHANGED <<order, effects, pays>>
  BY DEF CommitShare, Opening, orderVars, outcomeVars
<1>2. worker'[w].at = "idle" /\ \A v \in Workers : v # w => worker'[v] = worker[v]
  BY FinishType DEF Inv, WellFormed, TypeOK, CommitShare
<1>3. /\ t \in Txns /\ txn[t] = "absent" /\ s \in Shares
      /\ \A u \in Txns : Live(u) => pays[u] # s
      /\ share[s] # "completed"
  BY <1>1 DEF Inv, IndInv, InvoicesFirst, OpeningsAreSole
<1>4. /\ txn'[t] = "processing" /\ \A u \in Txns : u # t => txn'[u] = txn[u]
      /\ shareTxn'[s] = t /\ \A r \in Shares : r # s => shareTxn'[r] = shareTxn[r]
      /\ share'[s] = "processing" /\ \A r \in Shares : r # s => share'[r] = share[r]
  BY <1>3 DEF CommitShare, Moved, Inv, WellFormed, TypeOK
<1>5. \A v \in Workers : v # w /\ Opening(v) => pays[worker[v].txn] # s
  BY <1>1 DEF Inv, IndInv, LockDiscipline, OrderOfTxn
<1>6. \A r \in Shares : shareTxn[r] # NoTxn => shareTxn[r] # t /\ shareTxn[r] \in Txns
  BY <1>3 DEF Inv, IndInv, SharesLinked, WellFormed, TypeOK
<1>7. LockDiscipline'
  BY <1>1, <1>2 DEF Inv, IndInv, LockDiscipline, Opening, Settling, OrderOfTxn
<1>8. OpeningsAreSole'
  BY <1>1, <1>2, <1>3, <1>4, <1>5, <1>6
     DEF Inv, IndInv, OpeningsAreSole, InvoicesFirst, Opening, Live
<1>9. SettlingIsStable'
  BY <1>1, <1>2, <1>3, <1>4
     DEF Inv, IndInv, SettlingIsStable, InvoicesFirst, Settling, OrderOfTxn
<1>10. SharesLinked'
  BY <1>1, <1>3, <1>4, <1>6 DEF Inv, IndInv, SharesLinked, Live
<1>11. OneLiveDemand' /\ SettledOnce'
  BY <1>1, <1>3, <1>4 DEF Inv, IndInv, OneLiveDemand, SettledOnce, Live
<1>12. PaidInFullIsNotPending'
  BY <1>1, <1>3, <1>4, PaidUnchanged DEF Inv, IndInv, PaidInFullIsNotPending
<1> QED
  BY <1>7, <1>8, <1>9, <1>10, <1>11, <1>12 DEF IndInv, WellFormed

LEMMA FailureCommits ==
  ASSUME Inv, WellFormed', NEW w \in Workers, FailTxn(w)
  PROVE  IndInv'
<1> DEFINE t == worker[w].txn
<1>1. /\ t \in Txns /\ TxnUnlocked(t) /\ txn[t] = "processing"
      /\ UNCHANGED <<order, share, shareTxn, effects, pays>>
  BY DEF FailTxn, Applicable, PaymentCan, PaymentNext, PaymentStatus, Inv, WellFormed, TypeOK,
         InvoicesFirst, orderVars, splitVars, outcomeVars
<1>2. worker'[w].at = "idle" /\ \A v \in Workers : v # w => worker'[v] = worker[v]
  BY FinishType DEF Inv, WellFormed, TypeOK, FailTxn
<1>3. txn'[t] = "failed" /\ \A u \in Txns : u # t => txn'[u] = txn[u]
  BY <1>1 DEF FailTxn, Moved, Inv, WellFormed, TypeOK
<1>4. LockDiscipline'
  BY <1>1, <1>2 DEF Inv, IndInv, LockDiscipline, Opening, Settling, OrderOfTxn
<1>5. OpeningsAreSole'
  <2>1. \A v \in Workers : Opening(v) => worker[v].txn \in Txns /\ worker[v].txn # t
    BY <1>1 DEF Inv, IndInv, OpeningsAreSole, InvoicesFirst, Opening
  <2> QED
    BY <1>1, <1>2, <1>3, <2>1 DEF Inv, IndInv, OpeningsAreSole, Opening, Live, WellFormed, TypeOK
<1>6. SettlingIsStable'
  BY <1>1, <1>2, <1>3
     DEF Inv, IndInv, SettlingIsStable, InvoicesFirst, Settling, OrderOfTxn, TxnUnlocked
<1>7. SharesLinked'
  BY <1>1, <1>3 DEF Inv, IndInv, SharesLinked, Live, WellFormed, TypeOK
<1>8. OneLiveDemand' /\ SettledOnce'
  BY <1>1, <1>3 DEF Inv, IndInv, OneLiveDemand, SettledOnce, Live
<1>9. PaidInFullIsNotPending'
  BY <1>1, <1>3, PaidUnchanged DEF Inv, IndInv, PaidInFullIsNotPending
<1> QED
  BY <1>4, <1>5, <1>6, <1>7, <1>8, <1>9 DEF IndInv, WellFormed

(* What the commit of a settlement writes, read off the action once.       *)
LEMMA SettlementWrites ==
  ASSUME Inv, NEW w \in Workers, CommitSettlement(w)
  PROVE  LET t == worker[w].txn
             o == OrderOfTxn(t)
         IN  /\ t \in Txns /\ o \in Orders /\ Settling(w)
             /\ txn[t] = "processing" /\ pays[t] \in Payables
             /\ UNCHANGED <<shareTxn, pays>>
             /\ txn'[t] = "completed" /\ \A u \in Txns : u # t => txn'[u] = txn[u]
             /\ effects'[t] = effects[t] + 1
             /\ \A u \in Txns : u # t => effects'[u] = effects[u]
             /\ share' = [s \in Shares |->
                            IF s \in SharesBackedBy(t) THEN "completed" ELSE share[s]]
             /\ order' = [order EXCEPT ![o] =
                            IF WantsConfirmation(w) THEN "confirmed" ELSE @]
             /\ WantsConfirmation(w) => ConfirmationLegal(o)
             /\ worker'[w].at = "idle"
             /\ \A v \in Workers : v # w => worker'[v] = worker[v]
<1> DEFINE t == worker[w].txn
           o == OrderOfTxn(t)
<1>1. t \in Txns /\ pays[t] \in Payables /\ Settling(w) /\ txn[t] = "processing"
  BY DEF CommitSettlement, Settling, Inv, IndInv, InvoicesFirst, SettlingIsStable, WellFormed, TypeOK
<1>2. o \in Orders
  BY <1>1, OrderOfType DEF OrderOfTxn
<1>3. Finish(w)
  BY DEF CommitSettlement
<1>4. worker'[w].at = "idle" /\ \A v \in Workers : v # w => worker'[v] = worker[v]
  BY <1>3, FinishType DEF Inv, WellFormed, TypeOK
<1>5. /\ txn'[t] = "completed" /\ \A u \in Txns : u # t => txn'[u] = txn[u]
      /\ effects'[t] = effects[t] + 1 /\ \A u \in Txns : u # t => effects'[u] = effects[u]
  BY <1>1 DEF CommitSettlement, Moved, Inv, WellFormed, TypeOK
<1> QED
  BY <1>1, <1>2, <1>4, <1>5 DEF CommitSettlement

LEMMA SettlementCommits ==
  ASSUME Inv, WellFormed', NEW w \in Workers, CommitSettlement(w)
  PROVE  IndInv'
<1> DEFINE t == worker[w].txn
           o == OrderOfTxn(t)
<1>1. /\ t \in Txns /\ o \in Orders /\ Settling(w)
      /\ txn[t] = "processing" /\ pays[t] \in Payables
      /\ UNCHANGED <<shareTxn, pays>>
      /\ txn'[t] = "completed" /\ \A u \in Txns : u # t => txn'[u] = txn[u]
  BY SettlementWrites
<1>2. worker'[w].at = "idle" /\ \A v \in Workers : v # w => worker'[v] = worker[v]
  BY SettlementWrites
<1>3. share' = [s \in Shares |-> IF s \in SharesBackedBy(t) THEN "completed" ELSE share[s]]
  BY SettlementWrites
<1>4. order' = [order EXCEPT ![o] = IF WantsConfirmation(w) THEN "confirmed" ELSE @]
  BY SettlementWrites
<1>5. \A v \in Workers : v # w /\ Settling(v) => worker[v].txn # t
  BY <1>1 DEF Inv, IndInv, LockDiscipline
<1>6. \A s \in Shares : s \in SharesBackedBy(t) <=> shareTxn[s] = t /\ share[s] = "processing"
  BY DEF SharesBackedBy, PaymentCan, PaymentNext, PaymentStatus, Inv, WellFormed, TypeOK
<1>7. LockDiscipline'
  BY <1>1, <1>2 DEF Inv, IndInv, LockDiscipline, Opening, Settling, OrderOfTxn
<1>8. OpeningsAreSole'
  <2>1. \A v \in Workers : v # w /\ Opening(v) =>
           worker[v].txn \in Txns /\ worker[v].txn # t
    BY <1>1 DEF Inv, IndInv, OpeningsAreSole, InvoicesFirst, Opening
  <2>2. \A u \in Txns : Live(u)' => Live(u)
    BY <1>1 DEF Live
  <2>3. \A v \in Workers : v # w /\ worker[v].at = "sharing" =>
           /\ pays[worker[v].txn] \in Shares
           /\ shareTxn[pays[worker[v].txn]] # t
           /\ share[pays[worker[v].txn]] # "completed"
    BY <1>1, PaymentsAssumption DEF Inv, IndInv, OpeningsAreSole, Opening
  <2>4. \A v \in Workers : worker'[v].at = "sharing" =>
           share'[pays'[worker'[v].txn]] # "completed"
    BY <1>1, <1>2, <1>3, <1>6, <2>3
  <2>5. \A v \in Workers : worker'[v].at = "sharing" =>
           LET s == pays'[worker'[v].txn]
           IN  shareTxn'[s] # NoTxn => txn'[shareTxn'[s]] \notin {"absent", "processing"}
    BY <1>1, <1>2, <2>3 DEF Inv, IndInv, OpeningsAreSole, WellFormed, TypeOK
  <2>6. \A v \in Workers : Opening(v)' =>
          /\ txn'[worker'[v].txn] = "absent"
          /\ pays'[worker'[v].txn] \in IF worker'[v].at = "sharing" THEN Shares ELSE Orders
          /\ \A u \in Txns : Live(u)' => pays'[u] # pays'[worker'[v].txn]
    BY <1>1, <1>2, <2>1, <2>2 DEF Inv, IndInv, OpeningsAreSole, Opening
  <2> QED
    BY <2>4, <2>5, <2>6 DEF OpeningsAreSole
<1>9. SettlingIsStable'
  <2> SUFFICES ASSUME NEW v \in Workers, Settling(v)'
               PROVE  /\ txn'[worker'[v].txn] = "processing"
                      /\ worker'[v].seen # "pending"
                           => order'[OrderOf(pays'[worker'[v].txn])] # "pending"
    BY DEF SettlingIsStable, OrderOfTxn
  <2>1. v # w /\ worker'[v] = worker[v] /\ Settling(v)
    BY <1>2 DEF Settling
  <2>2. worker[v].txn \in Txns /\ OrderOfTxn(worker[v].txn) \in Orders
    BY <2>1, OrderOfType
       DEF Inv, WellFormed, TypeOK, InvoicesFirst, Settling, OrderOfTxn
  <2>3. order[OrderOfTxn(worker[v].txn)] # "pending" =>
          order'[OrderOfTxn(worker[v].txn)] # "pending"
    BY <1>4, <2>2 DEF Inv, WellFormed, TypeOK
  <2> QED
    BY <1>1, <1>5, <2>1, <2>2, <2>3 DEF Inv, IndInv, SettlingIsStable, OrderOfTxn
<1>10. SharesLinked'
  <2> SUFFICES ASSUME NEW s \in Shares
               PROVE  /\ shareTxn[s] # NoTxn => txn'[shareTxn[s]] # "absent" /\ pays[shareTxn[s]] = s
                      /\ share'[s] = "completed" =>
                           shareTxn[s] # NoTxn /\ txn'[shareTxn[s]] = "completed"
                      /\ \A u \in Txns : Live(u)' /\ pays[u] = s =>
                           shareTxn[s] = u /\ share'[s] = txn'[u]
    BY <1>1 DEF SharesLinked
  <2>1. shareTxn[s] \in Txns \cup {NoTxn}
    BY DEF Inv, WellFormed, TypeOK
  <2>2. /\ shareTxn[s] # NoTxn => txn[shareTxn[s]] # "absent" /\ pays[shareTxn[s]] = s
        /\ share[s] = "completed" => shareTxn[s] # NoTxn /\ txn[shareTxn[s]] = "completed"
        /\ \A u \in Txns : Live(u) /\ pays[u] = s => shareTxn[s] = u /\ share[s] = txn[u]
    BY DEF Inv, IndInv, SharesLinked
  <2>3. share'[s] = IF shareTxn[s] = t /\ share[s] = "processing" THEN "completed" ELSE share[s]
    BY <1>3, <1>6
  <2>4. \A u \in Txns : Live(u)' => Live(u)
    BY <1>1 DEF Live
  <2>5. Live(t)
    BY <1>1 DEF Live
  <2> QED
    BY <1>1, <2>1, <2>2, <2>3, <2>4, <2>5, PaymentsAssumption
<1>11. OneLiveDemand'
  BY <1>1 DEF Inv, IndInv, OneLiveDemand, Live
<1>12. SettledOnce'
  BY SettlementWrites DEF Inv, IndInv, SettledOnce
<1>13. PaidInFullIsNotPending'
  <2> SUFFICES ASSUME NEW a \in Orders, FullyPaid(a, Settled(a))', order'[a] = "pending"
               PROVE  FALSE
    BY DEF PaidInFullIsNotPending
  <2>1. Settled(a)' = IF a = o THEN Settled(a) \cup {t} ELSE Settled(a)
    BY <1>1 DEF Settled, OrderOfTxn
  <2>2. order[a] = "pending" /\ (a = o => ~WantsConfirmation(w))
    BY <1>1, <1>4 DEF Inv, WellFormed, TypeOK
  <2>3. FullyPaid(a, IF a = o THEN Settled(a) \cup {t} ELSE Settled(a))
    BY <1>1, <2>1 DEF FullyPaid, PaidBy
  <2>4. CASE a = o
    <3>1. worker[w].seen = "pending"
      BY <1>1, <2>2, <2>4 DEF Inv, IndInv, SettlingIsStable
    <3> QED
      BY <2>2, <2>3, <2>4, <3>1 DEF WantsConfirmation, OrderCan, OrderNext, OrderStatus
  <2>5. CASE a # o
    BY <2>2, <2>3, <2>5 DEF Inv, IndInv, PaidInFullIsNotPending
  <2> QED
    BY <2>4, <2>5
<1> QED
  BY <1>7, <1>8, <1>9, <1>10, <1>11, <1>12, <1>13 DEF IndInv, WellFormed

LEMMA StepInv == Inv /\ [Next]_vars => Inv'
<1> SUFFICES ASSUME Inv, [Next]_vars PROVE IndInv'
  BY StepWellFormed DEF Inv
<1>0. WellFormed /\ WellFormed'
  BY StepWellFormed DEF Inv
<1>1. ASSUME NEW w \in Workers, NEW o \in Orders, NEW t \in Txns, OpenCheckout(w, o, t)
      PROVE  IndInv'
  <2> DEFINE state == [Idle EXCEPT !.at = "checkout", !.txn = t]
  <2>1. state \in WorkerStates /\ state.txn = t /\ state.at = "checkout"
    BY IdleType DEF WorkerStates, Stages
  <2>2. \A u \in Txns : Live(u) => pays[u] # o
    <3> SUFFICES ASSUME NEW u \in Txns, Live(u), pays[u] = o PROVE FALSE
      OBVIOUS
    <3>1. txn[u] = "completed"
      BY <1>1 DEF OpenCheckout, IsOpen, Live
    <3>2. o \in PaidBy(Settled(o))
      BY <3>1 DEF PaidBy, Settled, OrderOfTxn, OrderOf
    <3> QED
      BY <1>1, <3>2 DEF OpenCheckout, FullyPaid, Covered
  <2>3. Become(w, state)
    BY <1>1 DEF OpenCheckout
  <2>4. /\ UNCHANGED <<order, share, shareTxn, txn, effects>>
        /\ pays' = [pays EXCEPT ![t] = o] /\ pays[t] = NoPayable
        /\ OrderUnlocked(OrderOf(o)) /\ o \in Payables
    BY <1>1 DEF OpenCheckout, orderVars, splitVars, outcomeVars, OrderOf, Payables
  <2> HIDE DEF state
  <2> QED
    BY <1>0, <2>1, <2>2, <2>3, <2>4, WorkerOpens
<1>2. ASSUME NEW w \in Workers, NEW s \in Shares, NEW t \in Txns, OpenShare(w, s, t)
      PROVE  IndInv'
  <2> DEFINE state == [Idle EXCEPT !.at = "sharing", !.txn = t]
  <2>1. state \in WorkerStates /\ state.txn = t /\ state.at = "sharing"
    BY IdleType DEF WorkerStates, Stages
  <2>2. \A u \in Txns : Live(u) => pays[u] # s
    BY <1>1, <1>2, PaymentsAssumption DEF OpenShare, IsOpen, Live, Inv, IndInv, SharesLinked
  <2>3. share[s] # "completed"
        /\ (shareTxn[s] # NoTxn => txn[shareTxn[s]] \notin {"absent", "processing"})
    BY <1>2 DEF OpenShare, IsOpen, Inv, IndInv, SharesLinked
  <2>4. Become(w, state)
    BY <1>2 DEF OpenShare
  <2>5. /\ UNCHANGED <<order, share, shareTxn, txn, effects>>
        /\ pays' = [pays EXCEPT ![t] = s] /\ pays[t] = NoPayable
        /\ OrderUnlocked(OrderOf(s)) /\ s \in Payables
    BY <1>2, PayablesAssumption
       DEF OpenShare, orderVars, splitVars, outcomeVars, OrderOf, Payables
  <2> HIDE DEF state
  <2> QED
    BY <1>0, <2>1, <2>2, <2>3, <2>4, <2>5, WorkerOpens
<1>3. ASSUME NEW w \in Workers, CommitCheckout(w) PROVE IndInv'
  BY <1>0, <1>3, CheckoutCommits
<1>4. ASSUME NEW w \in Workers, CommitShare(w) PROVE IndInv'
  BY <1>0, <1>4, ShareCommits
<1>5. ASSUME NEW w \in Workers, NEW n \in Notifications, RecordEvent(w, n)
      PROVE  IndInv'
  <2> DEFINE state == [Idle EXCEPT !.at = "recorded", !.txn = n.id[1],
                                   !.target = n.id[2], !.exact = n.exact]
  <2>1. n.id[1] \in Txns /\ n.id[2] \in {"completed", "failed"} /\ n.exact \in BOOLEAN
    BY DEF Notifications, EventIds
  <2>2. state \in WorkerStates /\ state.at = "recorded"
    BY <2>1, IdleType DEF WorkerStates, Stages
  <2>3. Become(w, state) /\ UNCHANGED <<order, share, shareTxn, txn, pays, effects>>
    BY <1>5 DEF RecordEvent, orderVars, splitVars, outcomeVars
  <2> HIDE DEF state
  <2> QED
    BY <1>0, <2>2, <2>3, WorkerGoesOn
<1>6. ASSUME NEW w \in Workers, DiscardEvent(w) \/ AbortSettlement(w) \/ Crash(w)
      PROVE  IndInv'
  BY <1>0, <1>6, WorkerGivesUp
     DEF DiscardEvent, AbortSettlement, Crash, orderVars, splitVars, outcomeVars
<1>7. ASSUME NEW w \in Workers, FailTxn(w) PROVE IndInv'
  BY <1>0, <1>7, FailureCommits
<1>8. ASSUME NEW w \in Workers, BeginSettlement(w) PROVE IndInv'
  <2> DEFINE t == worker[w].txn
             state == [worker[w] EXCEPT !.at = "locked", !.seen = order[OrderOfTxn(t)]]
  <2>1. t \in Txns /\ order[OrderOfTxn(t)] \in OrderStatus
    BY <1>0, <1>8, OrderOfType
       DEF BeginSettlement, WellFormed, InvoicesFirst, TypeOK, OrderOfTxn
  <2>2. worker[w] \in WorkerStates
    BY <1>0 DEF WellFormed, TypeOK
  <2>3. /\ state \in WorkerStates /\ state.txn = t /\ state.at = "locked"
        /\ state.seen = order[OrderOfTxn(t)]
    BY <2>1, <2>2, LockedType DEF WorkerStates
  <2>4. txn[t] = "processing" /\ TxnUnlocked(t)
    BY <1>0, <1>8, <2>1 DEF BeginSettlement, Applicable, PaymentCan, PaymentNext, PaymentStatus,
                            WellFormed, TypeOK
  <2>5. Become(w, state) /\ UNCHANGED <<order, share, shareTxn, txn, pays, effects>>
    BY <1>8 DEF BeginSettlement, orderVars, splitVars, outcomeVars
  <2> HIDE DEF state
  <2> QED
    BY <1>0, <2>3, <2>4, <2>5, WorkerGoesOn DEF TxnUnlocked
<1>9. ASSUME NEW w \in Workers, SettleShare(w) PROVE IndInv'
  <2> DEFINE t == worker[w].txn
             o == OrderOfTxn(t)
             full == /\ SharesBackedBy(t) # {}
                     /\ \A s \in SharesOf(o) \ SharesBackedBy(t) : share[s] = "completed"
                     /\ PaymentCan(split[o], "completed")
             state == [worker[w] EXCEPT !.at = "counted", !.tally = Settled(o) \cup {t},
                                        !.closing = full]
  <2>1. Settling(w) /\ t \in Txns
    BY <1>0, <1>9 DEF SettleShare, Settling, WellFormed, InvoicesFirst
  <2>2. Become(w, state) /\ UNCHANGED <<order, share, shareTxn, txn, pays, effects>>
    BY <1>9 DEF SettleShare, orderVars, splitVars, outcomeVars
  <2>3. worker[w] \in WorkerStates /\ full \in BOOLEAN /\ Settled(o) \cup {t} \subseteq Txns
    BY <1>0, <2>1 DEF WellFormed, TypeOK, Settled
  <2> HIDE DEF full
  <2>4. /\ state \in WorkerStates /\ state.txn = t /\ state.at = "counted"
        /\ state.seen = worker[w].seen
    BY <2>3, CountedType DEF WorkerStates
  <2>5. /\ txn[t] = "processing"
        /\ worker[w].seen # "pending" => order[o] # "pending"
        /\ \A v \in Workers : v # w /\ Settling(v) => worker[v].txn # t
    BY <2>1 DEF Inv, IndInv, SettlingIsStable, LockDiscipline
  <2> HIDE DEF state
  <2> QED
    BY <1>0, <2>2, <2>4, <2>5, WorkerGoesOn
<1>10. ASSUME NEW w \in Workers, CommitSettlement(w) PROVE IndInv'
  BY <1>0, <1>10, SettlementCommits
<1>11. ASSUME NEW o \in Orders, OrderStep(o) PROVE IndInv'
  <2>1. UNCHANGED <<share, shareTxn, txn, pays, effects, worker>>
    BY <1>11 DEF OrderStep, CreateSplit, MoveOrder, SweepReads, SweepCancels,
                 orderVars, splitVars, outcomeVars
  <2>2. \A a \in Orders : order'[a] = "pending" => order[a] = "pending"
    <3>1. order \in [Orders -> OrderStatus]
      BY <1>0 DEF WellFormed, TypeOK
    <3>2. \A s \in OrderStatus : "pending" \notin OrderNext[s]
      BY DEF OrderNext, OrderStatus
    <3>3. CASE MoveOrder(o)
      BY <3>1, <3>2, <3>3 DEF MoveOrder
    <3>4. CASE SweepCancels(o)
      BY <3>1, <3>4 DEF SweepCancels
    <3>5. CASE CreateSplit(o) \/ SweepReads(o)
      BY <3>5 DEF CreateSplit, SweepReads, orderVars
    <3> QED
      BY <1>11, <3>3, <3>4, <3>5 DEF OrderStep
  <2> QED
    BY <1>0, <2>1, <2>2, OrderMoves
<1>12. CASE UNCHANGED vars
  BY <1>0, <1>12, OrderMoves DEF vars
<1> QED
  BY <1>1, <1>2, <1>3, <1>4, <1>5, <1>6, <1>7, <1>8, <1>9, <1>10, <1>11, <1>12
     DEF Next, WorkerStep

-----------------------------------------------------------------------------
LEMMA Invariance == Spec => []Inv
<1>1. Init => Inv
  BY InitWellFormed, InitInv DEF Inv
<1> QED
  BY <1>1, StepInv, PTL DEF Spec

(* The locks of initiate, pay_share and _apply exclude what they must, and *)
(* what a handler relies on until its commit stays true.                   *)
THEOREM Inductive == Spec => []IndInv
<1>1. Inv => IndInv
  BY DEF Inv
<1> QED
  BY <1>1, Invariance, PTL

(* No payable is ever demanded twice at once, nor again once collected.    *)
THEOREM DemandsAreSingle == Spec => []OneLiveDemand
<1>1. Inv => OneLiveDemand
  BY DEF Inv, IndInv
<1> QED
  BY <1>1, Invariance, PTL

(* The order that is paid in full is never left pending.                   *)
THEOREM PaidOrdersAreConfirmed == Spec => []PaidInFullIsNotPending
<1>1. Inv => PaidInFullIsNotPending
  BY DEF Inv, IndInv
<1> QED
  BY <1>1, Invariance, PTL

(* The effects of a settlement are committed once, with the settlement.    *)
THEOREM SettlementsAreUnique == Spec => []SettledOnce
<1>1. Inv => SettledOnce
  BY DEF Inv, IndInv
<1> QED
  BY <1>1, Invariance, PTL

(* A share is completed exactly when a collected transaction asked for it. *)
THEOREM SharesAreTruthful == Spec => []SharesFollowTxns
<1>1. Inv => SharesFollowTxns
  BY DEF Inv, WellFormed, TypeOK, IndInv, SharesLinked, SharesFollowTxns, Live
<1> QED
  BY <1>1, Invariance, PTL

LEMMA OnlySettlementsCollect ==
  ASSUME Inv, [Next]_vars, NEW t \in Txns, txn[t] # "completed", txn'[t] = "completed"
  PROVE  \E w \in Workers : CommitSettlement(w) /\ worker[w].txn = t
<1>0. TypeOK /\ InvoicesFirst
  BY DEF Inv, WellFormed
<1>1. ASSUME NEW w \in Workers, WorkerStep(w), ~CommitSettlement(w) PROVE FALSE
  <2>1. txn' # txn
    OBVIOUS
  <2>2. CommitCheckout(w) \/ CommitShare(w) \/ FailTxn(w)
    BY <1>1, <2>1 DEF WorkerStep, OpenCheckout, OpenShare, RecordEvent, DiscardEvent,
                      BeginSettlement, SettleShare, AbortSettlement, Crash
  <2> QED
    BY <1>0, <2>2 DEF CommitCheckout, CommitShare, FailTxn, Moved, TypeOK
<1>2. ASSUME NEW o \in Orders, OrderStep(o) PROVE FALSE
  BY <1>2 DEF OrderStep, CreateSplit, MoveOrder, SweepReads, SweepCancels
<1>3. ASSUME NEW w \in Workers, CommitSettlement(w) PROVE worker[w].txn = t
  BY <1>3, SettlementWrites
<1> QED
  BY <1>1, <1>2, <1>3 DEF Next, vars

(* Whoever commits a payment on an order cancelled meanwhile has told      *)
(* staff to refund it in the same commit.                                  *)
THEOREM LateMoneyIsAnnounced == Spec => LateSettlementAlerted
<1>1. Inv /\ [Next]_vars =>
        [\A t \in Txns : txn[t] # "completed" /\ txn'[t] = "completed"
           => (order[OrderOfTxn(t)] = "cancelled" => t \in alerted')]_vars
  <2> SUFFICES ASSUME Inv, [Next]_vars, NEW t \in Txns,
                      txn[t] # "completed", txn'[t] = "completed",
                      order[OrderOfTxn(t)] = "cancelled"
               PROVE  t \in alerted'
    OBVIOUS
  <2>1. PICK w \in Workers : CommitSettlement(w) /\ worker[w].txn = t
    BY OnlySettlementsCollect
  <2> QED
    BY <2>1 DEF CommitSettlement, MustAlert
<1> QED
  BY <1>1, Invariance, PTL DEF Spec, LateSettlementAlerted

-----------------------------------------------------------------------------
(* How far the books of an order may be from what was collected.  The run  *)
(* that refutes ReportedIsSettled shows them behind; here is how wrong     *)
(* they can be: amount_paid never claims money that was not collected, and *)
(* it lags on split orders only.                                           *)

(* Only the shares of a split order are ever demanded.                     *)
SplitFirst == \A t \in Txns : pays[t] \in Shares => split[ShareOf[pays[t]]] # "none"

(* What a worker has counted is collected, but for its own settlement.     *)
TalliesAreTrue ==
  \A w \in Workers : worker[w].at = "counted" =>
    /\ worker[w].txn \in worker[w].tally
    /\ worker[w].tally \subseteq Settled(OrderOfTxn(worker[w].txn)) \cup {worker[w].txn}

(* The books never claim more than what is collected, and are exact as     *)
(* long as the order is not split.                                         *)
NeverAhead     == \A o \in Orders : reported[o] \subseteq Settled(o)
ExactWhenWhole == \A o \in Orders : split[o] = "none" => reported[o] = Settled(o)

BooksInv == SplitFirst /\ TalliesAreTrue /\ NeverAhead /\ ExactWhenWhole

LEMMA InitBooks == Init => BooksInv
BY PaymentsAssumption
   DEF Init, BooksInv, SplitFirst, TalliesAreTrue, NeverAhead, ExactWhenWhole, Settled, Idle, Payables

(* A split is for good.                                                    *)
LEMMA SplitLasts ==
  ASSUME TypeOK, [Next]_vars, NEW o \in Orders, split[o] # "none"
  PROVE  split'[o] # "none"
<1>1. ASSUME NEW w \in Workers, WorkerStep(w) PROVE split'[o] # "none"
  <2>1. CASE CommitShare(w)
    BY <2>1 DEF CommitShare, TypeOK
  <2>2. CASE CommitSettlement(w)
    BY <2>2 DEF CommitSettlement, TypeOK
  <2> QED
    BY <1>1, <2>1, <2>2 DEF WorkerStep, OpenCheckout, OpenShare, CommitCheckout, RecordEvent,
       DiscardEvent, FailTxn, BeginSettlement, SettleShare, AbortSettlement, Crash, splitVars
<1>2. ASSUME NEW a \in Orders, OrderStep(a) PROVE split'[o] # "none"
  BY <1>2 DEF OrderStep, CreateSplit, MoveOrder, SweepReads, SweepCancels, TypeOK, splitVars
<1> QED
  BY <1>1, <1>2 DEF Next, vars

(* An invoice is opened once, for a whole order or for a share of a split. *)
LEMMA InvoicesLast ==
  ASSUME TypeOK, [Next]_vars, NEW t \in Txns, pays'[t] # pays[t]
  PROVE  /\ pays[t] = NoPayable
         /\ pays'[t] \in Shares => split[ShareOf[pays'[t]]] # "none"
<1>1. ASSUME NEW w \in Workers, NEW u \in Txns, NEW o \in Orders, OpenCheckout(w, o, u)
      PROVE  pays[t] = NoPayable /\ pays'[t] \notin Shares
  BY <1>1, PayablesAssumption DEF OpenCheckout, TypeOK
<1>2. ASSUME NEW w \in Workers, NEW u \in Txns, NEW s \in Shares, OpenShare(w, s, u)
      PROVE  pays[t] = NoPayable /\ split[ShareOf[pays'[t]]] # "none"
  BY <1>2 DEF OpenShare, TypeOK
<1>3. ASSUME NEW w \in Workers, WorkerStep(w)
      PROVE  \E u \in Txns : \/ \E o \in Orders : OpenCheckout(w, o, u)
                             \/ \E s \in Shares : OpenShare(w, s, u)
  BY <1>3 DEF WorkerStep, CommitCheckout, CommitShare, RecordEvent, DiscardEvent, FailTxn,
     BeginSettlement, SettleShare, CommitSettlement, AbortSettlement, Crash
<1>4. ASSUME NEW o \in Orders, OrderStep(o) PROVE FALSE
  BY <1>4 DEF OrderStep, CreateSplit, MoveOrder, SweepReads, SweepCancels
<1> QED
  BY <1>1, <1>2, <1>3, <1>4 DEF Next, vars

(* What is collected stays collected.                                      *)
LEMMA CollectedStays ==
  ASSUME Inv, [Next]_vars, NEW t \in Txns, txn[t] = "completed"
  PROVE  txn'[t] = "completed"
<1>0. TypeOK /\ InvoicesFirst /\ OpeningsAreSole
  BY DEF Inv, WellFormed, IndInv
<1>1. ASSUME NEW w \in Workers, WorkerStep(w) PROVE txn'[t] = "completed"
  <2>1. CASE CommitCheckout(w) \/ CommitShare(w)
    BY <1>0, <2>1 DEF CommitCheckout, CommitShare, Moved, OpeningsAreSole, Opening, TypeOK
  <2>2. CASE FailTxn(w)
    BY <1>0, <2>2 DEF FailTxn, Applicable, Moved, PaymentCan, PaymentNext, PaymentStatus, TypeOK
  <2>3. CASE CommitSettlement(w)
    BY <2>3, SettlementWrites
  <2> QED
    BY <1>1, <2>1, <2>2, <2>3 DEF WorkerStep, OpenCheckout, OpenShare, RecordEvent,
       DiscardEvent, BeginSettlement, SettleShare, AbortSettlement, Crash
<1>2. ASSUME NEW o \in Orders, OrderStep(o) PROVE txn'[t] = "completed"
  BY <1>2 DEF OrderStep, CreateSplit, MoveOrder, SweepReads, SweepCancels
<1> QED
  BY <1>1, <1>2 DEF Next, vars

LEMMA SettledGrows ==
  ASSUME Inv, [Next]_vars, NEW o
  PROVE  Settled(o) \subseteq Settled(o)'
<1>1. \A t \in Txns : txn[t] = "completed" => pays'[t] = pays[t]
  BY InvoicesLast DEF Inv, WellFormed, InvoicesFirst
<1> QED
  BY <1>1, CollectedStays DEF Settled, OrderOfTxn

(* Only the commit of a settlement writes amount_paid.                     *)
LEMMA OnlySettlementsReport ==
  ASSUME TypeOK, [Next]_vars, NEW o \in Orders, reported'[o] # reported[o]
  PROVE  \E w \in Workers : CommitSettlement(w) /\ OrderOfTxn(worker[w].txn) = o
<1>1. ASSUME NEW w \in Workers, WorkerStep(w) PROVE CommitSettlement(w)
  BY <1>1 DEF WorkerStep, OpenCheckout, OpenShare, CommitCheckout, CommitShare, RecordEvent,
     DiscardEvent, FailTxn, BeginSettlement, SettleShare, AbortSettlement, Crash, outcomeVars
<1>2. ASSUME NEW a \in Orders, OrderStep(a) PROVE FALSE
  BY <1>2 DEF OrderStep, CreateSplit, MoveOrder, SweepReads, SweepCancels, outcomeVars
<1>3. ASSUME NEW w \in Workers, CommitSettlement(w) PROVE OrderOfTxn(worker[w].txn) = o
  BY <1>3 DEF CommitSettlement, TypeOK
<1> QED
  BY <1>1, <1>2, <1>3 DEF Next, vars

(* A worker is counted by SettleShare, and stays as it is until its commit.*)
LEMMA CountedWorkers ==
  ASSUME TypeOK, [Next]_vars, NEW v \in Workers, worker'[v].at = "counted"
  PROVE  worker'[v] = worker[v] \/ SettleShare(v)
<1>1. ASSUME NEW w \in Workers, WorkerStep(w), v # w PROVE worker'[v] = worker[v]
  BY <1>1 DEF WorkerStep, OpenCheckout, OpenShare, CommitCheckout, CommitShare, RecordEvent,
     DiscardEvent, FailTxn, BeginSettlement, SettleShare, CommitSettlement, AbortSettlement,
     Crash, Finish, Become, TypeOK
<1>2. ASSUME WorkerStep(v) PROVE SettleShare(v)
  <2>1. ASSUME Finish(v) PROVE FALSE
    BY <2>1, FinishType DEF TypeOK
  <2>2. \A r \in WorkerStates : Become(v, r) => r.at = "counted"
    BY BecomeType DEF TypeOK
  <2>3. /\ \A t \in Txns : /\ [Idle EXCEPT !.at = "checkout", !.txn = t] \in WorkerStates
                           /\ [Idle EXCEPT !.at = "sharing", !.txn = t] \in WorkerStates
        /\ \A n \in Notifications :
             [Idle EXCEPT !.at = "recorded", !.txn = n.id[1],
                          !.target = n.id[2], !.exact = n.exact] \in WorkerStates
    BY IdleType DEF WorkerStates, Stages, Notifications, EventIds
  <2>5. ~ \E t \in Txns : \/ \E o \in Orders : OpenCheckout(v, o, t)
                          \/ \E s \in Shares : OpenShare(v, s, t)
    BY <2>2, <2>3 DEF OpenCheckout, OpenShare, Idle
  <2>6. ~ \E n \in Notifications : RecordEvent(v, n)
    BY <2>2, <2>3 DEF RecordEvent, Idle
  <2>4. ~BeginSettlement(v)
    BY DEF BeginSettlement, Become, TypeOK, WorkerStates
  <2> QED
    BY <1>2, <2>1, <2>4, <2>5, <2>6 DEF WorkerStep, CommitCheckout, CommitShare, DiscardEvent,
       FailTxn, CommitSettlement, AbortSettlement, Crash
<1>3. ASSUME NEW o \in Orders, OrderStep(o) PROVE worker' = worker
  BY <1>3 DEF OrderStep, CreateSplit, MoveOrder, SweepReads, SweepCancels
<1> QED
  BY <1>1, <1>2, <1>3 DEF Next, vars

(* What a worker remembers once it has counted.                            *)
LEMMA SettleShareWrites ==
  ASSUME TypeOK, InvoicesFirst, NEW w \in Workers, SettleShare(w)
  PROVE  LET t == worker[w].txn
         IN  /\ t \in Txns /\ pays[t] # NoPayable
             /\ worker'[w].txn = t /\ worker'[w].at = "counted"
             /\ worker'[w].target = worker[w].target
             /\ worker'[w].tally = Settled(OrderOfTxn(t)) \cup {t}
<1> DEFINE t == worker[w].txn
           o == OrderOfTxn(t)
           full == /\ SharesBackedBy(t) # {}
                   /\ \A s \in SharesOf(o) \ SharesBackedBy(t) : share[s] = "completed"
                   /\ PaymentCan(split[o], "completed")
<1>1. t \in Txns /\ pays[t] # NoPayable
  BY DEF SettleShare, InvoicesFirst
<1> DEFINE state == [worker[w] EXCEPT !.at = "counted", !.tally = Settled(o) \cup {t},
                                      !.closing = full]
<1>2. Become(w, state)
  BY DEF SettleShare
<1>3. worker[w] \in WorkerStates /\ full \in BOOLEAN /\ Settled(o) \cup {t} \subseteq Txns
  BY <1>1 DEF TypeOK, Settled
<1> HIDE DEF full
<1>4. state \in WorkerStates /\ state.txn = t
  BY <1>3, CountedType
<1>5. state.at = "counted" /\ state.target = worker[w].target
  BY <1>3, CountedKeeps
<1>6. state.tally = Settled(o) \cup {t}
  BY <1>3, CountedKeeps
<1> HIDE DEF state
<1>7. worker'[w] = state
  BY <1>2, <1>4, BecomeType DEF TypeOK
<1> QED
  BY <1>1, <1>4, <1>5, <1>6, <1>7

LEMMA StepBooks == Inv /\ BooksInv /\ [Next]_vars => BooksInv'
<1> SUFFICES ASSUME Inv, BooksInv, [Next]_vars PROVE BooksInv'
  OBVIOUS
<1>0. TypeOK /\ InvoicesFirst /\ TypeOK' /\ InvoicesFirst' /\ OneLiveDemand'
  BY StepInv DEF Inv, WellFormed, IndInv
<1>1. SplitFirst'
  <2> SUFFICES ASSUME NEW t \in Txns, pays'[t] \in Shares
               PROVE  split'[ShareOf[pays'[t]]] # "none"
    BY DEF SplitFirst
  <2>1. split[ShareOf[pays'[t]]] # "none"
    BY <1>0, InvoicesLast DEF BooksInv, SplitFirst
  <2>2. ShareOf[pays'[t]] \in Orders
    BY PayablesAssumption
  <2> QED
    BY <1>0, <2>1, <2>2, SplitLasts
<1>2. TalliesAreTrue'
  <2> SUFFICES ASSUME NEW v \in Workers, worker'[v].at = "counted"
               PROVE  (/\ worker[v].txn \in worker[v].tally
                       /\ worker[v].tally
                            \subseteq Settled(OrderOfTxn(worker[v].txn)) \cup {worker[v].txn})'
    BY DEF TalliesAreTrue
  <2>1. worker'[v] = worker[v] \/ SettleShare(v)
    BY <1>0, CountedWorkers
  <2>2. /\ worker[v].txn \in Txns /\ pays[worker[v].txn] # NoPayable
        /\ worker'[v].txn = worker[v].txn
    <3>1. CASE worker'[v] = worker[v]
      BY <1>0, <3>1 DEF InvoicesFirst
    <3>2. CASE SettleShare(v)
      BY <1>0, <3>2, SettleShareWrites
    <3> QED
      BY <2>1, <3>1, <3>2
  <2>3. PICK o : o = OrderOfTxn(worker[v].txn)
    OBVIOUS
  <2>4. (OrderOfTxn(worker[v].txn))' = o
    BY <1>0, <2>2, <2>3, InvoicesLast DEF OrderOfTxn
  <2>5. /\ worker'[v].txn \in worker'[v].tally
        /\ worker'[v].tally \subseteq Settled(o) \cup {worker[v].txn}
    <3>1. CASE worker'[v] = worker[v]
      BY <2>3, <3>1 DEF BooksInv, TalliesAreTrue
    <3>2. CASE SettleShare(v)
      BY <1>0, <2>3, <3>2, SettleShareWrites
    <3> QED
      BY <2>1, <3>1, <3>2
  <2>6. Settled(o) \subseteq Settled(o)'
    BY SettledGrows
  <2> QED
    BY <2>2, <2>4, <2>5, <2>6
<1>3. ASSUME NEW o \in Orders, reported'[o] # reported[o]
      PROVE  /\ reported'[o] \subseteq Settled(o)'
             /\ \E t \in reported'[o] : t \in Txns
  <2>1. PICK w \in Workers : CommitSettlement(w) /\ OrderOfTxn(worker[w].txn) = o
    BY <1>0, <1>3, OnlySettlementsReport
  <2>2. PICK t \in Txns : t = worker[w].txn
    BY <2>1, SettlementWrites
  <2>3. t \in Settled(o)'
    BY <2>1, <2>2, SettlementWrites DEF Settled, OrderOfTxn
  <2>4. reported'[o] = worker[w].tally
    BY <1>0, <2>1 DEF CommitSettlement, TypeOK
  <2>5. t \in worker[w].tally /\ worker[w].tally \subseteq Settled(o) \cup {t}
    BY <2>1, <2>2 DEF CommitSettlement, BooksInv, TalliesAreTrue
  <2> QED
    BY <2>3, <2>4, <2>5, SettledGrows
<1>4. NeverAhead'
  BY <1>3, SettledGrows DEF BooksInv, NeverAhead
<1>5. ExactWhenWhole'
  <2> SUFFICES ASSUME NEW o \in Orders, split'[o] = "none"
               PROVE  reported'[o] = Settled(o)'
    BY DEF ExactWhenWhole
  <2>1. split[o] = "none"
    BY <1>0, SplitLasts
  <2>2. \A t, u \in Txns : t \in Settled(o)' /\ u \in Settled(o)' => t = u
    <3>1. ASSUME NEW t \in Txns, t \in Settled(o)' PROVE pays'[t] = o /\ txn'[t] = "completed"
      <4>1. txn'[t] = "completed" /\ OrderOf(pays'[t]) = o
        BY <3>1 DEF Settled, OrderOfTxn
      <4>2. pays'[t] \in Payables
        BY <1>0, <4>1 DEF TypeOK, InvoicesFirst
      <4>3. pays'[t] \notin Shares
        BY <1>1, <4>1, PayablesAssumption DEF SplitFirst, OrderOf
      <4> QED
        BY <4>1, <4>2, <4>3 DEF OrderOf, Payables
    <3> QED
      BY <1>0, <3>1 DEF OneLiveDemand, Live
  <2>3. reported'[o] \subseteq Settled(o)' /\ Settled(o)' \subseteq Txns
    BY <1>4 DEF NeverAhead, Settled
  <2>4. CASE reported'[o] # reported[o]
    BY <1>3, <2>2, <2>3, <2>4
  <2>5. CASE reported'[o] = reported[o]
    <3> SUFFICES ASSUME NEW t \in Txns, t \in Settled(o)', t \notin Settled(o) PROVE FALSE
      BY <2>1, <2>3, <2>5 DEF BooksInv, ExactWhenWhole
    <3>1. txn[t] # "completed" /\ txn'[t] = "completed"
      <4>1. txn[t] = "completed" => pays'[t] = pays[t]
        BY <1>0, InvoicesLast DEF InvoicesFirst
      <4> QED
        BY <4>1 DEF Settled, OrderOfTxn
    <3>2. PICK w \in Workers : CommitSettlement(w) /\ worker[w].txn = t
      BY <3>1, OnlySettlementsCollect
    <3>3. OrderOfTxn(t) = o
      BY <3>2, SettlementWrites DEF Settled, OrderOfTxn
    <3>4. t \in worker[w].tally /\ reported'[o] = worker[w].tally
      BY <1>0, <3>2, <3>3 DEF CommitSettlement, TypeOK, BooksInv, TalliesAreTrue
    <3> QED
      BY <2>1, <2>5, <3>4 DEF BooksInv, ExactWhenWhole
  <2> QED
    BY <2>4, <2>5
<1> QED
  BY <1>1, <1>2, <1>4, <1>5 DEF BooksInv

LEMMA BooksInvariance == Spec => [](Inv /\ BooksInv)
<1>1. Init => Inv /\ BooksInv
  BY InitWellFormed, InitInv, InitBooks DEF Inv
<1>2. Inv /\ BooksInv /\ [Next]_vars => Inv' /\ BooksInv'
  BY StepInv, StepBooks
<1> QED
  BY <1>1, <1>2, PTL DEF Spec

(* amount_paid never counts money that was not collected (models.py        *)
(* Order.amount_paid, services.py report_settled_total): it may be behind  *)
(* what was collected, and is never ahead of it.                           *)
THEOREM BooksAreNeverAhead == Spec => []NeverAhead
<1>1. BooksInv => NeverAhead
  BY DEF BooksInv
<1> QED
  BY <1>1, BooksInvariance, PTL

(* The order that is not split always carries the up-to-date collected     *)
(* total: the update that two settlements lose takes two shares.           *)
THEOREM OnlySplitBooksLag == Spec => []ExactWhenWhole
<1>1. BooksInv => ExactWhenWhole
  BY DEF BooksInv
<1> QED
  BY <1>1, BooksInvariance, PTL

-----------------------------------------------------------------------------
(* Which events are recorded and left for good: the run that refutes       *)
(* ReplayAnswerIsTrue shows one.  A worker attends to an event until it    *)
(* closes it, unless it dies or meets an illegal transition.               *)

Attends(w, e) == worker[w].at \in {"recorded", "locked", "counted"} /\ EventOf(w) = e
Unattended ==
  {e \in EventIds : event[e] = "recorded" /\ \A w \in Workers : ~Attends(w, e)}

LEMMA OnlyDeathsAbandon ==
  ASSUME TypeOK, InvoicesFirst, [Next]_vars, NEW e \in Unattended', e \notin Unattended
  PROVE  \E w \in Workers : Crash(w) \/ AbortSettlement(w)
<1> SUFFICES ASSUME \A w \in Workers : ~Crash(w) /\ ~AbortSettlement(w) PROVE FALSE
  OBVIOUS
<1>0. e \in EventIds /\ event'[e] = "recorded" /\ \A w \in Workers : ~Attends(w, e)'
  BY DEF Unattended
<1>1. ASSUME NEW w \in Workers, WorkerStep(w) PROVE FALSE
  <2>1. ASSUME NEW v \in Workers, v # w PROVE worker'[v] = worker[v]
    BY <1>1, <2>1 DEF WorkerStep, OpenCheckout, OpenShare, CommitCheckout, CommitShare,
       RecordEvent, DiscardEvent, FailTxn, BeginSettlement, SettleShare, CommitSettlement,
       AbortSettlement, Crash, Finish, Become, TypeOK
  <2>2. ASSUME event[e] = "recorded", Attends(w, e) => Attends(w, e)' PROVE FALSE
    <3>1. PICK v \in Workers : Attends(v, e)
      BY <1>0, <2>2 DEF Unattended
    <3>2. v # w
      BY <1>0, <2>2, <3>1
    <3>3. Attends(v, e)'
      BY <2>1, <3>1, <3>2 DEF Attends, EventOf
    <3> QED
      BY <1>0, <3>3
  <2>3. CASE \E n \in Notifications : RecordEvent(w, n)
    <3>1. PICK n \in Notifications : RecordEvent(w, n)
      BY <2>3
    <3>2. worker[w].at = "idle"
      BY <3>1 DEF RecordEvent
    <3>3. event[e] # "recorded" => e = n.id
      BY <1>0, <3>1 DEF RecordEvent, TypeOK
    <3>4. Attends(w, n.id)'
      <4> DEFINE state == [Idle EXCEPT !.at = "recorded", !.txn = n.id[1],
                                       !.target = n.id[2], !.exact = n.exact]
      <4>1. /\ state \in WorkerStates /\ state.at = "recorded"
            /\ <<state.txn, state.target>> = n.id
        <5>1. n.id[1] \in Txns /\ n.id[2] \in {"completed", "failed"} /\ n.exact \in BOOLEAN
              /\ n.id = <<n.id[1], n.id[2]>>
          BY DEF Notifications, EventIds
        <5>2. /\ state \in WorkerStates /\ state.at = "recorded"
              /\ state.txn = n.id[1] /\ state.target = n.id[2]
          BY <5>1, IdleType DEF WorkerStates, Stages
        <5> QED
          BY <5>1, <5>2
      <4>2. Become(w, state)
        BY <3>1 DEF RecordEvent
      <4> HIDE DEF state
      <4>3. worker'[w] = state
        BY <4>1, <4>2, BecomeType DEF TypeOK
      <4> QED
        BY <4>1, <4>3 DEF Attends, EventOf
    <3> QED
      BY <1>0, <2>2, <3>2, <3>3, <3>4 DEF Attends
  <2>4. CASE BeginSettlement(w) \/ SettleShare(w)
    <3>1. ASSUME BeginSettlement(w)
          PROVE  /\ worker'[w].at = "locked" /\ worker'[w].txn = worker[w].txn
                 /\ worker'[w].target = worker[w].target
      <4> DEFINE state == [worker[w] EXCEPT !.at = "locked",
                                            !.seen = order[OrderOfTxn(worker[w].txn)]]
      <4>1. worker[w] \in WorkerStates /\ order[OrderOfTxn(worker[w].txn)] \in OrderStatus
        BY <3>1, OrderOfType DEF BeginSettlement, InvoicesFirst, TypeOK, OrderOfTxn
      <4>2. /\ state \in WorkerStates /\ state.txn = worker[w].txn /\ state.at = "locked"
            /\ state.target = worker[w].target
        BY <4>1, LockedType, LockedKeeps
      <4>3. Become(w, state)
        BY <3>1 DEF BeginSettlement
      <4> HIDE DEF state
      <4>4. worker'[w] = state
        BY <4>2, <4>3, BecomeType DEF TypeOK
      <4> QED
        BY <4>2, <4>4
    <3>2. Attends(w, e) => Attends(w, e)'
      BY <2>4, <3>1, SettleShareWrites DEF Attends, EventOf
    <3>3. event[e] = "recorded"
      BY <1>0, <2>4 DEF BeginSettlement, SettleShare
    <3> QED
      BY <2>2, <3>2, <3>3
  <2>5. CASE DiscardEvent(w) \/ FailTxn(w) \/ CommitSettlement(w)
    <3>1. EventOf(w) # e /\ event[e] = "recorded"
      BY <1>0, <2>5 DEF DiscardEvent, FailTxn, CommitSettlement, CloseEvent, TypeOK
    <3> QED
      BY <2>2, <3>1 DEF Attends
  <2>6. CASE UNCHANGED event /\ worker[w].at \in {"idle", "checkout", "sharing"}
    BY <1>0, <2>2, <2>6 DEF Attends
  <2> QED
    BY <1>1, <2>3, <2>4, <2>5, <2>6 DEF WorkerStep, OpenCheckout, OpenShare,
       CommitCheckout, CommitShare
<1>2. ASSUME NEW o \in Orders, OrderStep(o) PROVE UNCHANGED <<event, worker>>
  BY <1>2 DEF OrderStep, CreateSplit, MoveOrder, SweepReads, SweepCancels
<1>3. CASE UNCHANGED <<event, worker>>
  BY <1>0, <1>3 DEF Unattended, Attends, EventOf
<1> QED
  BY <1>1, <1>2, <1>3 DEF Next, vars

(* A notification is recorded and abandoned only by a worker that dies or  *)
(* that rolls back on an illegal transition (services.py handle_webhook,   *)
(* _apply): no other step leaves an event nobody will ever process.        *)
THEOREM EventsAreLeftByDeaths ==
  Spec => [][~(Unattended' \subseteq Unattended)
               => \E w \in Workers : Crash(w) \/ AbortSettlement(w)]_vars
<1>1. Inv /\ [Next]_vars
        => [~(Unattended' \subseteq Unattended)
              => \E w \in Workers : Crash(w) \/ AbortSettlement(w)]_vars
  BY OnlyDeathsAbandon DEF Inv, WellFormed
<1> QED
  BY <1>1, Invariance, PTL DEF Spec

-----------------------------------------------------------------------------
(* Refinement: a committed settlement is one step of Collection, a move of *)
(* the order is one of its moves, and everything else stutters.            *)

collected == {pays[t] : t \in {u \in Txns : txn[u] = "completed"}}

(* Whether an order is covered only depends on what was paid for it.       *)
LEMMA CoveredByItsOwn ==
  ASSUME NEW o \in Orders, NEW T, NEW f
  PROVE  Covered(o, {f[t] : t \in T})
           <=> Covered(o, {f[t] : t \in {u \in T : OrderOf(f[u]) = o}})
<1> DEFINE all == {f[t] : t \in T}
           own == {f[t] : t \in {u \in T : OrderOf(f[u]) = o}}
<1>1. o \in all <=> o \in own
  BY DEF OrderOf
<1>2. \A s \in SharesOf(o) : s \in all <=> s \in own
  BY PayablesAssumption DEF OrderOf, SharesOf
<1> QED
  BY <1>1, <1>2 DEF Covered

LEMMA InitCollects == Init => Promise!Init
BY DEF Init, Promise!Init

LEMMA SettlementCollects ==
  ASSUME Inv, Inv', NEW w \in Workers, CommitSettlement(w),
         NEW CONSTANT p, p = pays[worker[w].txn]
  PROVE  Promise!Collect(p)
<1> DEFINE t == worker[w].txn
           o == OrderOfTxn(t)
<1>1. /\ t \in Txns /\ o \in Orders /\ Settling(w)
      /\ txn[t] = "processing" /\ pays[t] \in Payables
      /\ UNCHANGED <<shareTxn, pays>>
      /\ txn'[t] = "completed" /\ \A u \in Txns : u # t => txn'[u] = txn[u]
  BY SettlementWrites
<1>2. /\ order' = [order EXCEPT ![o] = IF WantsConfirmation(w) THEN "confirmed" ELSE @]
      /\ WantsConfirmation(w) => ConfirmationLegal(o)
  BY SettlementWrites
<1>3. order \in [Orders -> OrderStatus]
  BY DEF Inv, WellFormed, TypeOK
<1>4. pays[t] \notin collected
  BY <1>1 DEF Inv, IndInv, OneLiveDemand, Live, collected
<1>5. collected' = collected \cup {pays[t]}
  BY <1>1 DEF collected
<1> DEFINE T == {u \in Txns : txn'[u] = "completed"}
<1>6. Settled(o) \cup {t} = {u \in T : OrderOf(pays[u]) = o}
  BY <1>1 DEF Settled, OrderOfTxn
<1>7. Covered(o, collected') <=> FullyPaid(o, Settled(o) \cup {t})
  <2>1. collected' = {pays[u] : u \in T}
    BY <1>1 DEF collected
  <2> HIDE DEF T
  <2> QED
    BY <1>1, <1>6, <2>1, CoveredByItsOwn DEF FullyPaid, PaidBy
<1>8. order' = IF Covered(o, collected') /\ order[o] = "pending"
                 THEN [order EXCEPT ![o] = "confirmed"] ELSE order
  <2>1. CASE WantsConfirmation(w)
    BY <1>1, <1>2, <1>3, <1>7, <2>1
       DEF WantsConfirmation, ConfirmationLegal, OrderCan, OrderNext, OrderStatus
  <2>2. CASE ~WantsConfirmation(w)
    BY <1>1, <1>2, <1>3, <1>7, <2>2
       DEF WantsConfirmation, Inv, IndInv, SettlingIsStable, OrderCan, OrderNext, OrderStatus
  <2> QED
    BY <2>1, <2>2
<1> QED
  BY <1>1, <1>4, <1>5, <1>8 DEF Promise!Collect, Promise!OrderOf, Promise!Covered, collected,
     OrderOfTxn, OrderOf, Covered, Promise!SharesOf, SharesOf

(* No other step collects: it leaves the completed transactions and their  *)
(* invoices as they are.                                                   *)
LEMMA NothingCollected ==
  ASSUME \A t \in Txns : txn'[t] = "completed" <=> txn[t] = "completed",
         \A t \in Txns : txn[t] = "completed" => pays'[t] = pays[t]
  PROVE  UNCHANGED collected
BY DEF collected

LEMMA StepCollects ==
  ASSUME Inv, Inv', [Next]_vars
  PROVE  [Promise!Next]_<<collected, order>>
<1>0. TypeOK /\ InvoicesFirst
  BY DEF Inv, WellFormed
<1>1. ASSUME NEW w \in Workers, CommitSettlement(w)
      PROVE  Promise!Next
  <2>1. PICK p \in Payables : p = pays[worker[w].txn]
    BY <1>1, SettlementWrites
  <2>2. Promise!Collect(p)
    BY <1>1, <2>1, SettlementCollects
  <2> QED
    BY <2>2 DEF Promise!Next, Promise!Payables, Payables
<1>2. ASSUME NEW o \in Orders, OrderStep(o)
      PROVE  [Promise!Next]_<<collected, order>>
  <2>1. UNCHANGED collected
    BY <1>2, NothingCollected
       DEF OrderStep, CreateSplit, MoveOrder, SweepReads, SweepCancels, orderVars
  <2>2. CASE MoveOrder(o)
    <3>1. Promise!Move(o)
      BY <2>1, <2>2 DEF MoveOrder, Promise!Move, Promise!OrderNext, OrderNext,
                        Promise!OrderStatus, OrderStatus, collected
    <3> QED
      BY <3>1 DEF Promise!Next
  <2>3. CASE SweepCancels(o)
    <3>1. CASE OrderCan(order[o], "cancelled")
      <4>1. Promise!Move(o)
        BY <2>1, <2>3, <3>1 DEF SweepCancels, OrderCan, Promise!Move, Promise!OrderNext,
                           OrderNext, Promise!OrderStatus, OrderStatus, collected
      <4> QED
        BY <4>1 DEF Promise!Next
    <3>2. CASE ~OrderCan(order[o], "cancelled")
      BY <1>0, <2>1, <2>3, <3>2 DEF SweepCancels, TypeOK
    <3> QED
      BY <3>1, <3>2
  <2>4. CASE CreateSplit(o) \/ SweepReads(o)
    BY <2>1, <2>4 DEF CreateSplit, SweepReads, orderVars
  <2> QED
    BY <1>2, <2>2, <2>3, <2>4 DEF OrderStep
<1>3. ASSUME NEW w \in Workers, NEW t \in Txns,
             \/ \E o \in Orders : OpenCheckout(w, o, t)
             \/ \E s \in Shares : OpenShare(w, s, t)
      PROVE  UNCHANGED <<collected, order>>
  <2>1. /\ pays[t] = NoPayable /\ UNCHANGED <<txn, order>>
        /\ \A u \in Txns : u # t => pays'[u] = pays[u]
    BY <1>0, <1>3 DEF OpenCheckout, OpenShare, orderVars, TypeOK
  <2> QED
    BY <1>0, <2>1, NothingCollected DEF InvoicesFirst
<1>4. ASSUME NEW w \in Workers, CommitCheckout(w) \/ CommitShare(w)
      PROVE  UNCHANGED <<collected, order>>
  <2>1. worker[w].txn \in Txns /\ txn[worker[w].txn] = "absent"
    BY <1>4 DEF CommitCheckout, CommitShare, Opening, Inv, IndInv, InvoicesFirst, OpeningsAreSole
  <2> QED
    BY <1>0, <1>4, <2>1, NothingCollected
       DEF CommitCheckout, CommitShare, Moved, orderVars, TypeOK
<1>5. ASSUME NEW w \in Workers, FailTxn(w)
      PROVE  UNCHANGED <<collected, order>>
  <2>1. worker[w].txn \in Txns /\ txn[worker[w].txn] # "completed"
    BY <1>0, <1>5 DEF FailTxn, Applicable, PaymentCan, PaymentNext, PaymentStatus, InvoicesFirst
  <2> QED
    BY <1>0, <1>5, <2>1, NothingCollected DEF FailTxn, Moved, orderVars, TypeOK
<1>6. ASSUME NEW w \in Workers,
             \/ \E n \in Notifications : RecordEvent(w, n)
             \/ DiscardEvent(w) \/ BeginSettlement(w) \/ SettleShare(w)
             \/ AbortSettlement(w) \/ Crash(w)
      PROVE  UNCHANGED <<collected, order>>
  <2>1. UNCHANGED <<txn, pays, order>>
    BY <1>6 DEF RecordEvent, DiscardEvent, BeginSettlement, SettleShare, AbortSettlement, Crash,
                orderVars
  <2> QED
    BY <2>1, NothingCollected
<1>7. CASE UNCHANGED vars
  BY <1>7, NothingCollected DEF vars
<1> QED
  BY <1>1, <1>2, <1>3, <1>4, <1>5, <1>6, <1>7 DEF Next, WorkerStep

(* The handlers, with their workers, locks, aborts and crashes, implement  *)
(* the collection of one payable at a time that confirms what it covers.   *)
THEOREM Implements == Spec => CollectionSpec
<1>1. Init => Promise!Init
  BY InitCollects
<1>2. Inv /\ Inv' /\ [Next]_vars => [Promise!Next]_<<collected, order>>
  BY StepCollects
<1> QED
  BY <1>1, <1>2, Invariance, PTL DEF Spec, CollectionSpec, Promise!Spec, collected
=============================================================================
