# El Corazón, in TLA+

This directory is a verification development of the backend of El Corazón, a
meal ordering and delivery platform: a Django service (`backend/`), three
Flutter applications (customers `fastfood`, couriers `dely`, staff `admin`) and
their shared package (`packages/elcorazon_core`). All paths below are relative
to `src/projet/el-corazon/backend/` unless they say otherwise.

The applications hold no state the backend relies on. Every rule about orders,
money and couriers is enforced in the backend's services, by three means: a
declarative state machine per lifecycle (`common/state_machine.py`), row locks
(`select_for_update`) in PostgreSQL at READ COMMITTED, and constraints in the
tables. What can go wrong is in the gaps between those three: a value read
before a lock is taken, a row written without one, a decision split over two
transactions. The models are cut exactly there.

Contents: [1 Inventory](#1-inventory), [2 Modules](#2-modules),
[3 Runs](#3-runs), [4 Findings](#4-findings), [5 Proofs](#5-proofs),
[6 Not modelled](#6-not-modelled), [7 Plan](#7-plan).

## 1. Inventory

| Component | Code | State | Operations | Hard behaviour | What makes it correct | Modules |
|---|---|---|---|---|---|---|
| State machines | `common/state_machine.py`, `*/states.py` | none | `can`, `is_noop`, `validate` | – | every status written is a declared step | Machines |
| Orders | `apps/orders` | order, lines, idempotency keys | create from a cart or a selection, `transition_to`, cancellation | stale reads, a crash around the key, rows locked in turn | one order per key, stock taken once and given back once | Checkout, RowLocks, Payments, Delivery |
| Payments | `apps/payments/services.py`, `tasks.py` | transactions, webhook events, `amount_paid` | `initiate`, `handle_webhook`/`_apply`, the unpaid sweep | replayed, late, reordered notifications; two settlements at once; crashes between two commits | money collected once, covered orders confirmed, late money announced | Payables, Collection, Payments |
| Split orders | `apps/payments/split.py`, `common/money.py` | split, shares | `create`, `pay_share`, `on_transaction_settled` | two shares settled at once, the rest of a division | a share is completed exactly when its transaction is collected; shares add up to the order | Payments, SplitBill |
| Cash, refunds, withdrawals, ratings | `cash.py`, `RefundService`, `WithdrawalService`, `delivery/services.py` | refunds, withdrawals, counters of the courier | request, settle, fail, deliver, rate | two settlements at once, two decisions on one row, a counter beside its rows | no more out than in; every franc and score counted once; the copy at the door exact but for an overtaken settlement | Ledger, Payouts |
| Assignments, dispatch | `apps/delivery/services.py`, `dispatch.py` | assignments, courier counters | `offer`, `accept`, `decline`, `transition_to`, `dispatch`, `expire` | acceptances, refusals, expiries race on stale candidates | one course per order, one per courier, one credit per meal, a ready meal finds a courier | Carriage, Delivery |
| Courier files | `CourierService` | verification status, papers, availability | `review`, `replace_documents`, `set_online`, reminders | an upload races a decision; two beats at once | approved papers were judged, one reminder per threshold | CourierFile, Reminders |
| Inventory, production | `apps/inventory`, `apps/production` | on-hand and reserved quantities, recipes, slips | receive, adjust, waste, approve; reserve, consume, release | a correction or a recipe edit under a waiting order | what is reserved is what waiting meals will take; a slip moves once | Warehouse |
| Catalog, promotions | `apps/catalog`, `apps/promotions` | dish stock, codes, redemptions, reviews | consume, restore, redeem, release, whole-row forms; post, hide a review | the last unit, the last use, a form that writes an old row | stock adds up, limits hold | Checkout, Reviews |
| Group carts, carts | `apps/groupcarts`, `apps/carts` | cart, members, lines | open, join, add, lock, confirm, expire; add, change, remove | contributions and expiry race the confirmation; two screens | one order, holding what the host saw; a basket holds what was asked | GroupCart, Baskets |
| Loyalty, subscriptions, social, gamification | `apps/loyalty`, `apps/social`, `apps/gamification` | points, codes, subscriptions, groups, posts, achievements | earn, redeem, expire; subscribe, renew; join; like; evaluate | expiry on a stale balance, a charge in two commits, two passes of the hourly task, counts beside rows | balance is the sum of its entries; one charge at a time but for passes that overlap; one reward | Loyalty, Subscriptions, Achievements, Circles, Feed |
| Geography, restaurants, availability | `apps/geography`, `apps/restaurants`, `apps/availability` | zones, kitchens, weeks, exceptions | lifecycles, resolution, verdicts, hours | a kitchen is paused while an order is judged; two requests of staff move its status from one reading | no order after the pause; proposed exactly when priced | Territory, Calendar |
| Notifications, realtime | `apps/notifications`, `common/realtime.py` | campaigns, phones, event journal | send, retry, beat; publish, replay, gap | rounds, clicks, dying workers; publishers and reconnections | told once, never lost silently | Campaigns, Push, Realtime |
| Support, calls, accounts | `apps/support`, `apps/calls`, `apps/accounts` | tickets, complaints, calls, one-time codes | reply, answer, resolve; place, accept, end; issue, consume | pages opened earlier, a call back at the same second, a lost mail | nothing unread under a closed ticket; one call, one code | Desk, Calls, Codes |
| Tracking, analytics, search, profiles, clients | `apps/tracking`, `apps/analytics`, `apps/search`, `@apps` | see section 6 | | | | – |

Interactions. Calls go downward: `delivery` calls `orders`, `payments` calls
`orders`, and `orders` knows neither (ADR-002). Upward news is sent by
synchronous Django signals in the sender's transaction
(`order_status_changed`, `payment_transaction_settled`, `assignment_*`), and by
`on_commit` callbacks after it. A Celery beat runs the sweeps. Shared rows are
the order (payments, deliveries, staff) and the courier's profile. There is no
ambient transaction per request (`ATOMIC_REQUESTS` is off), so each service
function is its own transaction, or several.

`PROJECT.json` lists every component, the ones left out included, and every
hazard with its line and the properties that would catch it.

## 2. Modules

    Machines                   the transition tables of orders, payments and courses
      Payables                 orders and shares as things to be paid
        Collection             abstract: what paying promises
        Payments               detailed: handlers, provider, workers, sweeps
          MCPayments, Payments_proofs
      Carriage                 abstract: what carrying meals promises
      Delivery                 detailed: offers, answers, progress, cancellations
          MCDelivery, Delivery_proofs
    Supply                     what an order takes from its kitchen
      Warehouse  Checkout  GroupCart  RowLocks  Territory  Calendar
          MCSupply, Supply_proofs
    Relations                  what links the house to customers and couriers
      Ledger  Payouts  CourierFile  Reminders  Campaigns  Push  Realtime
      Loyalty  Achievements  Subscriptions  Circles
      Front                    what customers do on their screens
        Desk  Calls  Codes  Baskets  SplitBill  Reviews  Feed
          MCRelations, Accounts_proofs, Notices_proofs, People_proofs, Relations_proofs
    Sums_proofs                facts on sums over finite sets, used by the proofs

`Payments` and `Delivery` are specifications of their own: their state spaces
are the largest, and each implements an abstract specification. The other
components share no variable with each other in the code's own transactions
beyond what each module says of its environment, so they are composed in two
specifications, `Supply` and `Relations`, whose behaviours each follow one part
- the variable `focus`, drawn in the initial state. A property of a part is
then a property of the composition, and one instance checks all of them; the
proofs lift in the same way (`SupplySteps`, `RelationsSteps`).

No module uses a RECURSIVE operator; sums are the folds of the community
modules. Constants carry named assumptions, so that what TLC runs is what is
proved. In most modules one operator is marked `mutant`: it has the shape a
plausible bug would give the definition that follows it, and the property it
breaks is named in `PROJECT.json`; the few not listed there were used to try
the other conjuncts of a property the same way.

### 2.1 Payments

| Variable | Code |
|---|---|
| `order` | `Order.status` |
| `reported` | `Order.amount_paid`, as the set of transactions it adds up |
| `split`, `share`, `shareTxn` | `SplitPayment.status`, `SplitShare.status`, `SplitShare.transaction` |
| `txn` | `Transaction.status`, `absent` before its commit |
| `pays` | what the invoice opened at the provider asks for |
| `event` | `WebhookEvent`: unknown, recorded (committed, no `processed_at`), closed |
| `alerted` | transactions `on_payment_to_refund` told staff about |
| `effects` | how often the subscribers of a settlement ran and committed |
| `sweeping` | orders `expire_unpaid_orders` has read and not reached yet |
| `worker` | where each web worker is in its handler, and what it has read |

Each handler is cut where another can interleave: at the call to the provider
(`OpenCheckout` / `CommitCheckout`, `OpenShare` / `CommitShare`), between the
commit of the event and its application (`RecordEvent`), at the lock of the
transaction (`BeginSettlement`), before the `UPDATE` that waits for the order's
row (`SettleShare`), and at the commit (`CommitSettlement`, or
`AbortSettlement` when the order's machine refuses). What a worker has written
and not committed is in its record only; `Crash` forgets it. The provider is
external: it may announce any invoice it knows completed or failed, with the
right amount or not, at any time, repeatedly, in any order, or never.

Amounts are abstracted here. The code compares sums of positive amounts to a
total that the shares add up to, so a set of distinct payables covers an order
exactly when it holds the whole order or all its shares (`Payables!Covered`).
`SplitBill` is what that rests on: `_allocate` and `Money.allocate` over
integers, with the amounts a customer may send, and `BillHolds` - the shares
add up to the bill, none is empty. Cash and refunds are in `Ledger`.

### 2.2 Delivery

| Variable | Code |
|---|---|
| `order` | `Order.status`, from `preparing` on |
| `course` | status of the last `Assignment` of an order to a courier, or `none` |
| `available` | `CourierProfile.can_accept_orders` |
| `candidates` | pairs a dispatch or a member of staff has read, not offered yet |
| `answering` | an accept request: profile read (`asked`), order locked (`locked`) |
| `credits` | `deliveries_completed`, by the course that earned it |

`offer`, `accept`, `expire` and the cancellation of an order serialise on the
order's row; only `accept` is cut while it holds it, because it judges a course
that it has not locked (`AcceptLocks`, `AcceptCommits`, `AcceptAborts`).
`OfferCommits` works on a courier read earlier (`DispatchReads`,
`StaffChooses`). `Decline` is judged on the row its view has read, and writes
without a lock: since every assignment is created `offered` and a request may
be arbitrarily late, a refusal may land on any later status. `Advance` locks
the course, its order and its courier in one statement and is a single step; it
takes any target, since the serializer accepts every status, and the credit and
the projection onto the order belong to it. The two unique constraints of
`Assignment` are guards of the statements that write the row (an integrity
error rolls the handler back).

An order and a courier may have several assignments, one after the other; the
last one stands for them. An older one is closed, and a request that still
holds it can only be refused or rewrite one final status with another. A
dispatch that succeeds drops its other candidates; the model keeps them, as
another dispatch that has read them earlier and is slow would. Kitchens are in
automatic assignment; which courier may serve which order is a constant
(kitchen and zone do not change during a course).

### 2.3 The abstract specifications

`Collection` collects each payable at most once, and confirms a pending order
in the very step that covers it. `Carriage` lets a courier take a meal that
nobody carries and that was not delivered, if the courier carries nothing; let
it go; or hand it over, once. `Payments` implements the first with
`collected <- {pays[t] : txn[t] = "completed"}`, `Delivery` the second with
`carried` the engaged courses and `handedOver` the credited ones.

### 2.4 Supply: what an order takes

| Module | State and code | Where the handlers are cut |
|---|---|---|
| `Warehouse` | `onHand`, `reserved`, `unitCost` of `StockItem`; `recipe` of `RecipeIngredient`; `slip` of deliveries, losses and corrections; `meal`, where the material of an order stands | an order reads recipes and lines, then writes (`job`); staff act in between; everything else is one row-locked transaction with its conditional `UPDATE` |
| `Checkout` | `key` of `IdempotencyKey`, `cart`, `order`, `stock` of counted dishes, `usedCount` and `redemptions`; `form`, a back-office page | reserve, read of the cart, creation and `complete` are separate commits; a worker dies between any two; a form writes a row as it read it |
| `GroupCart` | `group`, `members`, `lines`, `late` | one step per handler, which locks the cart first; the expiry task reads its list before it locks them one by one |
| `RowLocks` | `held`, the prefix of its rows each transaction has locked | one step per row; PostgreSQL kills one transaction of a cycle |
| `Territory` | `zone`; `kitchen` (`status`, `is_active`, `accepts_orders`); `sheet`, the row each request of the back office has read; `placing` | an order holds the kitchen's row in share mode from the verdict to the commit; a request of the back office reads, then writes: the whole row, or the status alone with `is_active` only where the row it read says otherwise (`Moved`) |
| `Calendar` | `week`, `exceptions`, `hour`, for a kitchen or a zone | no interleaving: open and next opening are functions of the tables, which staff change while time passes |

History variables name the exceptions: `drift` (a recipe or a line was edited
under a waiting meal), `overwritten` (a form wrote a row back over a newer
state), `overtaken` (the status of a kitchen was last written from a row another
request had moved), `seen` (the lines as the host locked them), `given` (what staff put on
the shelf). A property that holds but for one of them says so in its text.

### 2.5 Relations: money, people, messages

| Module | State and code | Where the handlers are cut |
|---|---|---|
| `Ledger` | demands and shares of an order, its transactions, `amount_paid`, refunds, returns, cash at the door | a handler that locks the order is one step; a settlement adds up what is in (`CountIn`, `CountOut`), then writes the sum and commits (`Collect`, `PayBack`), or rolls back |
| `Payouts` | `total_earnings`, withdrawals, ratings and their mean in hundredths | a rating is looked for without a lock (`asking`), then committed |
| `CourierFile` | `verification_status`, papers, their date, `is_online` | `replace_documents` judges the profile its view read (`upload`) |
| `Reminders` | `DocumentReminder` by date and threshold | two runs of the task, each may die between the record and the sending |
| `Campaigns` | mailings, their hour, the list each round has read | a round goes through a stale list one lock at a time; it may die, and the broker gives the task back |
| `Push` | phones of an account, one notice, `send_push` calls at the broker | one phone at a time; retries, dead tokens, a worker lost with its message |
| `Realtime` | counter, journal, publications, one client with its `lastSeq` and inbox | number, journal and sending are three steps; the counter expires; the connection is cut |
| `Loyalty` | `PointsAccount`, the sum of its entries, codes minted | the expiry task writes back the account it iterated over |
| `Achievements` | one achievement, deliveries in flight | each delivery counts what its transaction sees; loyalty has locked the account first when the order is worth points |
| `Subscriptions` | subscriptions, charges, passes of the hourly task (`Passes`, any number at once) | the two lists of each pass; a charge and its link are two commits |
| `Circles` | memberships and `member_count` | the membership is read before the conditional `UPDATE` |
| `Desk` | ticket, complaint, pages of agents | `answer` writes from the row its page read; statuses are decided under a lock |
| `Calls` | calls of an order, requests with what they read | search, then insertion under the unique constraint; transitions on the row as read |
| `Codes` | codes, their tries, the mail | look for a recent one, issue under the constraint, mail after the commit, judge under a lock |
| `Baskets` | lines of a basket, two screens, the sizes sold | every operation reads lines and writes them later; nothing locks |
| `SplitBill` | bill and shares | one transaction under the order's lock; its arithmetic is the matter |
| `Reviews` | reviews and the note of a dish | each transaction computes the note from what it sees, then writes it |
| `Feed` | likes, comments and their counts | a tap reads, then writes; a comment and its count are two commits |

`wanted` (Baskets), `believes` and `handled` (Desk), `granted` (Codes),
`letters` (Campaigns), `sent` (Reminders), `rung` (Push), `received` and `owed`
(Realtime) are what the outside has seen, against which the rows are judged.
`behind` (Ledger, with `late` beside it), `doubled` (Subscriptions), `twice`,
`ghosts`, `stale`, `mixed`, `unseen`, `overlapped`, `interrupted`, `raced`,
`crossed` and `overtaken` mark the overlaps the code does not prevent
(section 4): a property excepts exactly these, and says by how much a count is
then off.

## 3. Runs

| Run | Instance | Shows |
|---|---|---|
| `payments` | 1 order, 2 shares, 2 transactions, 2 workers, crashes | the money invariants, the inductive invariant, the refinement of `Collection` |
| `payments_replay` | same, no crash | `ReplayAnswerIsTrue` fails: an event "already processed" that nothing processed |
| `payments_sweep` | same | `SweepSparesConfirmed` fails: a paid order is cancelled as unpaid |
| `payments_report` | same | `ReportedIsSettled` fails: `amount_paid` loses a share |
| `delivery` | 2 orders, 2 couriers, 3 pairs | exclusivity, cancellation, projection, credit, the refinement of `Carriage` |
| `delivery_liveness` | 1 order, 2 couriers | offers are answered, ready meals find a courier |
| `delivery_decline` | same | `CourseFollowsItsMachine` fails: a late refusal erases an accepted course |
| `delivery_stuck` | same | `EngagedCourseCanMove` fails: a course without a next step |
| `supply` | `MCSupply`, six foci | the thirteen invariants and two temporal properties of what an order takes |
| `supply_restore` | same, a dish that is not counted at first | `RestoreInventsNothing` fails: a cancellation invents units |
| `relations` | `MCRelations`, eighteen foci | the nine invariants of money, people and messages, and what the beat owes |
| `relations_seq` | same | `SeqNeverReused` fails: the numbers of a group start again |

What each property says is in the comment above it. In short:

- **Orders and stock** (`supply`). `OneOrderPerKey`, `InFlightKeysAreFreed`:
  a request sent again to workers that die anywhere gives one order, and its
  key is not taken for ever. `StockAddsUp`, `QuotaHolds`: units and uses are
  conserved. `PromisesAreBacked`, `RefusalBelongsToTheOrder`,
  `VerdictMatchesReservation`: reserved material is what waiting meals take,
  the fire never fails, and the basket is told what the order would be.
  `SlipMovesOnce`, `FourEyes`: a slip moves stock once, and not on one
  signature. `OneOrderOfWhatWasSeen`: the group's order is what the host saw.
  `NoCycleOfIngredients`: deadlocks are never over ingredients.
  `SameRuleBothWays`, `NoOrderAfterThePause`, `ReopensWhenTold`: the two
  queries for an address agree; an order is written only for a kitchen whose
  `is_active` is set, that is not suspended and takes orders, and `is_active`
  says what `status` says unless a status was written from an overtaken row;
  the hour of reopening is exact against a clock that looks at every hour.
- **Money and people** (`relations`). `AccountsBalance`: no more out than in;
  `amount_paid` is exact unless a settlement that another had overtaken was the
  last to write it; an order in cash is collected once, at the door, from an
  exact copy. `CountsAreTrue`: earnings, ratings, members,
  notes, likes and shares agree with their rows. `RewardsAddUp`: codes are
  minted for points that were worth something, an achievement is rewarded
  once. `OneChargeAtATime`: a subscription awaits two payments only if one pass
  of the task listed it while another was charging it.
  `ApprovedPapersWereJudged`.
- **Messages** (`relations`). `ToldOnce`: reminders, mailings and rings;
  `NothingLostSilently`: an event is received or its gap announced;
  `SaidIsKept`: tickets, calls, codes and baskets do what the screens were
  told. `DailyTasksCatchUp`: no expiry skipped, no mailing forgotten, no
  overdue subscription left open.

Every property of a passing run has a mutant of the code that breaks it under
that run's own bounds (`PROJECT.json`, `mutants`).

### Bounds

*Payments.* One order of two shares and two transactions is the smallest
instance where two settlements of one order race, where the order can be
covered both whole and by shares, where a payment fails and is tried again, and
where money exceeds the total; two workers are enough for every race of two
handlers. Orders do not interact through payments, so a second order adds no
behaviour. *Delivery.* Three pairs give a courier with two orders and an order
with two couriers, which is what both exclusivity rules are about; a dispatch
tries both (`MaxTries`, five in the code). Symmetry is used for payments only,
over transactions, workers and shares, in runs that check safety.

*Supply.* Two meals, one of two portions, on one burger whose cheese a recipe
edit or a retirement touches, and three slips, one of them above the ceiling:
every pair of reading and writing that meets on one line. One counted plate and
one use of a coupon are fought over by two customers with three requests, two
of them under one key. Two guests and two lines. Four transactions over the
rows of three orders, of which two list their dishes in opposite orders. Three
zones, two of them covering the address, and two kitchens, of which one is
edited by the two requests of staff that may be under way (`Clerks`), so that
one can overtake the other; the towns are published. Weeks of two days of
three hours with slots that cross midnight and the end of the week, and four
exceptions that overlap them; the hours run over a whole week
(`FirstHour..LastHour`). In all some 294 000 states, in two minutes.

*Relations.* One order of two units, to be paid by a provider or in cash, as
the customer chose (`cash` is drawn in the initial state), with three payments,
two shares of one unit, two refunds and a return: a split opened over an open
demand brings in more than the total, two shares settled at once leave the copy
behind and the next settlement repairs it, a partial refund, a full one and an
abandoned one meet. Orders share no row in `Ledger`. Three
courses and one withdrawal; two beats and two rounds, one of which may die
(`MaxRoundsLost`), three days and hours; one notice to two phones with two
retries and one death. Two publishers and five events: with a journal of three
(`BacklogSize`), fewer events never overflow it, and the gap is the interesting
answer; one publisher may die, one connection be cut, the counter expire once.
Four meals for an achievement at three, one of them worth no point. Three join
requests of two people for two places, one of them asking twice. Two
subscriptions, three charges, two passes of the task, three instants (`LastTick`
is 2): enough for two passes to list one subscription, for one to die between a
charge and its link, and for the grace period to end. Two agents, one more message of the
customer; two calls and two presses; two codes of two tries over three minutes
(`MaxCodes`, `LastMinute`); two lines, two screens, a size that leaves the
catalogue. A bill of four units among two or three guests (more guests than
units, and a rest, both happen), amounts from -1 to 3. Four taps of two
readers, because two taps must read the same like to remove it twice. In all some 320 000
states, in a little over three minutes.

Deadlock is not checked: slips, requests, calls and days of a run are finite
stocks, and once every order is delivered or cancelled the system may rest.

### Fairness

- `Delivery!Fairness`. The beat runs every minute (`config/celery.py`), so a
  waiting order with an eligible courier is eventually dispatched: weak
  fairness of `DispatchReads`. A statement waiting for a row is queued by
  PostgreSQL and served in its turn although others take the lock in between:
  strong fairness of the offer's commit or refusal, and of the expiry. A
  handler that holds the lock commits or dies: weak fairness of
  `AcceptCommits \/ AcceptAborts`. Nothing is assumed of couriers, staff or the
  kitchen. `dispatch_waiting` tries at most 200 orders per turn; the model has
  no such cap, so `ReadyMealFindsCourier` says nothing of a longer queue.
- `Checkout`: a request at work goes on unless its worker dies
  (`WF(Proceeds(r))`), and the purge of keys runs every day (`WF(Purge(k))`).
- `Reminders`: the daily task runs (`WF(\E b : BeatWorks(b))`), and a worker
  that dies is started again, so that not every run dies between its reading
  and its record (`SF(\E b : RecordReminder(b))`).
- `Campaigns`: the beat comes every five minutes (`WF(\E b : RoundWorks(b))`);
  rounds lost are bounded by `MaxRoundsLost`. Fairness is owed to the rounds
  together, since any of them may take up what another left.
- `Subscriptions`: the hourly task works (`WF(TaskWorks)`) and does not die at
  every pass before it has expired what it read (`SF(\E p : expire(p, s))`);
  fairness is owed to the passes together, however many overlap.

In the compositions each of these is owed where the behaviour follows its part
(`focus = ... /\ ...`).

## 4. Findings

Each is a disagreement between the code and what it says of itself, met while
modelling, with a run that shows it; `PROJECT.json` quotes the lines.

1. A notification is committed before it is applied (`payments_replay`). When
   its application is rolled back, every replay is answered "already processed"
   and the collected money is never recorded.
2. The expiry of unpaid orders counts on the machine to refuse a confirmed
   order, which the machine allows to cancel (`payments_sweep`).
3. `amount_paid` is a sum computed without the order's lock
   (`payments_report`).
4. `decline` neither locks nor reads again: a late refusal erases an accepted
   or picked up course (`delivery_decline`).
5. An order finished by hand while its course is picked up leaves the course
   without a legal step, and its courier engaged for ever (`delivery_stuck`).
6. A cancellation credits a dish whose stock started to be counted after the
   order, which the docstring says cannot be (`supply_restore`).
7. The counter of a realtime group expires 900 seconds after its creation,
   however busy the group: numbers "never reused" start again
   (`relations_seq`).

Other behaviour a maintainer should know of. It is in the models - most often
behind one of the history variables of section 2, which the properties except -
but no run is kept for it.

*Money.* The cap on refunds subtracts a fully refunded transaction twice: it
has left `settled_total` while its refunds still count
(`payments/services.py:522-528`), so what another payment of the order
collected can no longer be given back. A provider may notify a payment before
the transaction that opened it commits (`payments/services.py:193`). The
docstrings of `Money.allocate` and `SplitService.create` say that 1 000 in
three is 333, 333 and 334; the rest goes to the first guests: 334, 333, 333
(`common/money.py:160-161`, `171-172`). Opening a subscription's charge is two
writes without a transaction (`_charge`); a renewal may be paid between the
list and the expiry. Nothing keeps two passes of the hourly task apart - a
backlog of hourly messages, several worker processes, tasks acknowledged late
and given again - and each charges the subscriptions it has listed: two demands
for one period, which late answers may both collect
(`loyalty/subscriptions.py:205-222`, `doubled`).

Dividing an order looks at what is in, not at the demand already open
(`payments/split.py:87`): both may be paid, and the order collects more than its
total. The shares a cash order was divided into stay open when the courier hands
it over and collects all of it (`payments/cash.py:54-64`). A settlement locks
its payment and then the order, a request for a refund the order and then the
payment: PostgreSQL may have to end one of them (`RollBack`). Two settlements of
one order may leave `amount_paid` short, or counting a payment that was refunded
meanwhile, until the next one (`behind`).

*Whole-row forms.* The sheets of a dish (`catalog/backoffice.py:277-281`), of a
promotion (`promotions/backoffice.py:89-97`), of a zone
(`zone_actions.save_zone_changes`) and of a kitchen
(`restaurants/backoffice.py:387-403`) save the row as it was when they were
opened: sold units reappear, uses of a code are forgotten, and correcting a
telephone number can put a suspended kitchen back in service. The status of a
kitchen is written alone, and `is_active` with it only where the row as read
says otherwise (`restaurants/models.py:209-215`): of two requests that read the
kitchen suspended, the one that opens it may commit before the one that sends it
back to configuration, and `is_active` stays set under `configuring`. Orders,
which are judged by `is_active`, go on being taken (`overtaken`).

*Stale decisions.* Points may be put out over a movement that fell in between
(`raced`). The material released at a cancellation is computed on the recipes
of that moment (`drift`). A customer's cancellation is judged on a status read
earlier (`orders/services.py:710`). An answer from a page opened before the
ticket was resolved stays under "resolved" (`interrupted`). Two issues of a code
at once end one that was just mailed, or one of them fails on the constraint
(`unseen`); a code closed by wrong tries lets another be mailed within the
delay. Calls are answered and ended on the row as read, and no task closes a
call that rings for ever (`overlapped`).

*Counts.* A member who comes back with two requests is counted twice (`twice`),
a like removed by two taps is subtracted twice (`ghosts`), two reviews at once
may leave a note that misses one (`stale`), a comment and its count are two
commits. Two deliveries too small to earn a point may both miss the threshold
of an achievement. Two additions to one basket at once may lose one (`mixed`,
until the basket is emptied); a line added while the order is being written goes
with the cart, and nothing marks it.

*Realtime.* Two publishers may send in the reverse order of their numbers; a
client that is cut between the two, or a replay that skips a number taken and
not journaled yet, loses the lower one without a gap (`overtaken`;
`common/realtime.py:162-206`). A client that had received nothing comes back
without a number and is told of no gap.

*Calendar.* The search for the next opening of a zone looks eight days ahead
and takes bounds of exceptions beyond that as they come
(`geography/schedule.py`); `ReopensWhenTold` excludes them.

## 5. Proofs

All theorems hold for any values of the constants that satisfy the named
assumptions (`PayablesAssumption`, `PaymentsAssumption`, `DeliveryAssumption`,
`WarehouseAssumption`, ... one per module that declares constants).

**Payments_proofs.** `TypeCorrect`; `Inductive` (`Spec => []IndInv`) and from it
`DemandsAreSingle`, `SharesAreTruthful`, `PaidOrdersAreConfirmed`,
`SettlementsAreUnique`; `LateMoneyIsAnnounced` (an action property);
`Implements` (`Spec => CollectionSpec`). None of the invariants is inductive
alone. `OneLiveDemand` needs to know that whoever is opening a demand has found
none and still holds the order (`OpeningsAreSole`, `LockDiscipline`).
`PaidInFullIsNotPending` needs that a worker which read the order not pending
still finds it so (`SettlingIsStable`): the machine never returns to pending,
and that is why skipping the confirmation is right. `SharesFollowTxns` needs
the link of shares and transactions while attempts succeed each other
(`SharesLinked`). A second layer, `BooksInv`, says what two of the refuted
sentences leave standing: with the tallies workers carry (`TalliesAreTrue`) and
the fact that shares are only demanded of split orders (`SplitFirst`),
`BooksAreNeverAhead` and `OnlySplitBooksLag` follow. `EventsAreLeftByDeaths` is
an action property: a worker attends to its event until it closes it.

**Delivery_proofs.** `TypeCorrect`; `Inductive` and from it `CoursesAreSingle`,
`CouriersCarryOne`, `CancelledOrdersAreDropped`, `MealsFollowCourses`,
`MealsAreCreditedOnce`; `Implements` (`Spec => CarriageSpec`). Two facts make
the invariant inductive. `LockedIsFresh`: an acceptance that holds the order
works on a course that was offered when it looked; only the courier's own
refusal can have reached it since, and the order has no other open course and
no other acceptance. `CreditedIsOver`: an order with a credit has no open
course and no acceptance in flight. Without the first an expired offer could be
accepted after the next one; without the second a reassigned meal could be
credited again. `CancelledOrderIsDropped` also leans on `MealFollowsCourse`: an
order that may still be cancelled has no course beyond accepted, so closing the
offered and accepted ones closes all. The same invariant bounds the two
findings: `OnlyDeclinesBreakTheMachine`, `OnlyHandedOverCoursesAreStuck`.

**Sums_proofs.** Stock, reservations, earnings, points, baskets and bills are
sums over sets of any size. The sum of the community modules is a fold defined
by CHOOSE over recursive functions on the subsets; `FoldExists` and
`FoldsAgree` show that such a function exists on every finite set and is the
same on each subset, and `SumUnfolds` follows. The induction principles of the
library take an operator as a parameter, so every induction here goes by a
smallest counterexample: a *set* of bad subsets has a member that includes no
other (`SmallestSubset`, from the well-foundedness of strict inclusion). What
the other proofs cite is `SumTakesOut`, `SumChangesAt`, `SumMoves`, `SumGrows`.

**Supply_proofs.** One inductive invariant per module of `Supply`, lifted by
`SupplySteps` (a step of the composition is a step or a stutter of each part).
`PromisesStayBacked` needs that what an order has read and not written yet
(`job`) is still what its meal requires; `OneOrderPerKeyHolds` needs to know
where each request stands with its key; `QuotaStays` and `StockStays` need that
nothing but a form breaks the conservation; `VerdictHolds` and `SameRuleHolds`
relate two computations of the code for any state, the second with the order of
preference among zones. `RestorationIsExact` uses what `StockStays` needs: a
dish no form wrote back is tracked as it always was (`TrackedAsBefore`).

`ReopensWhenToldHolds` has no protocol in it: the calendar only moves its clock,
and the theorem is about what the readers of the hours compute. It is proved for
any week, any exceptions, any length of a day. Three facts carry it: slots that
cross midnight or the end of the week cover exactly the hours the readers say
(`SlotsCover`, on the division of hours into days of `Sums_proofs`); between two
hours of which one is open and one is not, a slot or an exception begins or a
closure ends (`SomethingChanges`), so the hours the code tries are enough; and
the earliest of what it tries is the earliest there is (`ZoneTries`,
`KitchenTries`, with `SameEarliest`).

`NoCycleHolds` is proved for any number of transactions. Their lists of
ingredients climb the order the code sorts by (`SortedInOrder`, `RowsClimb`):
whoever waits for an ingredient waits for one ranked above all those it holds.
The ranks awaited in a set of transactions that all wait on each other are a set
of naturals with no greatest member, and a finite set has one
(`GreatestNatural`). Sorting is a permutation that climbs, which
`RowLocksAssumption` makes unique: ranks are apart, and a recipe names a
material once (the primary key and the aggregation by material).

**Accounts_proofs, Notices_proofs, People_proofs**, lifted by
**Relations_proofs** (`RelationsSteps`). `BooksBalance`: the copy is judged when
a settlement writes it, and what it writes was added up earlier, so the
invariant speaks of the settlements under way (`SettlementsCounted`): each still
finds its payment and its refund as it left them, and its sum is what the order
will have in once it commits, unless another committed since (`late`). Then a
commit that is not late makes the copy exact (`Balanced`), and an order in cash
has nothing in before the door and one payment after it, so no settlement of it
can be overtaken (`CashAtTheDoor`). That refunds stay within what was collected needs only the
cap, read under the order's lock; that a payment is refunded when its refunds
add up to it needs that its row is held from the sum to the commit.
`OneChargeInRelations`: a pass links the one payment it has opened (`OpensOne`),
and what one pass is about to charge no other is, nor is a payment of it awaited,
unless the subscription is in `doubled` (`HeldOnce`). `NoOrderAfterThePauseHolds` (in `Supply_proofs`)
rests on the lock in share mode and on `Moved`: written from an up to date row,
the flag follows the status. `CountsStayTrue`: earnings and
withdrawals by sums; the rounding of a mean by the bound (n + 1) / 4, which is
the invariant that n roundings keep; the division of a bill by `StepSum` - the
sum of a function that is one unit higher up to a point - and the Euclidean
division. `RewardsStayTrue`, `ToldOnceHolds`, `PapersWereJudged`,
`SaidStaysKept`: each from what the actor in flight has
read and may still rely on (`UploadIsUpToDate`, `ReadAsItWas`, `BasketsInv`...),
which is where the strengthening is.

`NothingIsLost`, about the realtime channel, is the longest of these arguments.
"Received, waiting or told of a gap" is not inductive: a client that is away has
a number, and what it will be sent depends on the journal. `RealtimeInv` has two
layers. `OneSeries` holds while the counter lives: the number of an event is its
rank, wherever it is (`journal`, `inbox`, a publication under way), and a replay
has in its inbox what it read. `InOrder` holds while events also go out in
order: nothing that is out is above a publication under way, the inbox climbs,
and whoever has received *n* has settled everything up to *n*. A
replay looks back at `BacklogSize` numbers, and announces as a gap what lies
before the first it finds; finding none, it announces nothing
(`BacklogReaches`, `MissedHasEnds`). The theorem therefore assumes fewer
publishers than the replay looks back at (`RealtimeAssumption`; the code's
`BACKLOG_SIZE` is 50): with as many numbers taken and not journaled yet, the gap
would be silent. `SeqReusedOnlyAfterExpiry` comes from the
same invariant and bounds finding 7.

`SupplyTypesHold` and `RelationsTypesHold` put the invariants of all the parts
together.

Every safety property a passing run checks, invariants and action properties
alike, is now a theorem. Only model-checked: liveness (`OfferIsAnswered`,
`ReadyMealFindsCourier`, `InFlightKeysAreFreed`, `DailyTasksCatchUp`), which is
out of the prover's reach; the violations; and the adequacy of the instances.
What a fold computes is proved from its definition; nothing is proved by
induction on the length of behaviours other than invariance.

**What the findings leave standing.** A refuted sentence says little about how
bad things can get. For each finding but the second, a theorem gives the part
of the sentence that holds for every instance:

| Run | Refuted | Proved instead |
|---|---|---|
| `payments_report` | `ReportedIsSettled` | `BooksAreNeverAhead`, `OnlySplitBooksLag`: amount_paid is never above what was collected, and exact on orders that are not split |
| `payments_replay` | `ReplayAnswerIsTrue` | `EventsAreLeftByDeaths`: an event is abandoned by a death or an illegal transition only |
| `delivery_decline` | `CourseFollowsItsMachine` | `OnlyDeclinesBreakTheMachine`: every other step of a carried course is declared |
| `delivery_stuck` | `EngagedCourseCanMove` | `OnlyHandedOverCoursesAreStuck`: stuck exactly when picked up and delivered by hand |
| `supply_restore` | `RestoreInventsNothing` | `RestorationIsExact`: exact for a dish whose row no form wrote back |
| `relations_seq` | `SeqNeverReused` | `SeqReusedOnlyAfterExpiry`: while the counter has not expired |

The second finding (`payments_sweep`) has no such bound worth stating: the
expiry cancels whatever the machine lets be cancelled.

## 6. Not modelled

Left out of every module: texts, translations, permissions, pagination,
formatting, audit lines, the geometry of PostGIS, prices shown on the way, and
time as a duration, except where a property is about it (codes, subscriptions,
calendars, reminders). Deadlocks between handlers that lock in opposite orders
end in PostgreSQL killing one, which a crash or an aborted acceptance covers;
`RowLocks` looks at the cycles themselves. Webhook statuses other than
completed and failed end discarded and change nothing.

Components without a module:

- *Tracking.* Positions are sampled, appended and shown on a map; no decision of
  another component reads them. Two things were seen and are not
  properties: a late batch moves a courier's last position back, and a fix
  taken before the acceptance may be recorded under the course.
- *Analytics, search, profiles.* Queries and preferences over the state of
  other components.
- *Client applications.* The backend trusts none of their state; the models
  let a client call any operation at any time, any number of times. The one
  piece they take from a client is the number it gives when it reconnects
  (`Realtime`).
- *Deployment*, settings, administration sites, seeds and imports. Among the
  one-off commands, `encaisser_especes_livrees` records the cash of orders
  delivered before the code did so at the door; run after such an order was
  refunded in full it finds nothing collected, and records its cash a second
  time.

Of the modelled components, `PROJECT.json` says what is partly modelled and
which part is not. The map covers something under a fifth of the lines of the
implementation. Most of the rest changes no state a property could tell apart:
serializers and view sets that check a form and call one service, settings,
management commands that fill a catalogue, admin declarations, field lists of
models, and the docstrings, which are long in this code. Modelling these would
add definitions that no property looks at.

## 7. Plan

Done, most important behaviour first: payments and deliveries with their
abstract specifications and proofs; what an order takes (`Supply`); money,
people and messages (`Relations`); the arithmetic of shared bills, which
discharges the abstraction of amounts in `Payables`; the proof of every safety
property the runs check, and of what each finding leaves standing.

Next, in this order:

1. An abstract specification for `Realtime` (a log of which each client has a
   prefix or a gap) and for `Checkout` (a key maps to one order), with their
   refinements.
2. Pricing: the discount kinds of a promotion and their rounding, the fee of a
   zone, so that the preview of an order is what it charges.
