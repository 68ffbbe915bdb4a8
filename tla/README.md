# Foodeli in TLA+

Foodeli is a NestJS backend for ordering food: customers place orders, a
payment provider reports payments through a webhook, admins and restaurant
owners move orders through their stages, restaurants are served through a
cache, and accounts have a session that is a hashed refresh token. This
directory holds TLA+ models of that code, the TLC configurations that check
them and TLAPS proofs of their safety properties. Paths are relative to the repository; the
implementation is under `src/src/`, the repository's own README is
`src/README.md` (quoted as README.md:line).

Nearly every handler has the same shape: *await a read, decide in memory, await
a write, await side effects*. Node runs the code between two awaits without
interruption, so the interesting behaviour is what other requests do in
between, and what is left when a request dies there. No handler takes a lock,
checks a version or opens a transaction around its read and its write. The
models therefore have one action per stretch from one await to the next, and
may kill a request at any await.

## 1. Inventory

| Part | Code | State | Operations | Speaks to |
|---|---|---|---|---|
| Order state machine | `modules/orders/order-state-machine.service.ts`, `enums/order-status.enum.ts`, `order.entity.ts` | none (pure) | `canTransition`, `transition` | called by OrdersService |
| Orders service | `modules/orders/orders.service.ts`, `orders.controller.ts` | `orders`, `order_items` tables | `create`, `findMyOrders`, `findOne`, `findById`, `updateStatus` | state machine, menus table, queue, gateway |
| Payments service | `modules/payments/*` | `payments` table; writes `orders` | `verifyWebhookSignature`, `handleWebhook` (success, failed, refunded), `getOrderPayments` | provider (HTTP), orders table |
| Restaurants service | `modules/restaurants/*`, `common/constants/cache.constants.ts` | `restaurants` table, cache entries | `create`, `findAll`, `findOne`, `searchByName`, `update`, `remove`, `invalidateRestaurantCache` | cache-manager |
| Auth | `modules/auth/*`, `modules/users/user.entity.ts` | `users` table (with `hashedRefreshToken`) | `register`, `login`, `refreshTokens`, `logout`, `findOrCreateGoogleUser` | Google, JWT |
| Queue processor | `modules/orders/processors/order.processor.ts` | BullMQ queue in Redis | `process` (three jobs) | fed by OrdersService |
| Orders gateway | `modules/orders/gateways/orders.gateway.ts` | Socket.IO rooms | `track-order`, `untrack-order`, `notifyOrderStatus`, `broadcastToAll` | called by OrdersService, calls `findById` |
| Guards | `common/guards/*` | none | JWT, refresh, Google, roles | in front of the controllers |
| Pagination, filters | `common/dto/pagination.dto.ts`, `filter-restaurant.dto.ts` | none | `skip`, filter conversion | RestaurantsService |
| The rest | health, throttling, interceptors, pipes, `main.ts`, `app.module.ts` | none of their own | decoration, logging, configuration | |

What makes each part correct, and what is hard about it:

* **Orders.** An order moves along the table of transitions; its audit stamps
  say which stages it has been in; jobs and events report what was committed.
  Hard: the transition is checked on a row read earlier (`orders.service.ts:155`)
  and written later (`:157`); `save` writes every column in which the entity in
  memory differs from the row, not the ones the handler changed; the jobs are
  added after the commit, and may fail.
* **Payments.** An acknowledged payment is on record and its order no longer
  waits for it, although the provider repeats deliveries, in any order, and
  although a call may die between its two writes (`payments.service.ts:114`,
  `:125`).
* **Restaurants.** After a mutation the cache does not serve the old data; a
  save changes what it was asked to change. Hard: a read-through fill races the
  invalidation (`restaurants.service.ts:124`), the invalidation of the lists
  depends on what the cache library offers (`:172`), `update` and `remove` load the
  restaurant *through the cache* (`:131`), the phone check and the insert are
  two statements.
* **Auth.** One e-mail, one account; the stored token is the one of the last
  answer; a logout ends the session; a Google link stays. Hard: refresh and
  logout overlap (`auth.service.ts:95`), linking saves a user object read
  earlier (`:132`).
* **Queue.** Every job that was added is settled, and as done only if its message
  went out. Hard: retries run after later jobs of the same order, and a worker
  may die with the message already sent.
* **Gateway.** A client gets the updates of the orders it tracks, and only of its
  own. Hard: `track-order` awaits twice before it joins (`orders.gateway.ts:73`).
* **Pricing.** The stored order has a line for each item asked for, at a price
  that was on offer. Hard: every item is a query of its own
  (`orders.service.ts:42`).
* **Pages.** A client that follows `hasNextPage` sees the whole list, once. Hard:
  each page is two queries, and the list changes between any two of them.

`PROJECT.json` lists every hazard at its line, with the properties that cover
it or the reason why none does.

## 2. Modules

```
OrderStateMachine
      |
  OrderStore ---------------------+
   /      \                       |
PaymentsService OrdersService     OrdersGateway
   \      /        \               |
  OrderSystem       OrderTracking -+         OrderLifecycle <... OrderSystem
   |        \             |                   JobOutbox      <... OrderQueue
   |   OrderSystemInvariant   MCOrderTracking
   |        |      \
   |        |   MCOrderSystem       RestaurantsService     AuthService
   |   OrderSystemProofs                    |                   |
   |        |                     RestaurantsProperties  AuthProperties
PaymentDelivery                             |                   |
   |    \   |                         MCRestaurants          MCAuth
   |   PaymentDeliveryProofs
MCPaymentDelivery                 OrderPricing, RestaurantPages (by themselves)
```

(Lines are EXTENDS, top to bottom; `<...` is a refinement.)

Proofs are kept apart from the models. Each of these modules EXTENDS the one it
is about, declares its inductive invariant first, then lemmas on operators, then
one lemma per conjunct of the invariant, then the theorems:

| Proofs | About |
|---|---|
| `OrderSystemProofs` | `OrderSystemInvariant`, so `OrderSystem` |
| `PaymentDeliveryProofs` | `PaymentDelivery`; it EXTENDS `OrderSystemProofs` too |
| `OrderTrackingProofs` | `OrderTracking` |
| `OrderQueueProofs` | `OrderQueue` |
| `AuthProofs` | `AuthProperties`, so `AuthService` |
| `RestaurantsProofs` | `RestaurantsProperties`, so `RestaurantsService` |
| `OrderPricingProofs` | `OrderPricing` |
| `RestaurantPagesProofs` | `RestaurantPages` |

**OrderStateMachine** is the pure part: the statuses, `VALID_TRANSITIONS`,
`canTransition`, and `transition`, which sets the status and stamps the column
of the new status. Of the columns of an order only those that some operation
changes after the insert are kept.

**OrderStore** is the orders table and the memory of the requests: `pc[r]` is
the await at which request `r` is suspended, `target[r]` its order, `seen[r]`
the row it read, `entity[r]` the entity it changed, `dirty[r]` the columns it is
about to UPDATE. TypeORM's `repository.save(entity)` is modelled by what it
does: `SaveReload` reads the row again and computes the columns that differ
(TypeORM's `SubjectDatabaseEntityLoader`, before it opens its transaction),
`SaveWrite` writes those. A timestamp is named by the request that took it, so
`rows[o]["confirmedAt"] = r` also says who confirmed the order. `Abort` ends a
request at any await: the database or Redis call throws, or the process stops.

**OrdersService** has `create` (check the menu rows, insert, add the
confirmation job, add the restaurant job, broadcast) and `updateStatus` (read
and check, save, add the job, notify). **PaymentsService** has the webhook:
rejection, unknown events, success and failure (insert the payment row, read the
order, save it if it is pending, acknowledge), refund. The webhook changes the
status directly, through `LoadAndChange`, and tells neither queue nor gateway.
**OrderSystem** puts both over one table and states the properties.

**OrderLifecycle** is the abstract specification: an order is placed, moves one
stage at a time or is cancelled until it leaves the kitchen, and carries the
stamps of exactly the stamped stages it has been in. It has no requests.
`OrderSystem!StateOf` is the refinement mapping (status, set of stamped
statuses). `StaleSave(r)` says that request `r` completes a save although the
row is no longer what `findOne`, or the second read of `save`, had seen; under
any load these are the only steps that leave the abstract specification
(`LifecycleUnlessStale`).

The mapping needs the absent order of OrderLifecycle to be no other state
(`AbsentAssumption`).

**OrderSystemInvariant** is the inductive invariant of the order system, and
below it the one of the instance with one request at a time (`SerialInv`).

**PaymentDelivery** adds the payment provider, which is external. It sends every
event, again after an error answer (`Deliver`), again after a timeout while the
first call still runs (`DeliverAgain`), and stops at an acknowledgement. Admins
may change the order meanwhile. This module has the fairness and the liveness.

**RestaurantsService** has all operations that write the table or the cache. The
cache is the one that the installed packages give (`src/package-lock.json`:
cache-manager 7.2.8, @nestjs/cache-manager 3.1.2): that version of the module
reads the option `stores`, so the `store` of `app.module.ts:97` has no effect,
and the cache is a Keyv in the memory of the process. Its `get`, `set` and `del`
do not fail, and are awaits all the same. A Keyv has no `keys()`, so
`invalidateRestaurantCache` returns at `restaurants.service.ts:172` before it
looks for anything to delete: `Invalidation` is the end of the request
(`claim_list_invalidated`). The columns a client can PATCH
behave alike and are represented by `phone`; all restaurants fit on one list
page. **RestaurantsProperties** states what is checked.

**AuthService** has the accounts. A refresh token is named by the request that
signed it and a stored hash by the token it was computed from. A login needs a
password that was chosen (accounts made by the Google callback have a random
one). Bcrypt and signing are awaits without an effect on the database and belong
to the wait for the statement that follows. **AuthProperties** states what is
checked.

**OrdersGateway** has the Socket.IO side: `handling[c][o]` is the await at which
the `track-order` call of client `c` for order `o` is suspended (the token, the
order), `room[o]` the members of the room, `last[c][o]` the status the client was
last told. `untrack-order` and a lost connection have no await. A join after the
connection is lost does nothing, as in Socket.IO. The module reads the orders
table of OrderStore, as `findById` does. **OrderTracking** puts it beside
OrdersService: `Notify` is the last step of `updateStatus` together with the emit
to the room. Status changes by the payment webhook are left out of it, because
they emit nothing (`claim_no_polling`).

**OrderQueue** is the queue between OrdersService, which adds the jobs of an
order, and `OrderProcessor.process`. The restaurant's job follows the
confirmation; an update may add its job before, between or without those two.
BullMQ is external and
modelled by the contract the code relies on: one worker (the default
concurrency), first in first out, `attempts: 3`, a backoff for the confirmation
only, a stalled job put back in front once and then failed. The three sends of
the processor only simulate; `Rethrow` before or after `Send` is what a real one
could do. `completed` and `failed` are the history of what a worker has settled: what
BullMQ keeps in Redis of it (`removeOnComplete`, `removeOnFail`) nobody reads.
**JobOutbox** is the abstract specification: an accepted job is told
any number of times and then settled for good.

**OrderPricing** is the loop of `create`: one await for each item, the local
variables `orderItems` and `totalAmount`, and the save. Menus may change at any
await. Quantities are counted in halves, as `@IsNumber()` and `@Min(1)` let a
fraction through and the integer column does not; amounts beyond the decimal
column are refused too. Prices are exact: rounding by floating point and by the
two decimals of the columns is left out.

**RestaurantPages** is a client that walks the pages of a search. `Query` and
`Answer` are the two queries of `getManyAndCount`; `Show`, `Hide` and `Move` are
what `create`, `update` and `remove` do to the result of the search. `data` is
the slice from `skip`, and the history variables say whether the part already
queried lost or gained a row.

How a TLA+ definition corresponds to lines of code is listed in `PROJECT.json`
under `map`, definition by definition.

## 3. What is checked

Requests are finite sets and each element is one call, so every behaviour ends
with all calls used: all configurations therefore say `CHECK_DEADLOCK FALSE`.
Requests (in `MCAuth` also accounts and Google ids, in `MCRestaurants` also
restaurants and phones) are interchangeable and declared symmetric in the runs
without liveness.

`MCAuth` and `MCRestaurants` have a VIEW: two states that differ only in what a
request held in memory when it ended are one state. No action reads that memory
again, and no property speaks of it, so each such state has the same future; the
views keep everything that is read: tables, histories, and the place of every
request.

### Runs that pass

| Run | Instance | Shows |
|---|---|---|
| `orders_concurrent` | 1 order, 4 requests, 3 open at once, failures at every await | Under arbitrary interleaving no stage is skipped (`NoStageSkipped`), no stamp is invented (`AuditStampsTruthful`), jobs and events report committed statuses in the order the handlers produce them (`ReportsCommitted`, `EffectsInOrder`), a confirmation made by the webhook has its payment row (`ConfirmationHasPayment`), an acknowledged payment leaves no pending order (`AckedPaymentSettles`), no write makes an order pending again (`NeverPendingAgain`), and only a save built on an old read breaks the table (`OnlyStaleWritesBreakTheTable`). Every other step of the table, stamps included, is one of `OrderLifecycle` (`LifecycleUnlessStale`). |
| `payment_redelivery` | 1 order; a failure, a success and a refund of one payment, 4 calls, 1 failed call, timeout or admin update | All three events are acknowledged, in whatever order they come (`EveryEventAcked`), the order settles for good (`PaymentSettles`), whichever of several deliveries is acknowledged the payment is on record (`AckedPaymentRecorded`), and an acknowledged refund is on every row of the payment, duplicates included, unless a row is recorded after it (`RefundRecorded`). |
| `restaurants` | 2 restaurants, 2 phones, 4 requests, 3 open, 1 failed database call, expiry | Cached details were once the row, whole (`CachedWasStored`). Where no two requests overlapped, the details in the cache are not old when nothing is open on the restaurant (`DetailsInvalidated`), saves change what they were asked to (`SaveTouchesOwnColumns`), and creates keep the phones apart (`CreateKeepsPhonesApart`). |
| `sessions` | 2 accounts, 2 Google ids, 4 requests, 3 open, with failures | An e-mail is registered once (`OneRegistrationPerEmail`), a link is never lost (`LinkedStaysLinked`), a retired token comes back only through the save that links a Google account (`OnlyLinkingRestores`), and only a sign-in, or a request that was under way, opens a session that a logout ended (`LogoutRevokes`). On accounts whose requests did not overlap the stored token is the one of the last answer (`AnsweredTokenStored`). |
| `tracking` | 1 order, 3 requests, 2 open, its customer and another client, failures | Nobody but the customer is told the status (`OnlyOwnUpdates`); after an untrack with no `track-order` under way the client hears nothing more (`UntrackIsFinal`); a committed update reaches everyone who was in the room at the commit and stayed (`CommitReachesWatchers`); without overlap and failure what the client was told last is what the row says (`LastToldIsCurrent`). |
| `queue` | 1 order, 4 jobs, 3 faults | A completed job has sent its message (`CompletedWasSent`), repeats and updates out of order need a fault (`RepeatsNeedAFault`, `LateOnlyAfterFault`), and the queue implements `JobOutbox` with its liveness (`OutboxSpec`). |
| `pages` | 4 restaurants, pages of 1 or 2, 2 changes | A walk misses no restaurant that kept its place unless a row left the part already read (`NothingMissed`), repeats none unless a row entered it (`NothingRepeated`), and ends (`WalkEnds`). |
| `pricing` | 2 menus, 2 prices, up to 2 items, 2 menu changes | A stored order has a line for every item and the total of its lines (`StoredAsAsked`), at prices that were on offer while the request ran (`PricesWereOffered`). |

Several properties are conditional on requests not overlapping. The models
record the overlap per restaurant, account or order (`contended`, `overlapped`),
so that such a property is still checked while *other* requests overlap
elsewhere. The condition is needed: without it TLC finds an update built on an
old cached copy (`SaveTouchesOwnColumns`), two creates that pass the phone check
together (`CreateKeepsPhonesApart`), and two updates that notify in the other
order (`LastToldIsCurrent`). Two more belong here because a document could be
read as promising more: under overlap a save built on an earlier read erases
another request's stamp, so the stamps are complete only as long as no save is
stale (`LifecycleUnlessStale`; order.entity.ts:32 calls the columns an audit
trail), and a refresh that was
under way when the user logged out stores its token afterwards
(`auth.service.ts:95`; README.md:229 promises revocation), which `LogoutRevokes`
therefore admits.

Type invariants are checked where they say more than the declarations do or are
proved: `TypeOK` of the order system and of the accounts, and `TrackingTypeOK`,
by which the members of a room are connected clients. The inductive invariants
are no run's properties but proved (section 4).

### Runs that find a violation

Each checks one promise of the repository's documentation; the counterexample
is what the code does. The details are under `findings` in `PROJECT.json`.

| Run | Promise | What happens |
|---|---|---|
| `claim_transitions` | README.md:203, invalid transitions are rejected | Two requests read the pending order; one cancels it, the other confirms it. |
| `claim_no_polling` | README.md:153, the client never has to poll | A payment confirms an order and nothing is emitted; no overlap is needed. |
| `claim_details_fresh` | README.md:220, PATCH and DELETE invalidate the cache | A cache fill that read before the save lands after the invalidation. |
| `claim_list_invalidated` | README.md:220, POST, PATCH and DELETE invalidate the cache | A list page is cached, a restaurant is created after it, and the page stays without it until its TTL; no overlap and no failure is needed. |

Smaller disagreements with the documentation have no run: README.md:205 says
failed jobs are retried with exponential backoff, which only the confirmation
asks for (`orders.service.ts:88`; the others are retried at once); the comment at
`:90` lists three delays and `attempts: 3` leaves room for two; and
`@SkipThrottle()` (`restaurants.controller.ts:45`) skips a throttler named
`default` while the only one is named `short` (`app.module.ts:28`).

### Bounds, and why they are enough

* *Requests and load.* The counterexamples above need at most two overlapping
  requests after the one that creates the order, account or restaurant. A stale save
  that meets a third writer, the case `dirty` and `seen` are about, needs three
  overlapping ones: `orders_concurrent` and `sessions` have three
  open, and so has `restaurants`, where a third request may overlap two that
  meet on a restaurant; four requests are enough to create, fill the cache, and
  let two changes overlap. `tracking` has a create and two updates that may
  overlap; a client tracks and untracks as often as it likes.
* *Orders, restaurants, accounts.* No handler reads two orders or writes one on
  the grounds of another, so one order is enough where many requests overlap.
  Restaurants share the phone check and the list page, accounts the unique
  Google id: their runs have two of each. Rooms are per order and jobs are
  compared only within an order, so `tracking` and `queue` have one. What is
  proved holds for any number of them, and of requests.
* *Failures* are unbounded in `OrderSystem`, `OrderTracking` and `AuthService`
  (each request may die once). `MaxFailures` = 1 in `RestaurantsService`: a
  call that fails changes nothing but the request that made it.
  `MaxDisturbances` = 1 counts the failures, timeouts and admin updates of
  `PaymentDelivery` together: one dead call between two writes, one overlapping
  delivery or one interfering admin, among three events that interleave freely;
  its assumption makes
  the set of requests large enough that no delivery waits for a free name.
  `MaxFaults` = 3 in `OrderQueue` is enough for a job to use up its three
  attempts, or to stall twice and be given up, or to mix both.
* *Pages.* Four restaurants on pages of one or two make walks of up to four
  pages with a full, a short and an empty last page. Two changes
  (`MaxChanges`) let one undo or compound the other; `MaxPage` is more than the
  pages there can be, so no walk is cut off by it.
* *Pricing.* Two items of one or two menus, two changes; `Price`, `Quantity` and
  `MaxAmount` contain a fraction and an amount that the column does not hold.

### Fairness

Three modules state fairness, all of it weak.

* `PaymentDelivery`. `WF(Run(r))`: a suspended call goes on, since each await is
  a database or Redis call that settles (an error is `Fail`), and the event loop
  runs its continuation. `WF(Deliver(e))`: the provider sends an event that has
  no running or acknowledged delivery. Timeouts, failures and admin calls may
  happen or not, up to their bound. Weak fairness is enough, because a `Run(r)`
  that is enabled stays enabled until `r` moves or fails, and `Deliver(e)` until
  it is taken.
* `OrderQueue`. The worker polls (`Take`) and runs what it took (`Send`,
  `Complete`), the timer of a backoff fires (`BackoffOver(j)`), and the stalled
  check runs periodically (`Stalled(j)`). Nobody has to add a job, and faults
  need not happen.
* `RestaurantPages`. The client asks for the next page and is answered. The list
  changes at most `MaxChanges` times; a list that grew at its end faster than the
  client reads would keep it walking.

### Mutants

Every property of a passing run is paired, in `PROJECT.json`, with a mutant of
the code that violates it: operators like `UncheckedUpdate`, `SwallowedAdd`,
`SkipKnownPayment`, `JoinGone` or `LogoutSave`, defined in front of the action
they replace. No specification uses them.

## 4. What is proved

Every invariant and every action property that a passing run checks is also a
theorem, for every value of the constants: any sets of orders, requests,
clients, accounts, restaurants and payments, any load (`MaxInFlight`), any number
of failures, faults and changes. So are the refinement of `OrderLifecycle` by
requests that do not overlap and the safety half of that of `JobOutbox`.

| Module | Theorem | What it states |
|---|---|---|
| `OrderSystemProofs` | `Invariance`, `TypeCorrect` | `Spec => [](TypeOK /\ Inv)`, `TypeOK` |
| | `StagesInOrder`, `StampsTruthful` | `NoStageSkipped`, `AuditStampsTruthful` |
| | `EffectsSound`, `EffectsOrdered` | `ReportsCommitted`, `EffectsInOrder` |
| | `ConfirmationsPaid`, `AckedSettles` | `ConfirmationHasPayment`, `AckedPaymentSettles` |
| | `NeverPending`, `StaleWritesOnly` | `NeverPendingAgain`, `OnlyStaleWritesBreakTheTable` |
| | `LifecycleOrStale` | `LifecycleUnlessStale` |
| | `SerialLifecycle` | `LifecycleSpec`, if `MaxInFlight = 1` |
| `PaymentDeliveryProofs` | `DeliveryInvariance`, `DeliveryIsService` | the invariant, and `DeliverySpec => [][Next]_vars` |
| | `AckedMoneyRecorded`, `AckedRefundRecorded` | `AckedPaymentRecorded`, `RefundRecorded` |
| `OrderTrackingProofs` | `TrackingInvariance`, `TrackingTyped` | the invariant, `TrackingTypeOK` |
| | `ToldOwnOnly`, `UntrackFinal` | `OnlyOwnUpdates`, `UntrackIsFinal` |
| | `ToldIsCurrent`, `WatchersReached` | `LastToldIsCurrent`, `CommitReachesWatchers` |
| `OrderQueueProofs` | `QueueInvariance` | the invariant |
| | `CompletedSent`, `RepeatsExplained` | `CompletedWasSent`, `RepeatsNeedAFault` |
| | `InOrderUnlessFault` | `LateOnlyAfterFault` |
| | `ImplementsOutbox` | `OutboxSafe`, the safety half of `OutboxSpec` |
| `AuthProofs` | `Invariance`, `TypeCorrect` | the invariant, `TypeOK` |
| | `RegisteredOnce`, `LinksStay` | `OneRegistrationPerEmail`, `LinkedStaysLinked` |
| | `LinkingRestores`, `LogoutHolds` | `OnlyLinkingRestores`, `LogoutRevokes` |
| | `AnswersHold` | `AnsweredTokenStored` |
| `RestaurantsProofs` | `Invariance`, `NeverAMixture` | the invariant, `CachedWasStored` |
| | `DetailsHold` | `DetailsInvalidated` |
| | `SavesOwnColumns`, `PhonesApart` | `SaveTouchesOwnColumns`, `CreateKeepsPhonesApart` |
| `OrderPricingProofs` | `Invariance` | the invariant |
| | `OrderAsAsked`, `PricesOffered` | `StoredAsAsked`, `PricesWereOffered` |
| `RestaurantPagesProofs` | `Invariance` | the invariant |
| | `WalkMissesNothing`, `WalkRepeatsNothing` | `NothingMissed`, `NothingRepeated` |

### Assumptions

All are named, in the module that declares the constant, and evaluated by TLC
in the runs.

* *Null is nothing else*: no request and no order row (`NullAssumption`), no
  payment row (`NoPaymentAssumption`), no state of an order in `OrderLifecycle`
  (`AbsentAssumption`), no account (`AuthAssumption`, `NoUserAssumption`), no job
  (`NoJobAssumption`), no restaurant's row (`NoRowAssumption`).
* *Numbers are numbers*: `PricingAssumption`, `PagesAssumption`,
  `QueueAssumption`, and the bounds on load and failures. A price may be zero, a
  quantity is at least one (`@Min(1)`). The list of restaurants is finite.
* *Tables are functions*: `GatewayAssumption` and `DeliveryAssumption` type the
  customer of an order and the contents of an event.
* One theorem has a hypothesis on a constant. `SerialLifecycle` is about requests
  that do not overlap (`MaxInFlight = 1`), since with two of them the promise
  fails (`claim_transitions`); `LifecycleOrStale` says where, for any load.

### The inductive invariants, and why they are needed

The properties speak of tables and of finished requests; a step out of the
middle of a handler could break each of them. The invariants add what holds
there.

**OrderSystem** (`Inv`).
`ControlInv`: which handler can be suspended where, and that it has an order to
work on. `HistoryInv`: the status of a row is in its history. `WindowInv`:
between read and write, the status that was *read* is in the history of the
row, what is held is the transition of what was read, that change is one of the
table, and the stamps in memory are of past stages or of the one being entered.
The row itself may have become anything; this is
why `NoStageSkipped` survives stale writes and `LegalTransitions` does not.
`CleanInv`: a save that leaves the status column out found the row already in the
status it was going to write, and no later write makes that row pending; without
it `AckedPaymentSettles` could not be shown for a webhook whose UPDATE turns out
to be empty. `SettledInv`: a webhook past its save has left no pending order.
`Announced`: which jobs a request has added by the place it is suspended at.
`BackingInv`: every confirmation stamp, in a row *or in the memory of a request
that may yet write it*, that is a webhook's is backed by its payment row.
One lemma classifies every step (an insert, a write of `SaveWrite`, or a step
that leaves the rows alone), another describes the row a save writes column by
column; each conjunct then has one lemma that goes through these kinds of step.

A save that is not stale writes exactly `transition(row, status)`, by
`WindowInv`, and `TransitionStages` and `StampsAdded` turn it into the abstract
step (`LifecycleStep`).

**OrderSystem, one request at a time** (`SerialInv`). `SoloInv`: one request is
open at most. `CurrentInv`: what it has read is still the row, and what it is
about to write leaves out only columns that would not change; so no save is
stale.

**PaymentDelivery** (`DeliveryInv`). A delivery is the start of a webhook call,
so every step is one of OrderSystem (`DeliveryIsNext`) and `Inv` is kept by the
lemmas proved before. `AttemptsInv` adds that every delivery of a success event
has its row, with the order and the payment id of the event, and `RefundInv` that
from a delivered refund until a later recording *all* rows of the payment say
refunded: the UPDATE of the refund reaches duplicates too.

**OrderTracking** (`TrackingInv`). `RoomInv`: members of a room may track the
order, and who was told something and has not left is still a member, so that
rights are checked once, on the way in. `GoneInv`: an order untracked with no call
under way has no suspended call that could join again. `WatchInv`: who is owed
an update is in the room until it is sent. `SingleInv` and `CurrentInv`: an
order whose updates did not overlap has one at most, and what the room was told
is the row, except between a commit and its notification.

**OrderQueue** (`QueueInv`). `PlaceInv`: the places are disjoint, the wait list
has no job twice, and together they hold what was added. `AddInv`: a job is
added after those of its order that it follows. `HistoryInv`: a job set
back by an error has used up an attempt, and the flag that the worker has sent
is never without a message. `TurnInv`: while a job that no fault has touched
waits or runs, the later jobs of its order are *behind it* and have told
nothing; it is what makes the order of updates inductive, since `LateOnlyAfterFault`
speaks of messages only. Lemmas say what joining at the back, putting back in
front and taking from the front do to the set, the uniqueness and the order of
the wait list.

**Auth** (`Inv`). `ControlInv`: what a request holds in memory is what its
handler has read or made, so that a link writes back the token it has read.
`PasswordInv`: a link never changes a password. `RegisterInv`: an account stored
by a registration has its password, and there is one such registration.
`SignedInv`: a token is nowhere, in a row, a memory or among the retired, before
its request has stored it; hence a token that a statement stores is new, and
only a save can bring an old one back. `AloneInv`, `AnsweredInv`: an account never
contended has one open request, and the token of the request about to answer.

**Restaurants** (`Inv`). `ControlInv` and `StoredInv`: every copy, in the cache
or in the memory of a request about to fill it, was once the row. `AloneInv`: a
key never contended has one open request. `CheckInv`: an insert that is due still
has a phone of its own. `DetailInv`: while a restaurant is calm, what was read
equals the row, what is about to be saved differs in the asked columns only,
and the cache may be old only between a save and its `del`.

**OrderPricing** (`Inv`). `LoopInv`: the lines are those of a prefix of the
items. `OfferInv`: every price used was on offer. `TotalInv`: the running total is
the sum of the lines. Induction over data is out of the prover's reach, so the
sum is not computed: `TotalInv` says that some function satisfies the defining
equation of the sums, and that every function that does ends in `totalAmount`.
Both halves are kept by one more line (`SumExtends`), and the recursive function
of `StoredAsAsked` is one of them.

**RestaurantPages** (`Inv`). `ListInv`: neither list nor page repeats a row.
`OnceInv`: unless a row got in before the cursor, what was shown is before it.
`MissInv`: unless a row left from there, what was not shown is behind it, and a
page that is not full left nothing behind. The lemmas say where inserting,
removing and moving put the other rows, which rows a page has, and that
`totalPages`, a ceiling, is reached by the cursor exactly when the list is.

Each of these was checked by TLC as an invariant of the instance of its run
before it was proved.

### Only model-checked

* **Liveness**: `PaymentSettles`, `EveryEventAcked`, `WalkEnds`, and the liveness
  half of `OutboxSpec` (a job is settled in the end). The installed provers have
  no rules for fairness and ENABLED.
* The four claims that fail: TLC's counterexamples.

## 5. What is not modelled

* **Socket.IO beyond one process**: an emit reaches the members of a room in the
  order of the emits; lost packets and reconnection belong to the library. A
  client that reconnects is another client.
* **Admin clients**: `MayTrack` admits them; the instance of `tracking` has none,
  as they differ from the owner in nothing else.
* **Queries** (`findMyOrders`, `searchByName`, `getOrderPayments`, `/auth/me`,
  health): one read, no effect. `findOne` of orders is part of `updateStatus`.
* **Guards and validation** are what lets a request in: the models start calls
  the guards admit. The customer branch of `findOne` cannot reject in
  `updateStatus`, which is for admins and owners.
* **Signatures, JWT, bcrypt** appear by their outcome: a webhook is rejected or
  not, a token is accepted or not. Token expiry is a rejection by the guard.
* **Filters** decide which restaurants are listed. `RestaurantPages` starts from
  any list. The cached list of `RestaurantsService` is one page; a filtered list
  goes to the database and is not cached (`FindAllAnswer`). Sort keys are taken
  to be unique (hazard at `restaurants.service.ts:78`).
* **A database call that fails after it has committed** (the reply is lost): a
  call that fails changes nothing, in every module. A restart of the process,
  which empties the cache, is the expiry of its entries.
* **`isActive` of users**: nothing in the code changes it.
* **Health, configuration, logging, interceptors, pipes, Nginx**: no state. Two
  are less than their names say: `CacheDebugInterceptor` logs durations only, and
  `SanitizePipe` is installed nowhere.
* **Throttling**: the counters are the library's, and what the code adds is
  configuration.

## 6. Plan

Done: state machine, store, orders, payments, their composition, the abstract
lifecycle, the provider with refunds, restaurants with the cache, accounts and
sessions, the gateway over the orders, the queue with its abstract outbox, the
pricing loop, the walk over the pages; the inductive invariant of each, and
from it every safety property that is checked; both refinements, that of the
outbox up to its liveness.

Left:

1. The steps from which the liveness properties follow, as far as they are
   safety: that a suspended call has an action to take, that a job which is not
   settled is in a place some fair action empties, and that every step of a walk
   uses up a change or moves the cursor.
2. That the order system as OrderTracking starts it is a behaviour of
   OrderSystem, so that its theorems hold there too, as `DeliveryIsService` shows
   of the provider.
3. The hazards without a property (`PROJECT.json`): they need a decision on what
   the code should promise, which no document of the repository makes.
