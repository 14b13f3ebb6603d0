# A specification of the DS online shop

TLA+ models of the parts of the shop that keep state and disagree about it
when messages are repeated, calls time out and processes end. Paths are
relative to `src/` of the source tree unless they begin with another
directory of it. Section 2 lists the modules, 3 what the runs check, 4 what is
proved, 5 where code and documentation differ, 6 what is left out or planned.

## 1. The system

The shop is a set of services that call each other by gRPC, a broker (MQTT,
QoS 1, retained messages for stock), and optionally DTM, which runs sagas and
XA transactions. Except for carts and ratings backed by a store, state is the
memory of one process.

| Component | State | Operations that change it | Talks to |
|---|---|---|---|
| inventoryservice (`inventory.go`, `xa.go`) | stock and owner per product, staged products, alerts answered | change, set, create, delete stock; compensations; ResolveStockAlert; XA prepare, commit, rollback; reaper | broker (events), catalog (roles) |
| productcatalogservice (`product_catalog.go`, `xa.go`) | products and owners, staged products, reload flag | create, delete, compensate, XA branches, SIGUSR1/2, lazy load from `products.json` or AlloyDB | - |
| warehousemanagement, creation (`warehousemanagement.go`, `saga.go`, `xa.go`) | a request in progress | create a product in one of three modes | catalog, inventory, DTM |
| warehousemanagement, MQTT (`mqtt.go`, `main.go`) | the message in each of three goroutines, the context | receive, hand over, handle (create a product, change a stock), shut down | broker, inventory, creation |
| notificationservice (`notification.go`, `orderQueue.go`) | open alerts, subscribers with channels, rings of recent orders | stock event, completed order, stream, list | broker, reorderservice, frontend |
| reorderservice (`main.py`) | heap of alerts | add_alert, expiration_worker, resubscription | notification, inventory |
| cartservice (`CartService.cs`, `cartstore/*.cs`) | a cart per user | AddItem, EmptyCart | Redis, AlloyDB or Spanner |
| checkoutservice (`checkout.go`, `saga.go`, `money/money.go`) | an order being placed | PlaceOrder | cart, catalog, currency, shipping, payment, inventory via DTM, broker |
| authservice (`handlers.go`) | none; a login makes three requests | lookup of groups, lookup of the user, verification of the password, token | directory (LDAP), frontend |
| frontend (`handlers.go`, `middleware.go`, `rpc.go`) | none; the cookies are in the browser | the pages of customers (home, product, cart, order, logout) and of those who look after the stock (alerts, inventory, restock) | all of the above |
| currencyservice (`server.js`) | none | convert | frontend, checkout |
| shipping, payment, email, ad, recommendation, rating services; load generators; Flink jobs | none that another part relies on (ratings: a map) | - | - |

What is hard, and what makes each part correct:

- *Order feed.* An order is published once per category and delivered at least
  once. The duplicate map and the ring must name the same orders: a stale name
  swallows a new order, a missing one lets an old one in twice.
- *Inventory.* Checks are made before the lock is taken, integers wrap, answers
  to alerts are repeated, the reaper forgets them, XA branches arrive in any
  order. Stock must not be overdrawn, an alert must restock once, what was
  prepared must be what is committed.
- *Catalog.* Deletion checks before it locks, reloads are switched by signals.
  Nothing but a deletion may remove a product, and a reload from a database,
  which empties the map first.
- *Creation of a product.* Two services must agree, with lost answers, late
  calls and crashes at every step, and the client must be told what they hold.
- *Stock alerts and reordering.* Events overtake each other, are lost or sent
  again; the heap keeps the first alert of a product; answers are forgotten. An
  alert must restock once, become urgent when critical, and be answered.
- *Cart and checkout.* The customer goes on shopping while the order is
  placed; DTM repeats charges. What is shipped must have been charged.
- *Money.* Amounts in units and nanos carry and borrow, prices are rounded
  twice when they are converted, and three pages add up the same order in ways
  of their own. The total must be exact, and the same everywhere.
- *Requests by MQTT.* A message is acknowledged before it is worked on, the
  worker gives up on calls that go on without it, connections and processes
  end. A change must be made once and in order, what was taken must be handled,
  and a shutdown must end.
- *Roles.* Three services judge the same token, each with the categories it
  knows of a product, groups change while somebody logs in, and the token lives
  for ever. What a page offers must be allowed.
- *Sessions.* The browser decides which cookie goes with which page, and tabs
  overlap. The customer must find the cart that was filled, and a session that
  was logged out of must not come back.

`PROJECT.json` has every component with its status under `components`, and
every hazard at its line under `hazards`.

## 2. The modules

| Module | Models | Correspondence |
|---|---|---|
| `OrderQueue` | `orderQueue.go` | `Push`, `GetAll` on records with the fields of the struct |
| `OrderFeed` | `publishCompletedOrder`, `PushNewOrder`, `ListRecentOrdersByCurrency`, restarts | broker: any published order may be delivered any number of times |
| `RecentOrders` | what the feed promises | abstract: last `Capacity` distinct orders per currency, until all is forgotten |
| `Inventory` | inventoryservice | one action per handler; `ChangeInventoryProductStock` and `ChangeLocked` are the parts of one handler before and under `stockMu` |
| `Catalog` | productcatalogservice | likewise, `DeleteProduct` and `DeleteLocked`; `source` tells whether `Loads` is the file's (`Overlaid`, on top of what there is) or the database's (`Rows`, in its place, and up to a row that cannot be read) |
| `ProductCreation` | `CreateNewProduct` of warehousemanagement, DTM | composes `Catalog` and `Inventory` by INSTANCE; one action per call, answer, lost answer, timeout, crash; `RetrieveProduct` and `RetrieveInventoryProduct` are the two requests with which a transaction's client is answered |
| `AtomicCreation` | what a creation promises | abstract: one decision per product, nothing in place before it |
| `StockAlerts` | alerts and streams of `notification.go` | `onStockUpdate`, `triggerNewAlert`, streams |
| `Restocking` | reorderservice with the broker | composes `Inventory`, with its reaper, and `StockAlerts`; the broker keeps an event for each topic |
| `Cart` | cartservice with each of its stores | `AddItem` reads, `SetCart` writes back what the store makes of it: `RedisStored` (a cart is one value), `AlloyStored` (a row per item), `SpannerStored` (a transaction) |
| `Checkout` | `PlaceOrder`, plain and by saga, DTM, payment, shipping, the customer at the frontend | composes `Cart` and `Inventory` |
| `WarehouseMqtt` | `mqtt.go` of warehousemanagement, `main.go`'s shutdown | one action per goroutine's step between two blocking points; a creation ends (`CreationEnds`), panics, or is a transaction that does not end (`TransactionHangs`); composes `Inventory` by INSTANCE |
| `Backoffice` | the handlers of the frontend for alerts, inventory, login and restocking, `authservice`, `ListOpenAlerts`' roles | extends `StockAlerts`; a login is three actions, as it makes three requests; `listing` is the catalog, which changes (`ChangeListing`) while events carry what it was or "uncategorized" |
| `Storefront` | the handlers of the frontend for customers, the session cookie | extends `Catalog`; a request is sent, is answered after each call of another service, and is received |
| `OrderPages` | the totals of three pages, the conversion of prices | extends `OrderTotal`; `CartPage`, `TotalPaid` and `calculateOrderTotal` as folds over the cart, in the order of each handler |
| `Money`, `OrderTotal` | `money.go` and the loop over the cart in `PlaceOrder` | `Sum` as in Go, with truncating division; `MultiplySlow` one round a step |
| `InventoryProofs`, `ProductCreationProofs`, `RestockingProofs`, `CheckoutProofs`, `WarehouseMqttProofs`, `BackofficeProofs`, `StorefrontProofs`, `OrderProofs` | - | the theorems about the module of that name; `BackofficeProofs` has those of `StockAlerts` too, `StorefrontProofs` those of `Catalog`, `OrderProofs` those of `OrderQueue`, `OrderFeed`, `OrderTotal` and `OrderPages` |
| `MC...` | - | constants of the runs |

Conventions. A handler that holds its mutex from its first read to its last
write is one action; a handler that reads before it locks, or calls another
service in between, is split there. The parameter `rep` of a handler is the
status it answers with, so a module that composes it can pass the answer on. A
Go map is a function on the keys it has. A panic is an action that ends the
process (gRPC handlers of these services have no recovery), and `status` tells
which handler it was; a concurrent map access that Go's runtime detects is
covered by `Crash`, which may happen at any time. Roles and tokens are a
refusal that may happen, except in `Backoffice`, which is about them. A panic
in a handler of the frontend ends its request only (net/http recovers). Operators named `Mut...` are deliberately wrong
variants of the definition that follows them, named by the entries of
`mutants` in `PROJECT.json`; no specification uses them.

Code that is not in the tree is modelled from its use. The *broker* hands an
event to its subscriber when the publishing goroutine sends it (in no order
between goroutines), any number of times for completed orders, and keeps the
last stock event of a topic, of which a product has one for each category and
one for "uncategorized", for the next subscription. *DTM* calls the
branches of a saga in order, and the two of an XA transaction in the order of
`xa.go` to prepare and any order afterwards; `Aborted` fails a forward call,
any other error makes it repeat the call; its own state survives; it tells its
client the outcome, or the client gives up before. The *stores*
of carts read and write a value (Redis) or a row (AlloyDB) atomically, and
Spanner repeats a transaction until nobody wrote in between. For
`WarehouseMqtt` the broker keeps the order of a topic, delivers once while a
connection lasts, and forgets the subscriptions with it (clean sessions). The
*browser* files a cookie that names no path under the directory of the page,
sends those of a directory with the pages below it, the longest path first, and
deletes only the one of the path it is told. The *directory* answers each of
the three requests of a login with the groups of that moment.

## 3. What the runs check

| Run | Properties | What it shows |
|---|---|---|
| `order_feed` | `SeenMatchesRing`, `ListsRecentOrders` | The duplicate map names exactly the ring's orders; the lists change as `RecentOrders` says (refinement). |
| `inventory` | `NeverOverdrawn`, `RestockedOnce`, `StagedStays` | No change of stock, check and change interleaved with anything, leaves less than nothing, in wrapping integers; an alert restocks once until its TTL ends; a repeated prepare changes nothing. |
| `creation` | `Atomic`, `RepeatedIsHarmless`, `RolledBackIsGone`, `CreatesAtomically`, `EveryRequestEnds` | What each mode guarantees under which faults, see below. |
| `creation_xa` | `XaIsAtomic` (violated) | A crash between prepare and commit leaves the product in one service, though the transaction succeeded (its client is then answered an error). |
| `backoffice` | `FormsAreAllowed`, `AlertsAreActionable`, `RolesWereHeld`, `SentIsListed`, `KeepsCreationTime` | Frontend, notification service and inventory agree on the roles of a token where they know the same categories of a product, a new token holds roles the user had during the login; a client is told only what it could list; an open alert keeps the time it is known by. |
| `restocking` | `OneRestockPerAlert`, `CriticalIsUrgent`, `KeptIsRestocked` | See below. |
| `checkout` | `ShippedIsCharged`, `PublishedOnce`, `SoldOnce` | With and without DTM, each store, two orders of one cart: nothing is shipped that was not charged, a completed order was shipped once, and nobody is sold more than they added to the cart. |
| `checkout_decided` | `SagaIsDecided` (violated) | A saga with an item is repeated for ever. |
| `order_total` | `ChargedExactly`, `PagesAgree`, `ConvertsClosely` | Whatever carries and borrows happen, a charged total is exact and valid, the pages that show the order name the same, and a price converted from USD to USD loses one nano at most. |
| `order_total_panic` | `NeverPanics` (violated) | 0.4 + 0.4 is not a valid amount, and the next sum panics. |
| `warehouse_mqtt` | `OnceInOrder`, `AckedIsHandled`, `SubscribedIsHandled`, `ShutdownEnds` | An instance makes each change once and in order, finishes what it acknowledged before it stops; and, unless a transaction never ends, handles what was delivered while it was subscribed, and stops. |
| `storefront` | `CartIsKept`, `LogoutForgets`, `OnlyDeletionRemoves` | Overlapping tabs see the one cart of the customer, a session that was logged out of stays gone, and of all operations on the catalog, only a checked deletion removes a product, or a reload from the database that the signal asked for; no reload from the file does. |

Every passing run checks the type invariant of its module as well.

**Conditions in properties.** `creation` and `restocking` run all faults at
once and record which kinds happened; a property that a fault really breaks
says so, and holds for every combination of the others.

- `Atomic`: XA except after a crash (that is `creation_xa`), a saga except
  after a timeout (a creation carried out after its compensation leaves an
  orphan). The naive mode promises nothing of the kind; `RolledBackIsGone` is
  what its answer "rolled back" means, under all faults. The exceptions are about
  what is in the services; that a client is answered with a product only if both
  had put it in place holds without one, as the product is looked for in both
  after the transaction.
- `RepeatedIsHarmless`: except after a timeout, because the
  branches refuse no late call (no branch barrier of DTM is used).
- `EveryRequestEnds`: except sagas with a fault, because the repeated
  compensation of the catalog panics each time.
- `OneRestockPerAlert`: no exception. Each answer that the inventory forgot, at
  its end or because its reaper ran after half an hour, allows one restock more.
- `CriticalIsUrgent`: except when the stream was interrupted, after which the
  code sends no alert again.
- `KeptIsRestocked`: begins where the reorder service holds an alert that was
  not yet answered, and leaves out the faults that make it forget one. It
  promises one restock, not that the product is no longer low: where the amount
  is not enough, the alert stays open under its old time and every further
  answer to it is `AlreadyResolved`; and a stock so far below zero that no
  amount lifts it (`Overdrawn`) is refused with `Internal`, after which the
  reorder service forgets the alert. `SetInventoryProductStock` takes any
  number, so both happen, in the run too. Two alerts of a product within one
  second share an answer; the second is not restocked (in the model, within one
  minute).
- `PublishedOnce`: a saga whose charge lost its answer charges again, since the
  payment service has no key to know a charge by. As `checkout_decided` shows,
  in the saga deployment only an order of an empty cart gets as far as its
  charge: what the run says of orders with items, it says of the plain one.
- `SoldOnce`: without faults (a cart that could not be emptied is sold again),
  while the customer places one order at a time (two read the same cart), and,
  unless the store is Spanner, while no cart is emptied during an addition to
  it: Redis then writes back the whole cart it had read, AlloyDB the row. What
  is left is every other order of additions, orders and emptyings, and Spanner
  with all of them.

- `OnceInOrder`: a change that the worker gave up on may come in after later
  ones; the inventory carries it out although nobody waits.
- `SubscribedIsHandled`: ends when the connection or the process does. Messages
  that were acknowledged and not yet handled are then lost, and after a
  reconnection nobody subscribes again.
- `SubscribedIsHandled`, `ShutdownEnds`: unless the worker is in a transaction
  that never ends ("stuck"). `saga.Submit`, `MustGenGid` and the calls of the XA
  workflow take neither the five seconds of `mqtt.go:138` nor the cancellation
  at a shutdown, so that the worker then blocks for good.
- `AlertsAreActionable`: compares the page with what the inventory would allow
  for the alerts that carry the categories the catalog has now, and for those
  that are "uncategorized", which only those who may change everything are
  shown. An alert with categories that the product no longer has, or whose
  product has left the catalog, is still shown by the old ones, and the
  inventory may refuse. A page may also be empty, when the notification service
  does not answer.
- `FormsAreAllowed`: except forms whose product left the catalog or was created
  anew since the page came up (`relisted`). What a page offers is a part of
  what is allowed: a form or a listing is missing where only the second category
  of a product is the user's.
- `OnlyDeletionRemoves`: except a reload from AlloyDB while SIGUSR1 asks for it.
  It deletes every key before it reads, so that what was created since is gone,
  and with it what follows a row that cannot be read.
- `CartIsKept`: leaves out histories in which the browser got two sessions: the
  first page was below a directory, two first pages overlapped, a logout
  overlapped another request, or a cookie expired. The code then shows another
  cart, and nothing refuses it.
- `PagesAgree`: the cart page may also not come up at all, if its first item
  costs less than one unit.

**Bounds.** Every bound is a constant.

- `order_feed`: a ring of 3 with four orders wraps, evicts and receives an
  evicted order again; a fifth order has a currency of its own.
- `inventory`: one listed and one unlisted product, two callers, so that owner
  checks pass and fail; `Half = 4` makes integers -4 .. 3, which overflow in
  both directions with deltas 3 and -4; one alert, transaction and change of
  stock at a time, since two of them share nothing but the entry that the
  deletions and creations of both callers already change under them.
  `MaxEvents` makes handlers wait while too many events are unsent.
- `creation`: one request with up to four faults. Requests have different
  products, and meet only when a service ends, which is one of the faults.
  Four are enough for a lost prepare, a crash, a lost commit and another crash.
  The catalog is the one from the file. 123,764 states, 50 seconds.
- `backoffice`: one product in the categories `<<kitchen>>` or `<<kitchen,
  garden>>`, which tell the first from the others; a user who may do everything,
  nothing, or view the first and manage the second; one client with a channel
  that one alert fills; two changes of groups, keys or the catalog, enough for
  both during a login, or for a product to leave and come back with other
  categories. Events carry any categories that the product may have had, or
  "uncategorized". 611,388 states, 113 seconds.
- `restocking`: delays of 1 and 2 minutes stand for 1 and 3 (the order is what
  matters), a stock set up to twice until minute 1 (`LastRequest`), two faults.
  The restock is of four: the level 2, a low one, becomes normal with it, -3 is
  still critical afterwards, -6 is refused, and 5 is normal; `Half = 8` lets the
  restock of a product that is full again overflow, which the inventory refuses.
  There is one category, and the catalog may fail to answer, which is a fault.
  The clock ends (`MaxTime`) when every alert made until `LastRequest` has been
  due, so that `KeptIsRestocked` speaks of those. Answers get old at any
  moment, since half an hour is out of the clock's reach; the run of the reaper
  is a fault. The channel never fills (`backoffice` has that). 539,802 states,
  140 seconds.
- `checkout`: two orders and two additions under way for one cart, two in all,
  each of the three stores, two faults. 1,218,279 states, 66 seconds.
- `order_total`: 5 nanos to the unit (3 in `order_total_panic`), quantities 1,
  2 and 4, two items, so that the second sum carries or borrows on top of the
  first; three currencies with rates that round.
- `warehouse_mqtt`: one instance (several share only the inventory), three
  messages, each malformed, a creation, or a change of a product that is there or
  not, so that one is with the worker, one with processMsg and one with the library; one fault or shutdown at
  any step; `Half = 8` with a stock of two lets changes succeed and be refused.
  The instance is one that creates by transactions. 176,328 states, 82 seconds.
- `storefront`: two tabs (symmetric), two sessions, one product that is always
  listed until it is deleted and one that comes and goes, one deletion at a
  time. With the database as its source the catalog does not differ in what the
  pages do, and one session is opened (`DatabaseBound`); with the file, two.
  1,569,082 states, 85 seconds.

**Fairness.** Safety needs none. `ProductCreation` assumes WF of each
request's next due step (`Works`: DTM retries, a service that is up answers, a
broken connection is noticed) and of a service's restart (Kubernetes does it);
faults and late calls are not fair. `Restocking` assumes WF of `Step`, that
something due is done: its threads are loops that nothing blocks for good. Time passes only when all that is due was done, which is a
model of minutes against seconds, not an assumption about the order of events
within one. `WarehouseMqtt` assumes WF of each step of its goroutines, timers and
selects. A change of stock waits for the inventory no longer than its five
seconds, and so do the calls of a naive creation. A transaction is bound by
nothing; that a creation ends is fair only in that one which does not may become
stuck instead, at any time, and the properties then say nothing. Messages,
faults and the inventory are not fair. `Checkout` assumes WF of `PlaceOrder` and of DTM's next call, and
SF of a charge that is accepted, so that `SagaIsDecided` is not violated by a
card refused for ever.

Runs with `CHECK_DEADLOCK FALSE` have a bounded number of requests, faults or
items and really stop; the others (`order_feed`, `inventory`, `backoffice`,
`storefront`) do not deadlock.

## 4. What is proved

For every value of the constants that satisfies the named assumptions: the type
invariant of every module that a run checks, every safety invariant and action
property of the passing runs, and both refinements; `CriticalIsUrgent` alone with
a hypothesis of its own, see there.

- `OrderProofs`, the feed (from `OrderQueueAssumption`, a positive capacity and a nil
  that is no order, and `OrderFeedAssumption`): `FeedTypeCorrect`,
  `SeenMatchesRingAlways`, `RingImplementsRecentOrders`. `SeenMatchesRing` is
  not inductive: it does not say where the next order goes. `RingInv` does: the
  used slots are the first `count` ones until the ring is full, the next slot
  is the one after them, and slots hold different orders, those of `seen`.
  `PushRecords` then shows that a push changes `GetAll` as `Record` says, by
  the cases duplicate, free slot and full ring; the slots in reading order are
  a bijection (`SlotOfInjective`, `SlotOfSurjective`).
- `InventoryProofs` (from `InventoryAssumption`): `InventoryTypeCorrect`,
  `NeverOverdrawnAlways`, `RestockedOnceAlways`, `StagedStaysAlways`. The
  invariant is the conjunction of type correctness, that entries below zero
  are ones requested as such, that staged ones are not below zero, and that the
  history counts one restock for exactly the alerts that are remembered:
  without the last, forgetting and restocking could not be told from
  restocking twice. One lemma per handler.
- `OrderProofs`, the total (from `NanosModAssumption`, `OrderTotalAssumption`: valid
  non-negative prices, shipping of at least one unit): `TotalTypeCorrect`,
  `ChargedExactlyAlways`, with the invariant that the total is a valid amount
  of at least one unit whose worth, with the rounds left, is `exact`. At least
  one unit is what keeps sums out of the branch that borrows wrongly; prices
  below one unit enter it in `MultiplySlow`, and then the order panics before
  it is charged.
- `OrderProofs`, the pages (from `OrderPagesAssumption`: the prices and shipping costs
  that come out of the conversion are ones that `OrderTotal` takes; and
  `EuroAssumption`: a euro is worth less than two dollars, which
  `data/currency_conversion.json` has): `PagesChargeExactly`, by way of
  `PagesUseTotal`, that `PlaceOrder` with the currency service only does what
  `OrderTotal` allows; and `ConvertsCloselyAlways`. The latter is two divisions:
  what is nearest to a quotient is off by half of the divisor
  (`NearestQuotient`), which is less than one nano on the way back, so that
  truncation leaves the price or one nano less (`TruncatedQuotient`). At a rate
  of two or more it would not hold. `PagesAgreeAlways` is about carts of any
  length. The total of `PlaceOrder` is known by `PagesInv`: `exact` is the worth
  of the shipping and, item by item, of units and nanos of the cart, and an item
  that was multiplied has a sound product. The pages are folds; a fold over lines
  that are all sound has the worth of what it adds up (`FoldExists`, `Folds`),
  and two valid amounts of the same worth are the same amount.
- `StorefrontProofs`, the catalog (from `CatalogAssumption`):
  `CatalogTypeCorrect`, `OnlyDeletionRemovesAlways`, with either source. Besides
  the types, the invariant says that a process that ended has no products:
  without it, the restart would be a step that loses some. A load from the file
  keeps every product (`LoadsOK`); one from the database does when there is
  nothing to lose, and otherwise only happens while the signal asks for it.
- `StorefrontProofs`, the pages (from `CatalogAssumption`, `StorefrontAssumption`):
  `StoreTypeCorrect`, `CartIsKeptAlways`, `LogoutForgetsAlways`,
  `PagesRemoveNothing`. `CartIsKept` and `LogoutForgets` speak of the jar of
  the browser, but a cookie gets there from an answer. `StoreInv` therefore says
  of the requests under way, too, that they name opened sessions only
  (`SessionsOpened`), that a session whose cookie is still on its way is known to
  its tab alone and was not logged out of (`FreshIsApart`), and, as long as
  nothing strayed, that there is one session: that of the cookie at the top,
  which all requests carry, or that of the only request (`OneSession`). The pages
  do to the catalog what it allows (`StoreUsesCatalog`), which carries its
  theorems over.
- `BackofficeProofs` (from `StockAlertsAssumption`, `BackofficeAssumption`):
  `AlertsTypeCorrect`, `SentIsListedAlways`, `KeepsCreationTimeAlways` for any
  environment of the notification service, and `OfficeUsesAlerts`, by which
  they hold with the frontend too; `OfficeTypeCorrect`, `FormsAreAllowedAlways`,
  `AlertsAreActionableAlways`, `RolesWereHeldAlways`. Alerts and the catalog are
  independent here: nothing says that an alert has the categories of its
  product. Where it has, the list asked for by a page and the inventory's check
  come to the same (`OpenAlertsAreAllowed`); where it is uncategorized, nobody
  but those who may write everything has asked for it
  (`UncategorizedIsForAdmins`, since no role is for that category). `OfficeInv`
  adds to the types that a login under way carries roles from the history that
  began with it, whatever changes before the token is made, and the forms, which
  a change of the catalog has to move to `relisted`.
- `WarehouseMqttProofs` (from `WarehouseMqttAssumption`): `OnceInOrderAlways`
  and `AckedIsHandledAlways`, for any number of instances, messages and faults.
  The log alone says nothing of the messages to come. `Ordered` does: on the way
  from the broker by the handler, `processMsg` and the worker to the inventory,
  what is farther is younger. `Awaited` is what makes a change happen once: one
  that the inventory still works on is not in the log yet, and either the worker
  waits for it or has given up on it. A transaction that hangs holds its message
  for good, and those behind it stay in order. Many steps only forget messages; they are
  treated in one lemma (`ForgettingKeepsSequence`). For `AckedIsHandled`,
  `AckedIsSomewhere` says where an acknowledged message can be. The lemmas need
  nothing of the inventory but that a call is taken up once and finished once.
  `TypeCorrect` does: that its integers do not leave their width needs the stock
  it starts with to be one of them (in the assumption), and that messages are
  numbered in the order of `published` (`Bounded`).
- `ProductCreationProofs` (from `ProductCreationAssumption`): `TypeCorrect`,
  `AtomicAlways`, `AnswersAlways`, `RepeatedIsHarmlessAlways`,
  `RolledBackIsGoneAlways` and the refinement `TwoPhasesCreateAtomically`, for any number of requests and faults.
  The properties speak of a request that has ended. `IInv` says what holds on the
  way: of each request, which services it has left to call in its phase
  (`Shape`); of the calls, that a caller waits for one at most, and that this is
  the one its phase calls for (`CallsOK`); and of each service and request, by
  mode, what was staged or put in place, given what was called so far (`XaOK`,
  `SagaOK`, `NaiveOK`, each with the faults that it does not survive). A handler is
  known to the rest by its effect on the product of one request (`StepEffect`),
  an answer by the phases it may lead to (`AnswerMoves`), so that late and
  repeated calls, which change nothing of a request in another phase, are one
  lemma (`QuietKeeps`). The refinement follows from the same effects: an answer
  decides a request or leaves the decision alone, a handler puts a product in
  place that was decided to be. What a client is told is an invariant of its own
  (`AnswersOK`), since it holds under every fault: a product that is in a service
  was put there, which is never taken back in the history.
- `RestockingProofs` (from `RestockingAssumption`: levels are integers of the
  width, a restock is positive, a critical alert is due no later than a low one):
  `TypeCorrect`, `OneRestockPerAlertAlways`, `CriticalIsUrgentWithRoom`. Alerts
  are known by their times. `Counted` says that no more times are known of a
  product, in the alerts, in a channel, on a heap, under way to the inventory or
  answered, than alerts were opened, and that restocks are no more than the times
  answered and those that the inventory has forgotten (`ForgottenCount`: what its
  reaper or its end takes from the answered ones is counted). `CriticalIsUrgent` is proved for
  behaviours in which the channel of the reorder service is never full
  (`Room`, at every moment): the code drops an alert for which there is no room,
  and with it the news that a product is critical. `Streamed` says what is then
  true of the last alert of a product in the channel, or of the one on the heap
  if none is in the channel.
- `CheckoutProofs` (from `CheckoutAssumption`: finitely many orders and items,
  positive quantities, the charge is no item, and the sagas' missing caller
  owns nothing): `TypeCorrect`, `ShippedIsChargedAlways`,
  `PublishedOnceAlways`, `SoldOnceAlways`, `NoOrderTakesStock`. `IInv` says of
  each order, for each of its phases, what was charged, by its own call or by
  its saga, which goes on without it (`ChargedOK`, `SagaOK`), and shipped
  (`ShippedOK`). `NoOrderTakesStock` says for every deployment and every cart what
  is behind `checkout_decided`: the inventory refuses each branch of a saga.
  `SoldOnce` sums over orders and shipments. `SoldInv` adds what is on the way:
  while one order of a user has read the cart and not emptied it, what it read and
  what the user was sold come to no more than was added; while none does, the
  cart does; and so does the cart that an addition under way has read and will
  write back, unless the store is Spanner. Sums over finite sets are treated once (`SumChanges`).

**Composition.** A module that composes others calls their handlers with
arguments of its own. `RestockingUsesInventory`, `RestockingUsesAlerts`,
`CreationUsesInventory`, `CreationUsesCatalog`, `CheckoutUsesCart`,
`OfficeUsesAlerts`, `StoreUsesCatalog` and `PagesUseTotal` say that each of its
steps is a step of the component or leaves it alone (the specification of the
whole implies that of the part), so that what holds of every behaviour of the
part holds in the whole.

**Induction.** The library's theorems on induction take an operator as a
parameter, which the provers cannot instantiate. Where a proof is over the lines
of a cart, the rounds of `MultiplySlow` or the members of a finite set, the
claim is therefore put as a set, of the numbers up to which it holds or the
subsets for which it does, and the lemma (`Smallest`, `Induction`,
`PickInduction`) says that such a set has everything in it. They rest
on `WFMin` and the well-foundedness of `<` of the library.

Only model-checked: liveness (`EveryRequestEnds`, `KeptIsRestocked`,
`SubscribedIsHandled`, `ShutdownEnds`), since fairness is stated with ENABLED, which
these provers do not know. `CriticalIsUrgent` is not true of a channel that may
fill, and neither the run (whose channel is larger than its number of alerts)
nor the theorem (`Room`) says that it is.

## 5. Where code and documentation differ

Three runs end in a violation, with the finding in `PROJECT.json`:
`creation_xa`, `checkout_decided`, `order_total_panic`.
The models contain further differences that no run is devoted to:

- `notificationservice/orderQueue.go:27` adds an order "if it has not already
  been processed"; one that is redelivered after its eviction is added again.
- `inventoryservice/inventory.go:172` says that `SetInventoryProductStock`
  "creates a new inventory product entry" for a product that does not exist;
  line 183 dereferences its nil entry, and the process ends.
- `productcatalogservice/product_catalog.go:158` promises NotFound for a product
  that does not exist; line 164 dereferences nil first.
- `warehousemanagement/xa.go:33-34` speaks of handlers "using DTM branch
  barriers"; there are none, and a call that comes late is carried out.
- `kustomize/components/dtm/README.md:3-4` speaks of transactions whose "correct
  execution" is ensured; the compensation of a creation whose answer was lost is
  repeated for ever, because the catalog panics on the second deletion.
- `reorderservice/README.md` says that it keeps "the current stock alerts"; the
  ones that were opened before it subscribed are never streamed to it.
- `notificationservice/notification.go:172-173` speaks of clients "matching
  the alert's categories"; the loop at 181 keeps what its last round found, so
  that only the last category counts.
- `frontend/handlers.go:1372-1383` calls a stock below 5 critical and below 10
  low; the inventory, whose alerts are shown next to it, up to 3 and up to 10.
- A user without any category is shown every product on the inventory page (a
  nil list is taken for no filter), and a product's second category brings
  neither its listing nor its form (`handlers.go`, the loop ends in its first
  round). The form itself is always answered by `Internal`, since the frontend
  sends no caller id secret.
- A token never expires: groups that were taken away stay until the next login.
- `reorderservice` restocks once for an alert. Where that is not enough the
  product stays low and is not ordered again until the answer is half an hour
  old and the reorder service is told of the alert anew: its alert keeps its
  time, to which the inventory answers `AlreadyResolved`. An order that does not
  lift a negative stock to nothing is refused and given up.
- `inventoryservice/inventory.go:395` publishes an event as "uncategorized" when
  the catalog does not answer, under a topic of its own, which stays retained
  beside those of the categories. No role is for it: only those who may change
  everything see the alert.
- A reload from AlloyDB (`productcatalogservice/catalog_loader.go:210`) empties
  the catalog first: what was created since is lost with each request while
  SIGUSR1 is on. The one from `products.json` keeps it.
- `warehousemanagement/mqtt.go:138` bounds a request to five seconds, and the
  transactions of `saga.go:58` and `xa.go:44` take no part in it: one that does
  not end blocks the worker, and the shutdown.
- Each of the deployed variants of warehousemanagement subscribes to the
  requests by MQTT, and each carries out every one of them. After a reconnection
  none subscribes again. A graceful stop hands what was acknowledged to the
  handlers, but with a cancelled context, with which they fail at once; a change
  may be made after its failure was logged. `saga.go:33` panics, and the process
  ends, when DTM is not there.
- The session cookie names no path. A customer whose first page is a product has
  a session for `/product` only, where the size of the "active cart" is that of
  another cart than `/cart` shows, and a logout leaves it alone; a first request
  to `/cart/empty` or `/cart/checkout` makes one for `/cart`. The cookie is not
  renewed and ends after 48 hours.
- A cart with a product that the catalog no longer has can be neither viewed nor
  ordered, and the form that empties it is on the page that does not come up.
- An order may have been placed though an error page comes up: the currencies
  are asked for after it.
- `currencyservice/server.js` converts USD to USD by way of euros: about half of
  all amounts of whole cents lose a nano, which the pages then show as a cent
  less (the prices in `products.json` do not).
- `frontend/handlers.go` panics on the cart page of a cart whose first item costs
  less than one unit, as the checkout does (`order_total_panic`).
- `RedisCartStore.cs:40-60` and `AlloyDBCartStore.cs:67-91` lose an addition that
  overlaps another, and bring a cart back that was emptied during one;
  `SpannerCartStore.cs:60` uses a transaction for the same operation.

## 6. Not modelled, and planned

Most lines of the implementation are generated from the protocol buffers of the
services, once for each service that uses them (`genproto`, about 21,000 lines
of Go, and the Python ones). They hold no decision of the program and are not
modelled; neither are start-up, tracing and the connections to other services.

Not modelled, because they keep no state that another part relies on: email,
ad, recommendation, ratings (one map, served without a lock at
`ratingservice/main.go:132`, so that Go may end the process), analytics and
Flink (events are published and forgotten), load generators, manifests. Left out
of modelled parts: names, prices and descriptions of products, analytics events,
contents of orders, the checks of a card number, the copy of the catalog in
Postgres, the demonstration in which all browsers share one session
(`ENABLE_SINGLE_SHARED_SESSION`, `frontend/middleware.go:96`: carts are then
everybody's, and neither `CartIsKept` nor `LogoutForgets` is meant for it), doubles (they differ from the exact arithmetic of `OrderPages` by one
nano at most for prices up to 200 USD in six currencies, which was measured and
not proved), and the tokens of services, which end after five minutes
(`shared/main.go:314`) while DTM repeats calls with them.

Known, and without a property of its own: `ORDER_QUEUE_CAPACITY=0` divides by
zero at the first order (`notificationservice/main.go:75`, excluded by
`OrderQueueAssumption`); a product without categories publishes no stock event
(`inventoryservice/inventory.go:412`), and an order without items, or of such
products, is not published (`checkoutservice/checkout.go:340`; `Checkout` has the
former); a repeated prepare is refused once
`FAIL_INVENTORY` was switched on (`inventoryservice/xa.go:19`); an alert may
stay open, and the product low, when its normal event was lost and the answer
to its old creation time is repeated (`reorderservice`, `main.py:181`), of which
nothing in the code promises otherwise; the owner of a product at its deletion
or change of stock need not be the one that was checked before the lock
(`product_catalog.go:164`, `inventory.go:133`); a channel that is full drops
alerts for good (`notification.go:185`).

The order of work was: the two components with the most state and their
proofs (`OrderFeed`, `Inventory`), their compositions (`ProductCreation`,
`Restocking`, `Checkout`), money, the requests by MQTT, and the pages of the
frontend with the services behind them. What would come
next: liveness by hand, with the enabling conditions of each fair action
written out and shown to persist (`ProductCreation` has the variant: what a
request has left to call), and an abstract specification of `Restocking`.
