# Verification of the restaurant-management backend

TLA+ specifications of the Node.js/Express backend in this repository (Prisma
over PostgreSQL, Redis as a cache), model-checked with TLC and partly proved
with TLAPS. Every definition is translated from the source; `PROJECT.json`
("map") names the lines each one stands for. Paths below are relative to the
repository; `src/src/modules/orders/...` is written `orders/...`.

The reason for this project: almost nothing in the backend serialises two
requests. A handler reads, decides, and writes later, and what keeps it right is
a handful of conditional UPDATEs, row locks and unique indexes. Unit tests run
one request at a time. The modules below run them all at once.

## 1. Inventory

| component | state it keeps | operations | interacts with |
|---|---|---|---|
| orders (`orders/order.{service,repository,validation}.js`) | orders with an optimistic-lock version, items, status history, idempotency keys | create (endpoints, POS, public, phone, WhatsApp, session round), change status, cancel, pay, refund, append a round, track | tables (OCCUPIED/AVAILABLE), coupons (use count), table sessions, event bus |
| table-sessions (`table-sessions/*.js`) | sessions, members, cart items, rounds, waiter calls | start, join, add/update/remove item, submit, confirm, reject, close, regenerate PIN, call/accept/dismiss waiter | orders (create/append inside the confirmation transaction), tables |
| coupons (`coupons/*.js`) | coupon with limit and use count | validate, apply in the order transaction, give back on cancellation, CRUD | orders |
| tables (`tables/*.js`) | table status, QR token | CRUD, status | orders, sessions |
| kds, phone-order | none of their own | status change, creation | orders |
| whatsapp (`whatsapp/*.js`) | webhook events, messages, connection | receive, retry, send, status callbacks | automation, inbox |
| whatsapp-automation | conversation state and cart | message by message state machine, checkout | orders, inbox |
| inbox | conversations, messages, manager lock | take over, release, reply, close | whatsapp |
| auth (`auth/*.js`) | device sessions, refresh-token hashes | login, refresh, logout, revoke; permission look-up | cache, employees |
| cache (`shared/utils/cache.js`, `config/redis.js`) | Redis entries, in-flight fills | read-through with single flight, invalidate | auth, menu, roles |
| customers | customers, addresses, default flag | find-or-create by phone, add/update/delete address | orders, automation |
| employees, roles, branches, menu, restaurants | one table each | CRUD | cache, auth |
| notifications, audit logs, event bus | appended rows | subscribers of domain events | every emitter |
| dashboard, multi-branch | none | aggregation queries | orders |
| tenant safety net, HTTP plumbing | none | query guard, routing, validation, rate limits | all |

What is hard, and what makes each component correct:

* **orders** - status and payment are read before the transaction that uses them;
  the UPDATE is conditional on the *client's* version only; payment and refund
  read the status again before the row lock; numbering reads a maximum and
  inserts later, with retries; an idempotency key expires for reading but not for
  the unique index; the table is checked, then taken. Correct when: an order only
  moves along its life cycle, the customer is charged the total once, the
  history is connected, numbers are unique and gapless, coupon uses are neither
  lost nor invented, a key creates one order, a table has one active order and is
  shown OCCUPIED while it has.
* **table-sessions** - only confirmation is a transaction; submitting, rejecting and
  closing are sequences of separately committed statements. Correct when: one
  open session per table, a round is decided once and billed once, a closed
  session is settled, confirmed items stay what was billed, a session never
  waits for a round that is gone.
* **guests of a table** - the PIN is compared and the count of failures written on a
  session read before; waiter calls are looked up, then created or updated. Correct
  when: nobody is locked out without having earned it, a call is decided once.
* **auth, employees, roles** - login is look-up then create; suspending, deleting and
  re-roling commit first, then revoke sessions, then delete the cached permissions, and
  a request may die in between. Correct when: sessions end with the access they were
  opened under, and a changed permission is not served from the cache.
* **cache, menu** - a fill that read before an invalidation stores after it; deletions
  may fail. Correct when: every change deletes what it makes stale, and what slips
  through expires. A product on the menu has a category on the menu.
* **whatsapp** - webhooks are redelivered, overlap, fail half-way; automation errors
  are swallowed. Correct when: no event counts as processed without its message stored, the
  automation sees a message at most once, every delivered event is decided.
* **automation, inbox** - the conversation is read once and written back column by column
  while staff change it; checkout has no idempotency key; a hand-off is three steps.
  Correct when: what was picked is ordered once and what a waiting customer writes
  reaches the inbox.
* **coupons** - locked and read again in the order's transaction. Correct when: a use is
  counted on a valid coupon only, the discount is the coupon's as it stands and within
  what it applies to.
* **customers** - find-or-create by phone, default address decided on an earlier read.
  Correct when: the orders of a phone go to one customer, who has one default address.
* **branches, connections** - one main branch, one active WhatsApp connection.
* **notices and audit** - asynchronous listeners after the answer. Correct when: nobody
  is notified of what they do not want.

`PROJECT.json` ("hazards") lists each of these at its line with the properties
that cover it.

## 2. Modules

| module | models | state -> code |
|---|---|---|
| `OrderStates` | status machine of an order (`validateStateTransition`, prisma enums) | - |
| `OrderLifecycle` | abstract specification: what an order promises, atomically | status, payment, total, charged |
| `Orders` | orders in detail: requests as sequences of steps, transactions, row locks, retries | `order`, `history`, `table`, `timesUsed`, `idem` are tables of the database; `fresh` and `today` are time; `writer`, `creator` are the local variables of running handlers; `collected` is auxiliary |
| `TableSessions` | sessions, rounds, items; composed with `OrderLifecycle` for the orders they create and extend | `session`, `round`, `item`, `table` are tables; `handler` the local variables; `bill` the order items |
| `TableGuests` | joining with the PIN, lockout, members, waiter calls of one session | `seating` is the session row, `call` the calls, `guest` and `waiter` running requests |
| `Conversations` | one customer's WhatsApp conversation: automation, cart, checkout, hand-off, inbox, staff requests on both; what `WebhookEvents` promises | `conv`, `inbox` are the two rows, `inbound` the stored messages, `handler` and `agent` running requests; `ordered`, `waited` are auxiliary |
| `WebhookEvents` | deliveries, redeliveries and retries of webhooks, sending, delivery statuses; composed with `Conversations` | `event`, `outbound` are tables, `delivery` the running webhook requests |
| `AuthSessions` | login, refresh, logout, revocation | `employee`, `session` are tables, `client` the running requests |
| `Access` | roles, cached permissions, administrators' requests; composed with `AuthSessions` | `role`, `granted` are tables, `cache` is Redis, `fill` the look-up in flight, `admin` the running requests |
| `Menu` | categories, products, modifiers and the public menu cached under two keys | `category`, `product`, `open` are tables, `served` is Redis, `filling` the look-ups in flight |
| `Coupons` | coupon rules, discount, use in an order's transaction, edits | `coupon` is the table, `checkout` the orders' transactions, `editor` managers' requests |
| `Customers` | customers and their unique phones, find-or-create | `customer`, `phoneOf` are tables |
| `Addresses` | one customer's addresses and the default | `address` is the table |
| `Premises` | branches, WhatsApp connections | `branch`, `connection` are tables |
| `Notices` | event bus, audit rows, notices, preferences | `audit`, `notice`, `disabled` are tables, `notifying` the listener |
| `BackOffice` | the seven modules above that share no state, side by side | `area`: which of them a behaviour is about |
| `MC...` | symmetry sets and constant values for TLC | - |
| `OrdersProofs`, `OrdersSafetyProofs` | theorems about `Orders`: whatever versions clients send, and for clients that send versions they have seen (with the refinement of `OrderLifecycle`) | - |
| `TableSessionsProofs`, `OneEmployeeProofs` | theorems about `TableSessions`: for any overlap, and for one employee deciding at a time | - |
| `WebhookProofs` | theorems about `WebhookEvents` and `Conversations` | - |
| `AccessProofs` | theorems about `Access` and `AuthSessions` | - |
| `BackOfficeProofs`, `BackOfficeTypesProofs` | theorems about the parts of `BackOffice` | - |

**Granularity.** One action is one database statement, or several between which
no other request can see or change anything that matters. A transaction at READ
COMMITTED is split where it reads something it later relies on. Thus a writer of `Orders` has the steps
*read and validate* (service), *read in the transaction* (payment and refund),
*conditional UPDATE* (takes the row lock, or matches nothing and rolls back) and
*commit*, and a creator *check the table*, *read the next number*, *insert* (or
hit a unique index, and retry). In `TableSessions` every statement of submit,
reject and close is an action; the confirmation transaction is two: the lock of
the rounds with the read of their items, and the commit.

**Failures.** A handler may stop at any step (`WriterDies`, `CreatorDies`,
`Fails` and the like): an open transaction rolls back, statements committed by
themselves stay. `WebhookEvents` distinguishes a rejected statement
(`StatementFails`, marked FAILED), a failing automation (`AutomationFails`, swallowed) and
the death of the process (`Dies`), at most `MaxFailures` together. Redis may refuse a
deletion (`Invalidate`, `InvalidateMenu`), which the code logs and forgets.

**Composition.** `TableSessions` instantiates `OrderLifecycle`: the order it
creates or extends, and what order endpoints do meanwhile, are steps of the
abstract order. `Orders` implements `OrderLifecycle` (run `orders_lifecycle`,
theorem `OrdersImplementLifecycle`), so what `TableSessions` assumes about
orders is what `Orders` guarantees. `BeginRound` and `ReadForAppend` are the two
calls the confirmation transaction makes, seen from the order side.

`WebhookEvents` extends `Conversations`: storing a message starts its handler, whose steps
are the conversation's own. The property `AutomationSeesMessagesOnce` is the specification
`Conversations!ConversationSpec`, in which a message is started at most once: overlapping,
repeated and failing deliveries implement it. `Access` extends `AuthSessions`: a
suspension or a new password revokes sessions in a step of its own, between the commit and
the deletion of the cached permission.

`BackOffice` puts seven modules into one specification. They have no variable in common
and no step of one reads another, so every property, each about the variables of one
module, holds of all interleavings if it holds of the behaviours in which only that
module moves. `Init` chooses the area, and a behaviour stays in it.

### Abstractions

* The bill is counted in rounds: an order's total is 1 when placed and grows by 1
  per appended round. Prices, discounts and taxes are left out; the properties only
  compare totals with totals. In `TableSessions` what a round is made of is the
  quantity of each item.
* `PICKUP` takes the path of `DINE_IN` (the code tests for `DELIVERY` only).
  `FAILED` payments are never written by the code.
* Of the sources only "is it QR" matters (QR orders skip the table check).
* Payments, refunds and cancellations of an order, and status changes, lock the same
  row and are ordered by it; `Locked` is that lock. What a transaction reads after
  its UPDATE (the other active orders on its table) is read at the UPDATE.
* A removed item keeps its id with quantity 0; ids are never reused (cuid).
* The in-process start lock is left out: it orders only callers of one process, and the
  unique index decides anyway.
* The table endpoints, which let staff set any status by hand, are left out: with
  them no statement about table status could hold.
* `Conversations`: a message is what it means in the state it meets (a word, or a digit that
  the state interprets); answers, prices and the address are left out; a cart is the set
  of messages that picked its items. What menu and branches hold is a choice.
* `WebhookEvents`: one connection; the id of an event is the id of its message, as the
  code takes it, and so a status callback shares the id of the message it reports on.
* `AuthSessions`: tokens, device names and rate limits are left out; the password is a number
  that changes. `Access`: a role is modelled by whether it grants one permission.
* `Menu`: names and order are left out; what a product shows, modifiers included, is one
  of two details. `Coupons`: money is in units for which percentages come out whole, dates are
  one flag the clock changes. `Customers`: both unique indexes hold for deleted rows too, as in
  the schema. In all of them a conflict over a name or code ends the request unchanged.
* `TableGuests`: how long a lockout lasts and which PIN is right are left out, and with
  the latter `regeneratePin`.
* Auxiliary variables (`collected`, `ordered`, `waited`, `tainted`, `abandoned`, `answered`,
  `wrongPins`, `wantedSince`...) record history for the properties; no guard of the code's
  own steps reads them, except where `MaxWrongPins` and the like bound an instance.
* External: rollback and row-lock waits of PostgreSQL, Prisma's `cuid()`, expiry in Redis,
  the end of the process.

## 3. Runs

All runs say `CHECK_DEADLOCK FALSE`: the instances are finite and really stop
(every order terminal, every session closed, every id used, every bound reached).

| run | question | result |
|---|---|---|
| `orders_lifecycle` | one order, two overlapping writers of every kind, versions one behind: is every customer charged the total once, is the history connected, does the whole implement the abstract life cycle? | holds |
| `orders_creation` | two creators, three orders, midnight, one coupon with one use, one key that expires, cancellations: numbers, coupon count, key | holds |
| `orders_end` | do lock waits and the retry loop end? (liveness) | holds |
| `sessions_rounds` | two employees start, confirm, reject and close two sessions of a table while a guest submits two rounds: decided once, billed once, one session open at a time | holds |
| `sessions_one_employee` | if staff never overlap, whatever two guests and the order endpoints do: the rounds of a bill have different numbers, one open order per session, linked order settled at closing, a returned round on no bill | holds |
| `webhooks_redelivered` | two webhook requests at once, two messages (a confirmation, a call for an agent), one failure or death anywhere, an employee using the hand-off endpoint: at most one order per confirmation, no processed event without its message, each message automated at most once (refinement of `Conversations`), every event decided (liveness) | holds |
| `webhooks_in_turn` | one webhook at a time, two messages out of eight texts from six starting points, an outbound message with its statuses, an employee making every inbox request in between: picks ordered once, waiting messages in the inbox | holds |
| `access` | one employee on two devices, two administrators with two requests of any kind, every one of which may die, Redis refusing deletions, look-ups overtaken by changes: sessions end with access, changes are invalidated, staleness ends (liveness) | holds |
| `back_office` | the seven small parts, each with overlapping or failing requests | holds |
| `orders_two_active` | "A table can only have one active order" | **violated** |
| `sessions_items_edited` | items of a confirmed round stay as billed | **violated** |
| `coupons_percentage` | "Percentage value cannot exceed 100" | **violated** |

Each violated run is a finding in `PROJECT.json`, with the statement of the
repository it contradicts.

What `back_office` checks, part by part. *Menu*: a cached menu that was right when stored is
deleted by every change of what it shows, under both keys; a product on the menu keeps a
category; outdated menus end. *Coupons*: the discount used is the coupon's as locked, a
use counts on a valid coupon only, a discount stays within the lines it is for (unless an
edit left more than 100 percent, the finding). *Customers*: the orders of a phone go to
one customer, also when two orders race and when the customer was deleted.
*Addresses*: one default. *Premises*: only the newest connection is active. *Guests*: a
lockout is earned, a call is decided once. *Notices*: nobody is notified of a type that
was disabled all along.

### Guarantees that need requests one at a time

Several promises of the code hold only while certain requests do not overlap, and the runs
say so by giving one request of that kind to the instance: `OneAppendableOrderPerSession`,
`ClosedSessionIsSettled`, `ReturnedRoundIsNotBilled`, `BilledNumbersUnique` (one employee
deciding, any guests and order endpoints), `PicksOrderedOnce` and `WaitingMessagesReachInbox` (one
message at a time, any staff; no failure, no hand-off endpoint), `CategoriesKeepTheirProducts`
(one manager moving and deleting; another edits details), `OneDefaultAddress` (one
request per customer at a time) and `OnlyNewestIsActive` (one manager changing
connections). With two, each can be broken in the same model: two confirmations open two
orders; a return deletes the round another employee is confirming, and its number goes to the next
round of the same bill; two messages order one
cart twice; a product is created in a category being deleted; two first addresses are both
the default; a status change
that read the connection before another one was connected makes the older one active again. What is promised there is sequential
correctness across long sequences of operations, which is what the tests of the repository
promise too; the hazards in `PROJECT.json` name the line where overlapping requests go wrong.

The models also reach states that are suspicious but that no run states a property
about: an order that ends frees a table on which a new order has just been placed;
a closing session frees the table of the session that has just been started after it;
two guests make two waiter calls; a confirmation before the submission's last write
leaves a session awaiting a round that does not exist; a session with an earlier order served but
unpaid is closed; two logins at once leave an employee on two devices; a second employee whose acceptance changed no row is
announced all the same; two requests at once make two main branches, and no property is stated
about branches, as one request at a time meets nothing but its own check. The hazards of `PROJECT.json` name them.

### Bounds

* `MaxVersion`: an order can be written that many times less one. 6 leaves room for
  the four status changes to DELIVERED plus a payment, or for rounds, payment and refund
  around a cancellation, with two writers overlapping at any point.
* `Stale = 1`: a client's copy may be one version old. An older one behaves the
  same: the UPDATE matches no row and versions only grow.
* `Guess`: 0 means a client sends a version it has seen. The API accepts any positive
  integer; with `Guess = 1` a status change validated on an old read matches the version
  an intervening cancellation has written, and the cancelled order is active again, so
  `orders_lifecycle` needs 0. `orders_end` uses 1, and nothing is assumed about it in
  `TypeCorrect` and `KeysAnswerOnce`.
* `MaxDay = 2`: one midnight between any two steps of a creation.
* `MaxRetries = 3` is the code's. Limit 1 per coupon and one key make every conflict happen.
* Two requests of a kind suffice for every pairwise overlap; two orders (three for
  numbering), two rounds, two items, two sessions of one table are
  enough for an old row to meet a new one.
* `MaxQuantity`, `MaxCalls`, `MaxMembers`, `MaxWrongPins` bound item quantities, calls,
  members and wrong PINs; three wrong PINs are the first lockout level.
* `MaxFailures = 1` in `webhooks_redelivered`: one rejected statement, failed automation or
  death at any point, followed by redeliveries; `MaxFailures = 0` in `webhooks_in_turn`, see above.
* `StartConversations` replaces the long dialogue that leads to a state by the states it leads
  to; every one of them is reached by messages of a customer, and two further messages suffice
  for the pairs of commands that interact.
* `MaxChanges = 2`, `MaxMenuChanges = 2`, `MaxCouponChanges = 2`, `MaxCustomerChanges = 3`: two
  changes, one of which overtakes the other, or undoes what a look-up has read; three
  for create, delete and create again.
* `MaxAddresses = 4` lets a default be handed on twice; `MaxConnections = 3` a connection
  be replaced twice; `MaxEvents = 2` two listeners overlap.
* `Values`, `Limits`, `Minimums`, `Caps`, `Lines`: each rule of a coupon applies to one of two
  orders and not to the other, with and without cap and limit.
* Symmetry is used for request and row ids only, and never in the liveness run.

### Fairness

`RequestsEnd` is checked under `Fairness`: weak fairness of each handler's next
step, because the event loop runs every settled promise, and strong fairness of
the UPDATE, because PostgreSQL queues waiters for a row lock and so an
UPDATE is not passed over for ever. Arrivals, deaths, expiry and midnight are not fair.

`EventsAreDecided` needs weak fairness of a running webhook's next step and of delivering
a message until its event is processed: the provider repeats a webhook that was not answered 200.
Nothing is assumed about failures other than that they are finitely many.
`StalenessEnds` and `StaleMenusEnd` need only that a look-up in flight ends and that an
entry's time-to-live elapses (`Expire`, `ExpireMenu`, for every entry in Redis), and for `Access`
that the requests of administrators proceed. No change and no new request is assumed.

## 4. Proofs

The theorems hold for any constants that satisfy the named assumptions of the modules
(`OrdersAssumption`, `SessionsAssumption` and the like: None is not an id, bounds are naturals,
inputs are of the kinds the code takes; coupons also take `Absent` to be neither a number nor a
request). Sets of requests, rows, employees and messages are arbitrary and, unless
said otherwise, may be infinite. Where a theorem needs more, it is a hypothesis of the theorem:

* `NoGuessing` (`Guess = 0`, marked *): clients send order versions they have seen; section
  3 says why.
* `IsFiniteSet(RoundId)` for `TableSessions`: a number is chosen up to the number of rounds.
* `IsFiniteSet(Message)` for the types of `WebhookEvents`: an item is ordered at most as often as
  there are messages.
* Requests one at a time: `OneEmployee` (two requests of employees are one) for the theorems of
  `OneEmployeeProofs`; `OneConnects` for the connections, `OneSaves` for categories (at most one
  manager's duties include creating, moving or deleting), `OneAddressClerk` for addresses; `InTurn`
  (one webhook request, no failure) for carts and waiting messages, the latter also with
  `NoOpenHandoff` (the hand-off endpoint is not used, and no agent is waited for at the start).
  Section 3 says what goes wrong without, and the runs named there are instances of each.

| theorem | statement | argument |
|---|---|---|
| **OrdersProofs** | | |
| `TypeCorrect` | `Spec => []TypeOK` | inductive as it stands, one lemma per group of actions |
| `KeysAnswerOnce` | `Spec => KeyAnswersForOneOrder` | only `Insert` writes `idem`, and the unique index keeps it off keys already answered |
| `NumbersAreGapless` | `Spec => []NumbersGapless` | `NumbersInv` |
| **OrdersSafetyProofs** | | |
| `ChargesAreExact` * | `Spec => []ChargedTheTotal` | inductive invariant below |
| `HistoryConnects` * | `Spec => HistoryIsConnected` | the same invariant: what a locked writer read is what the row still says |
| `CouponsAreAccounted` * | `Spec => []CouponAccounting` | `CouponInv`, on top of the two invariants above |
| `OrdersImplementLifecycle` * | `Spec => ImplementsLifecycle` | each action maps to one abstract step or a stutter |
| **TableSessionsProofs** | | |
| `TypeCorrect` | `Spec => []TypeOK` | with what each local state must hold at each step (`Targets`) |
| `TablesHaveOneSession` | `Spec => []OneOpenSessionPerTable` | two open sessions of a table are equal; every write of a status passes the unique index |
| `DecisionsAreFinal` | `Spec => RoundsDecidedOnce` | `LockInv`, `Undecided` |
| `BillsAreExact` | `Spec => []RoundsBilledOnce` | `BillInv` |
| **OneEmployeeProofs** | | |
| `ClosedSessionsAreSettled` | `Spec => []ClosedSessionIsSettled` | what a close read of the order is still so, and settled orders stay settled |
| `ReturnedRoundsAreUnbilled` | `Spec => []ReturnedRoundIsNotBilled` | a round about to be returned is undecided, so it names no order |
| `BillsTellRoundsApart` | `Spec => []BilledNumbersUnique` | a billed round is never deleted, so the unique index on stored rounds (`RoundNumbersUnique`) covers a whole bill |
| `SessionsHaveOneOrder` | `Spec => []OneAppendableOrderPerSession` | the order a session names is the only one that can take a round |
| **WebhookProofs** | | |
| `ProcessedAreStored` | `Spec => []ProcessedIsStored` | a request past the look-up that goes on to mark an event has its message stored (`MarksStored`) |
| `AutomationIsAtMostOnce` | `Spec => AutomationSeesMessagesOnce` | every step is a step of `Conversations` or leaves it alone: a request starts a handler only in the step that stores the message, and has none running (`OneAutomation`) |
| `OrdersNeedConfirmations` | `Spec => []OrdersAreConfirmed` | `ConversationInv` |
| `WebhookTypes` | `Spec => []TypeOK` | the same, with `WebhooksTyped` for events, deliveries and messages sent |
| `PicksAreOrderedOnce` | `Spec => []PicksOrderedOnce` | `CartInv` |
| `WaitingMessagesAreHeard` | `Spec => []WaitingMessagesReachInbox` | `WaitInv` |
| **AccessProofs** | | |
| `PermissionsAreInvalidated` | `Spec => []ChangesAreInvalidated` | `WrongIsExplained` |
| `AccessEndsSessions` | `Spec => []SessionsEndWithAccess` | `LeftIsExplained` |
| `AccessTypes` | `Spec => []TypeOK` | what both invariants say of types, and `RestTyped` |
| **BackOfficeProofs** | | |
| `LockoutsEarned` | `Spec => []LockoutsAreEarned` | every count a guest has read, and the count stored, is at most the wrong PINs so far |
| `CallsAreDecidedOnce` | `Spec => CallsDecidedOnce` | accepting and dismissing are conditional updates |
| `MenusAreInvalidated` | `Spec => []MenuChangesAreInvalidated` | a change deletes under both keys, and a fill that it overtook is marked |
| `DiscountsStayCurrent` | `Spec => []DiscountsAreCurrent` | a coupon that an order has locked is edited by nobody |
| `UsesOnlyOfValidCoupons` | `Spec => UsesOnlyWhileValid` | the same invariant, and what was validated under the lock |
| `NewestConnectionIsActive` | `Spec => []OnlyNewestIsActive` | what the one manager found is still the newest |
| **BackOfficeTypesProofs** | | |
| `NoticesAreWanted` | `Spec => []OnlyWantedNotices` | whom a listener has chosen wanted the event, and whoever wants its type now has |
| `OneCustomerPerPhone` | `Spec => []OrdersGoToOneCustomer` | `PhonesLeadToOne`: a phone is the phone of one row, deleted or not, and who answered an order still has it |
| `OneAddressIsDefault` | `Spec => []OneDefaultAddress` | `FoundStands`: what the one request found is still so |
| `CategoriesKeepProducts` | `Spec => []CategoriesKeepTheirProducts` | `ReadsStand`: what the one manager who saves has read still holds when it is written |
| `DiscountsAreWithinOrder` | `Spec => []DiscountsWithinOrder` | a percentage of at most 100, a fixed value and a cap are each taken up to the subtotal, a natural number |
| `TypesAreKept` | `Spec => []TypeOK` | the invariants of all areas together |

**Orders.** `ChargedTheTotal` is not inductive: a payment commits an amount it read long ago, so
the invariant must say what a handler's local state still knows. It has four parts
beside types and `ChargedTheTotal` itself. *WriterInv*: the version a running writer
expects is at most the row's (this is where `NoGuessing` is needed); if it equals it, what the writer read
and checked - status, payment status, total - is still true of the row, and a writer that
holds the lock expects the row's version. *LockInv*: a row is locked by one writer.
*CreatorInv*: the id a running creator will use belongs to no placed order and to no other
creator. *RowInv*: a row that is not placed is blank.

`NumbersGapless` needs no assumption about versions. Its invariant `NumbersInv` states it of every day,
with what a creator still knows of the number it has read: it is at least the first and at
most the next one, so an insert either takes exactly the next number or meets the
unique index, and retries. That needs placed orders to be finitely many, which is
part of the invariant and not assumed.
`CouponAccounting` counts the orders that hold a coupon (`Holders`). An insert adds one and the
conditional use counts it; a cancellation takes one away and gives a use back, and it
takes it away only if the order was not cancelled before: `CancelInv` says that what
was validated was not terminal, and *WriterInv* that the row still is what was
validated. A use given back twice would be a cancellation of a cancelled order, which is why this
theorem, too, needs `NoGuessing`.

The refinement maps an unplaced row (version 0) to status "NONE" and the other variables
to themselves. Commits map to `Advance`, `Cancel`, `Pay`, `Refund`, `AddRound`, an insert to
`Place`, all else to a stutter; the commit steps need the invariant for the abstract
guards, since the checks were made on an earlier read.

**Table sessions.** `StepHandlers` says once what any step does to the local state of its
request, so that the invariants need a case only for the steps that write what they are about.
*LockInv*: what a confirmation has locked is undecided, of its session, and locked by
nobody else - a return or a closing waits for it. *Undecided*: only a decided round names an order.
*BillInv*: a round on a bill names that order, so it is on no other and a total is raised once; an
order is placed exactly if its bill is not empty; and what a session names, or a running
request has read from a session (`SessionsKnow`, `RequestsKnow`), is an order all of whose rounds are of
that session, which is what makes a confirmation that appends on an old read harmless for the bill.
With one employee *DecisionInv* adds that such a read is also up to date (`Current`), that a
close has seen the order settled (`Checked`) and a return its round undecided (`Found`).

**Access.** `ChangesAreInvalidated` speaks of some administrator being busy with the
employee, which is not inductive: a request that is still looking up the holders of a role may turn
out not to delete this employee's key. `WrongIsExplained` therefore names the requests that
will delete the entry (`Deletes`), `LeftIsExplained` those that will revoke the
session (`Revokes`).

The type of a session and of a login follows from the first invariants; `RestTyped` adds the
variables they do not speak of.

**Webhooks.** `NextDoes` says what a step of `WebhookEvents` is to the conversation - a stored
message that starts its handler, a step of a handler, of staff, or none - and `HandlesEffect` and
`StaffEffect` what each may change, so that the invariants below have few cases. `OrdersAreConfirmed`
compares the orders with the confirmations received, which is not inductive: a confirmation
received but not acted upon must not have been counted. `ConversationInv` therefore compares
with `Confirmed`, the confirmations acted upon, and says that no two handlers have the same
message (`OneMessageEach`), so that acting adds one to the count and one order at most.
`CartInv`, for messages in turn: what a handler decides on is the cart as it is, although staff
may write the conversation in between; an item that was ordered has left the cart or is about
to (the handler is emptying it); and a message not acted upon has picked nothing, so that an
item that left cannot come back. `WaitInv`: a conversation that waits for an agent has its inbox
conversation, or the handler that asked for the agent is about to open it, and whoever reads
the conversation as waiting finds it.

**BackOffice.** `AreasAreApart`: a step is a step of one area and leaves the variables of the
others unchanged. Each theorem is then an invariant of its own part.

`TypesAreKept` adds to the types of menu, coupons, customers, addresses, guests and notices what a
running request must hold for its next statement to keep them (`MenuIsTyped`, `UsesCounted`,
`RequestsFit`, `WaitersTyped`). A subtotal is a fold over a set of lines, which is a recursive function. That
subtotals are naturals is shown by least counterexample, with the library's well-foundedness of <
on the naturals (`LeastNatural`, `AllNaturals`, `SubtotalsAreNatural`); the library's induction
theorems, which take an operator, are not needed.

Writing the proofs made some assumptions on constants explicit that the code satisfies and the
modules had left unsaid: None, `NoType` and the like are none of the things they stand beside
(`NoticesAssumption`, `MenuAssumption`, `ConversationsAssumption`), a coupon has some value and
limit to take (`CouponsAssumption`), and what a cart holds at the start was picked by an
earlier message (`StartAssumption`): a message may not be in a cart before it is sent.

Every invariant that a run checks is now a theorem, and so is every action property and both
refinements. Only model-checked are the liveness properties `RequestsEnd`, `EventsAreDecided`,
`StalenessEnds` and `StaleMenusEnd`: they rest on fairness, and so on ENABLED, which the prover does
not reach. The theorems say nothing of the premises they are stated under: that clients
send versions they have seen, or that requests come one at a time, the code does not enforce.

## 5. Not modelled, and the plan

Left out of modelled components: pricing of items, tracking and listing of orders;
`regeneratePin`; internal notes of the inbox; registration of a restaurant, token values and
signatures; creation of employees and roles, and deletion of roles (only roles without
employees can be); working hours and settings of branches; the restaurant's profile;
the table endpoints. They are queries, or single-row writes that no other
component's state depends on, apart from the table endpoints, with which a table's
status means what staff last set it to.

Left out for good: dashboards and multi-branch reports (read-only queries), the tenant
safety net (a function of a query's arguments), routing, validation, rate limits,
configuration and start-up (I/O and library configuration).

Worth proving next: the steps of the liveness arguments that are safety (a measure that every fair
step of a handler lowers and no other step raises), for `RequestsEnd` and `EventsAreDecided`; that
`OrderLifecycle` itself charges an order once, so that what `TableSessions` composes is a
theorem of the abstract specification; and the hypotheses `InTurn` and `OneEmployee` weakened to
one request per customer or per session. None of the modules declares a recursive operator.
