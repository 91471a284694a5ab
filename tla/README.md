# Verification of oficina-fiap-api

TLA+ specifications of the workshop back end (NestJS over PostgreSQL through
Prisma), TLC configurations that check them on small instances, and TLAPS
proofs of their main properties for every value of the constants.

Paths below are relative to the repository; `@/` stands for `src/modules/`.

## 1. The system

### Components

| Component | State | Operations that change it | Modelled by |
|---|---|---|---|
| Service order `@/service-order` | one `service_order` row per order: status, mechanic, cancellation reason, instants of assignment, dispatch and completion | open, assign, await approval, await parts, register dispatch, complete, await payment, deliver, cancel | `ServiceOrder` |
| Stock `@/stock` | `part.quantity`; `stock_movement`, unique on the idempotency key | create/update/delete part, increase, decrease | `StockMovement` |
| Budget `@/budget` | numbered versions of one order's budget, their items, status, `updatedAt` | create (allocate a version), add/remove item, send, accept, refuse, apply the decision of the emailed link | `Budget` |
| Billing `@/billing` | one `billing` row per order; `billing_checkout_session` rows | generate, renew link, expire, webhook, success return, cancel return, deliver | `Billing` |
| Penalty `@/billing/domain/value-objects` | none | fine and interest from days overdue | not modelled, but for whether a day is overdue |
| Parts dispatch `@/parts-dispatch` | none of its own | takes the parts of the accepted budget, or registers what is missing | `Supply` |
| Purchase order `@/purchase-order` | `purchase_order` rows with their items | create, register shortage, add/remove item, register purchase, mark delivered (increases stock) | `Supply` |
| Notification `@/notification` | one row per email: status, attempts, `updatedAt` | enqueue, deliver, retry | `Notification` |
| Client `@/client` | `client` rows, unique on document and email | create, update, delete | `Registers` |
| Vehicle `@/vehicle` | `vehicle` rows, unique on the plate, each with its client | create, update, delete | `Registers` |
| Service catalog `@/service-catalog` | `service` rows, unique on the name | create, update, delete | `Registers` |
| Refresh sessions and customers' accounts `@/auth`, `@/client`, `src/shared/identity` | `user` and `refresh_session` rows; the claims in tokens already out | create account, login, refresh, logout; removal with the client | `Access` |
| Value objects | none | range checks, normalisation | not modelled, but for what comparisons see |
| HTTP, guards, filters, email, logging | none | — | not modelled: stateless, or output only |

### How they interact

Modules call each other's use cases in process, through adapters, with no
transaction around more than one of them:

- `CreateBudget` (first version) moves the order to AWAITING_APPROVAL after the
  insert; `AcceptBudget` moves it to AWAITING_PARTS after the update and asks
  the stock for parts by email.
- Parts dispatch reads the accepted budget, decreases stock part by part, and
  moves the order to IN_PROGRESS; what is missing becomes a purchase order,
  whose delivery increases the stock item by item.
- Opening an order looks up client, vehicle, owner, services and parts in four
  other modules and then inserts. Foreign keys keep what an order, a vehicle or
  a movement refers to from being deleted; a client's login and its sessions
  go with the client (`onDelete: Cascade`).
- Every email goes through the notification table: the row is written, the mail
  is sent, the outcome is written.
- Billing moves the order to AWAITING_PAYMENT or DELIVERED after its own row
  was written. Stripe reaches it by webhook, the client's browser by two return
  pages.

### What is hard

- **Interleaving.** Every `await` lets other requests run. All use cases are
  load, change a copy, write; what protects the write differs by module:
  *service order*: nothing but one partial unique index; *stock*: a transaction
  with a conditional update; *budget*, *billing* and *notification*: an update
  that compares status and/or `updatedAt`; *refresh sessions*: a conditional
  update in a transaction; *purchase order*: nothing; *clients, vehicles,
  services*: unique indexes and foreign keys.
- **Stops and partial failure.** A request may stop between two writes.
- **Delivery.** Webhooks, budget decisions and stock calls are repeated, late
  or concurrent.
- **Time.** Links expire; a fine needs a whole day; a renewal, an expiry and a
  late payment race; comparisons of `updatedAt` must survive a clock that stands
  still or is set back.
- **Claims that outlive their source.** A token carries the client of its login
  and nobody loads the login again.

### What makes each component correct

- Service order: one active order per mechanic; status and milestones of a row
  agree; times are in order; transitions follow the table.
- Stock: the balance is the sum of what was posted; a key is posted once and in
  one step; an answer "done" is true; calls do not wait for ever.
- Budget: versions are numbered without gaps, frozen once sent and answered
  once; parts are requested once and only for an accepted version; nobody works
  on an order without one.
- Billing: settled once, for good and only if the gateway took the money;
  delivered only if settled; a payment that was taken is settled.
- Supply: an order is released only when every line of its budget was taken; a
  delivered purchase is in the stock unless its receipt was broken off; none
  that waits for its delivery is empty; the stock is used as its ledger allows.
- Notification: one mail per notification however many retry; the count of
  attempts is true; nothing PENDING is forgotten.
- Registers: keys are unique, an order has its client's vehicle, nothing is
  orphaned.
- Access: one live session per login and none after it was closed; no login
  without its client; a token shows a customer its own orders only.

## 2. The modules

Each component has an abstract specification of what it promises, a detailed
one of the requests in the code, and a proof module. `Supply` and `Access`
compose: they run over the abstract specification of another component
(`StockLedger`, `Office`), which that component is proved to implement.

| Abstract | Detailed | TLC | Proofs |
|---|---|---|---|
| `OrderLifecycle` | `ServiceOrder` (both use `OrderStatus`) | `MCServiceOrder` | `ServiceOrderProofs` |
| `StockLedger` | `StockMovement` | `MCStockMovement` | `StockLedgerProofs`, `StockMovementProofs` |
| `BudgetNegotiation` | `Budget` (uses `OrderStatus`) | `MCBudget` | `BudgetProofs` |
| `BillingAccount` | `Billing` | `MCBilling` | `BillingProofs` |
| `StockLedger` | `Supply` (uses `OrderStatus`) | `MCSupply` | `SupplyProofs` |
| `Outbox` | `Notification` | `MCNotification` | `NotificationProofs` |
| `Office` | `Registers` | `MCRegisters` | `OfficeProofs` |
| `Rotation` | `Access` (over `Office`) | `MCAccess` | `OfficeProofs` |

A detailed module has *slots* for requests handled at the same time. A slot
holds what the request has in memory: the step it is at and its copy of the
row. Each database call is an action; an entity method that runs between two
awaits belongs to the action of the await before it. Guards are the entity's
and the use case's; a request that is refused either is not enabled (when
nothing was written before) or finishes.

**ServiceOrder.** `orders[o]` is the row, `requests[r]` a copy. `Hold` is
`ServiceOrderTransition.load` and the entity method; `Persist` is the update by
id of all mutable columns (`toUpdate`), refused only by
`service_order_active_mechanic_key`. `LoadToAssign` and `AssignMechanic` are
the two reads of `AssignMechanicUseCase`. `now` is the clock that
`new Date()` reads; it is assumed not to turn back, and instants are compared
with `<=`, so equal instants are covered. Client, vehicle, description and
requested items never change after the insert and are left out.

**StockMovement.** PostgreSQL at READ COMMITTED, by what its locks do: an
insert waits for an open insert of the same key, an update waits for an open
update of the same row and evaluates its condition afterwards, a foreign key
stops a deletion. `InsertMovement`, `ChangeQuantity`, `Commit`, `FindReplay`
are the awaits of `PrismaStockMovementRepository`.

**Budget.** One order, its versions, and the slots. The rest of the workshop
moves the order by `MoveOn` (any edge of the table of transitions but the two
that budgets make; IN_PROGRESS needs an accepted version, as
`DispatchPartsForServiceOrderUseCase` does). A stamp stands for `updatedAt`,
which `touch` makes strictly greater. Prisma reads a budget and its items by
two queries, so a copy may be torn; its `updatedAt` is then older than the
row's and the write is refused, so the model reads both at once. The expiry of
the approval link is a free choice: a decision may go through at any time.

**Billing.** One completed order, its billing row, the registered sessions and
the gateway (external: what Stripe does, as far as the code depends on it). A
session can be paid until `LinkLife` after it was opened and only if its link
was written to the billing (otherwise the client never saw it). Webhook,
success and cancel returns share `Settle`, `Persist` and `RereadBilling`; they
differ in `origin`. `GatewayFails` ends a request that gets no session.

**Supply.** The parts dispatch and the purchase orders over `StockLedger`,
whose `Post` may be one step because `StockMovement` implements it. A dispatch
holds the lines still to be looked at and what is missing (`ResolveRequirement`,
one balance per step), then the lines still to be taken (`Decrease`, one
movement per step, under the key of budget and part; a movement already posted
is answered as a replay), then writes the order; or it opens a purchase order
(`NextNumber`, `RegisterShortage`). A purchase order is loaded by
Prisma's two queries, the row (`LoadRow`) and then its items (`Loaded`), changed
by the entity as the second one returns (`AddItem`, `RemoveItem`,
`RegisterPurchase`, `MarkAsDelivered`, or refused, `RefuseChange`), and written
back whole (`WritePurchaseOrder`). Unlike a budget's, its update compares
nothing, so a copy that is torn between the queries is written as well: the
status of one moment with the items of another. A delivery is received item by
item (`ReceiveItem`, one `Post` each). `cutOff`
records the purchase orders whose receipt was broken off, so that a property
can name them. Quantities in a budget are hundredths, in the stock whole units:
`Required` is the code's rounding up. The service order is written in one step
here (`ServiceOrder` shows what overlapping writes of it do), and budgets come
in accepted (`Budget`). Prices, totals and suppliers are left out.

**Notification.** The row's `updatedAt` is a number, `clock` is what `new
Date()` returns, which may stand still or go back, and `Touch` is the entity's:
the clock if it is greater, one more otherwise. `Send` is the mail server:
accepted, refused, or accepted with the answer lost. The ghost variables
`mails`, `unanswered` and `sends` count what really happened, for the
properties to compare the row with; `told` holds what operators were answered.

**Registers.** Most of these use cases look something up only to refuse with a
better message and then make one write that unique indexes and foreign keys
decide. What was looked up is not used again, so the request does nothing that
its write alone would not do, and is one step (`AddClient`, `DropVehicle`, ...).
Three kinds of request hold on to what they read: updates of clients and
services, which write back a copy, and the opening of an order, which relies on
an earlier look at the vehicle's owner; these have a step per await, with
anything in between. Ids are random UUIDs, so an id that was used is `Gone` and
not used again. Documents, emails, plates and names are compared in the
normalised form their value objects give them; other columns are left out.

**Access.** Logins, sessions and requests over `Office`. `users` starts with
the staff that `prisma/seed.ts` puts there; the code has no other way to create
them. A refresh is three steps: the session is found live, the user is loaded
and the new pair signed, and one transaction revokes the old session if it is
still live and stores the new one (`Rotate`). A session whose row was deleted
by the cascade is kept as `"deleted"`, because its tokens are still out there.
Expiry is not a clock: `Fail` may end any request at any step, which covers a
token that expired by then. `InScope` is `clientScopeOf` and the comparisons
that use it (`findMine`, `isVisibleTo`): what a token shows. Which roles a
route admits, signatures and password hashes are left out.

## 3. The runs

| Run | Instance | Shows |
|---|---|---|
| `service_order` | 2 orders, 2 mechanics, 2 requests, 2 instants | exclusive mechanics, rows that agree with themselves, times in order, under every interleaving |
| `service_order_serial` | the same, but no two requests about one order overlap (`SerialSpec`) | the rows implement `OrderLifecycle`; terminal statuses stay |
| `service_order_race` (violation) | 2 requests | terminal statuses do **not** stay when requests overlap |
| `stock` | 2 parts, 2 keys, 2 calls, quantities 1 and 2, column of 2 | implements `StockLedger`; balances, replays, references, termination |
| `budget` | 3 versions, 2 items, 2 requests; 2, 1 and 0 edits | implements `BudgetNegotiation`; three attempts at a version; parts requested once; work is approved |
| `billing` | 2 sessions, 2 requests, clock to 2, 1 stop | implements `BillingAccount`; delivered only if paid; payments are settled |
| `billing_demoted` (violation) | 1 session, 2 requests | a paid order is put to AWAITING_PAYMENT |
| `supply` | 1 order with 2 accepted versions, 2 parts, 1 purchase order of 2 items, 2 requests | released orders were supplied, deliveries reach the stock, no purchase waits for its delivery without items |
| `supply_short` (violation) | the same with a budget of two equal lines | the order leaves with the parts of one line |
| `notification` | 1 notification, 3 requests, 3 attempts, clock 0 to 2 | implements `Outbox`; one mail, true counts, nothing forgotten, everything settles |
| `registers` | 2 clients, 2 documents, 2 emails, 2 vehicles, 1 plate, 2 services, 2 names, 1 order, 2 requests | implements `Office`; keys, owners and references |
| `access` | 2 clients, 2 emails, 1 vehicle, 1 order, 1 administrator, 1 customer's login, 3 sessions, 2 requests | implements `Rotation`; logins follow clients; tokens show a customer its own orders |

Every property of a passing run has a mutant: a small change of a definition,
such as a bug in that code would be, under which TLC finds it violated
(definitions marked "Mutant" stand before the one they change and are not used
otherwise).

### Bounds, and why they are enough

- Two requests are the smallest number that overlap; every race in the code is
  between a loaded copy and one later write, which two slots already show. A
  slot is reused, so histories are not limited to two requests: a removal that
  overlaps first a registration and then the two queries of a delivery, three
  requests in all, needs two slots and is reached (section 5). Notification
  has three: a delivery and two retries, which is how two retries of one
  failure race.
- Two orders and two mechanics: two orders that compete for one mechanic, and a
  second mechanic to take an order over. `service_order_serial` keeps two
  requests, about different orders, because an assignment depends on what the
  mechanic's other orders do meanwhile.
- Quantities 1, 2 against a column of 2: too little, exact, overflow.
- Three versions of a budget let a creation lose its version twice; the first
  may be edited twice, so that two copies of it differ.
- One order with two accepted versions: two dispatches of one order that choose
  different versions, and what a second one finds already taken. The lines ask
  for one unit and for a unit and a half, which takes two.
- Two clients, one plate and two of every other key: two rows that want the
  same key, and a client whose vehicle another one claims. `access` leaves the
  catalog of services empty; `registers` covers it.
- Three sessions: a login, its refresh, and the refresh of that, or a second
  login.
- `MaxVersion`, `MaxEdits`, `MaxNow`, `MaxStops`, `MaxAttempts`, `MaxTime` stop
  the counters. `MaxNow = 2` with `LinkLife = Day = 1` lets a link expire, be a
  day overdue and be renewed.
- The proofs do not depend on these bounds.

Where the bounds, or an id that is used up, leave nothing to happen, the
configuration does not check for deadlock. `notification` does: its clock
always ticks, so the check says only that no state breaks an action.

### Fairness

- `FairStockSpec`: strong fairness of each call's own steps. Node runs every
  pending promise, and PostgreSQL queues lock waiters, so nobody is passed over
  for ever.
- Billing's `FairSpec`: weak fairness of a started request's steps (they wait
  for nobody), and strong fairness of the webhook of a paid session: Stripe
  repeats it until it is answered with 2xx. Stops are bounded by `MaxStops`:
  a process that stopped for ever would settle nothing.
- `FairNotificationSpec`: weak fairness of `Send` and `PersistOutcome`. The
  mail server answers or nodemailer's connection times out, and the write that
  follows waits for nobody. A stop is always possible and needs no fairness:
  `EveryNotificationSettles` names the deliveries that were broken off.

The other runs check safety only.

## 4. The proofs

Every safety property and every refinement that a passing run checks is a
theorem for all values of the constants. In
each proof module an inductive invariant is established by the initial state
and preserved by every action (one lemma per action, or per part of the
invariant it disturbs); the properties and the refinement follow from it.

`ServiceOrderProofs`
: `Invariance` proves the inductive `IInv`. The rows' invariants alone are not
  inductive, because rows are written from copies: `IInv` adds that every copy
  in memory is as sound as a row (`SoundRow`) and that no instant lies after
  `now`. `MechanicExclusivity`, `RowConsistency`, `InstantsInOrder` follow.
  The `Serial...` theorems are about `SerialSpec`, in which requests overlap
  only if they are about different orders. There a held copy is the row it was
  read from (`SerialInv`), so that each write is one edge of the life cycle and
  none leaves a terminal status; that the mechanic is free at the write, though
  looked at earlier, is the partial index's doing and not the hypothesis's.
  `SerialAdvance` adds what the table of transitions amounts to: a status
  change raises the order's `Stage`, so there are at most eight of them. Without
  the hypothesis `TerminalOrdersStay` is false (`service_order_race`).

`StockLedgerProofs`
: `LedgerInvariance` proves `LedgerIInv`, from which `LedgerBalances` follows.
  A sum over the posted movements would need induction over data. So the ledger
  counts instead: a movement of n units stands for the n pairs of its key and
  1..n, and the sum is the number of pairs (`Total`). A posting adds its pairs
  to the others' (`PostKeepsLedgerIInv`) and the library's theorems on
  cardinalities do the rest; what has to be invariant besides is that the pairs
  can be counted. `MovementsArePermanent`: nothing posted is changed.

`StockMovementProofs`
: `StockInvariance` proves `StockIInv`: an open transaction still owns the key
  and the row it waited for, so the condition it tested is still true at commit.
  `LedgerRefinement` follows: only `Commit` and the part's own actions change
  the ledger. `BalancesAddUp` is `LedgerBalances` seen through the refinement.

`BudgetProofs`
: `BudgetInvariance` proves `IInv`: a copy whose stamp is still the row's is one
  change away from it (`OneChangeAway`), at most one request is on its way to
  request the parts of a version, and what is about to be written to the order
  is approved. `NegotiationRefinement` follows, and from it, by reasoning about
  the negotiation alone, `SentBudgetsStand` and `NoBudgetIsEmptied`: what the
  client was sent is what is answered, once, and it is not empty.

`BillingProofs`
: `BillingInvariance` proves `IInv`: a copy with the row's stamp *is* the row,
  a changed copy is one change away from it (`OneChangeAway`), a session that
  is not the billing's yet was seen by nobody and is in one request's hands
  (`Unseen`, `OneRequestOffers`), and a request that goes on to deliver left a
  paid billing behind. A paid row is never written again, because no change
  starts from it. `AccountRefinement` follows. `PaidForGood` says of the row
  itself that it stays PAID with its session, and `MoneyIsOnRecord` that neither
  a settled billing nor a delivered order goes without a payment on record that
  the gateway took; a return page alone settles nothing.

`SupplyProofs`
: `SupplyInvariance` proves `SupplyIInv`. `ReleasedOrdersHaveParts` is not
  inductive alone: `RequestOK` adds that each line of the version a dispatch
  works on was taken in full or is still among the lines it holds, and since
  the ledger never loses or changes a movement, this survives everybody else's
  steps. `DeliveredItemsAreReceived` needs that a copy about to be written over
  a purchase order is never DELIVERED but for the one write that starts a
  receipt. `RegisteredPurchasesHaveItems` (`AwaitedPurchasesHaveItems`) stands
  although copies are torn: only `RegisterPurchase` makes a copy
  AWAITING_DELIVERY and it looks at that copy's own items, while any other copy
  that is written has another status. `SupplyImplementsLedger`: a dispatch or a receipt changes the stock
  by one `Post` or not at all, which lifts what is known of the ledger to its
  users: `SuppliedBalancesAddUp` is `LedgerBalances` once more.
  `ReleasedLinesAreCovered` puts the rounding up (`RequiredIsTheCeiling`)
  together with `ReleasedOrdersHaveParts`: line by line an order leaves with
  enough, and with less than a unit too much. `PartsLeaveForBudgets` is the
  other direction: whatever was taken under the key of an order is a line of
  that version of its budget, which was accepted. It is inductive with
  `TakenInv`: the lines a dispatch still holds are lines of its budget.

`NotificationProofs`
: `NotificationInvariance` proves `NotificationIInv`: the request that delivers
  a notification is alone and holds the row as it is (`HoldsRow`), and a
  retry's copy is never newer than the row. The second part rests on `Touch`
  being strictly increasing whatever the clock does: were two writes to carry
  one `updatedAt`, two retries would both win. `MailGoesOutOnce`,
  `AttemptsAreNotLost`, `NoDeliveryIsForgotten`, `AnswersStayTrue` and
  `OutboxRefinement` follow.

`OfficeProofs`
: Of both modules over `Office`. `RegistersInvariance` proves `RegistersIInv`:
  the registers' own invariant (`OfficeIInv`, which the lemmas prove register by
  register for every action of `Office`) and `ChecksHold`: the vehicle of an
  order about to be inserted is its client's or is gone. That is why nobody has
  to ask for the owner again at the insert: the update never writes the owner
  and ids are not used twice. `RegistersRefinement` follows.

  `AccessInvariance` proves `AccessIInv`: the claims in a session or in a
  request are those of their login while it is there, and if it is gone so is
  its client (`ClaimsHold`). The argument is that logins never change and, like
  clients, are never given back once gone, so claims that hold go on holding;
  only the removal of a client needs a look at its logins. `ScopesAreTheLogins`
  follows because an order keeps its client from being removed.
  `RotationRefinement` maps each write of a session to one step of the rotation.
  An invariant of the rotation alone (`RotationInv`: one live pair per login,
  and none for an unknown login) then gives `OneSessionPerLogin` and
  `ClosedLoginsStayClosed`.

Assumptions: only the named ones on the constants (null is no identifier, row or
instant; bounds are natural numbers; quantities are positive; the keys of
movements are keys, and what is missing of a quantity is a quantity; the staff
is seeded with distinct emails). TLC evaluates each of them on the instance it
checks. Besides these, the theorems rest on what the models take for granted of
the surroundings: the locks and constraints of PostgreSQL, random ids that do
not repeat, and, for `ServiceOrderProofs` alone, one clock that does not turn
back. `service-order.entity.ts:235`, `:262` and `:267` take `new Date()` as it
comes, unlike `touch` of a budget or a notification, so `InstantsInOrder` (and
`ExecutionTimeIsNotNegative` in the run) says nothing of a clock that is set
back between two requests.

Model-checked only:

- `EveryCallEnds`, `PaymentIsSettled`, `EveryNotificationSettles`: liveness
  under fairness is out of this prover's reach.
- The three violations: they are counterexamples, not theorems.

## 5. What the runs found

1. **Terminal orders come back** (`service_order_race`). `update` compares
   nothing, so a request that loaded the order before it was cancelled or
   delivered restores a live status. `docs/wiki/colecao-postman.md:100` says
   both are terminal.
2. **A paid order is demoted** (`billing_demoted`). The cancellation neither
   reads the billing again nor compares the order it writes; the comment at
   `register-payment-cancellation.use-case.ts:24` promises otherwise.
3. **An order leaves short** (`supply_short`). The key of a movement is made of
   the budget and the part, and a budget may list a part twice: the second of
   two equal lines is taken for a replay of the first, and the order is released
   with the parts of one. The comment at
   `dispatch-parts-for-service-order.use-case.ts:94` promises otherwise.

Seen while modelling, without a run:

- Two generated budgets can both be sent and both wait for the client: only the
  creation looks for one that is waiting (`send-budget.use-case.ts:16` against
  the comment at `create-budget.use-case.ts:66`).
- A billing that is expired without a link, or less than a day after its link
  ran out, has no fine, cannot be renewed (`PAYMENT_LINK_NOT_EXPIRED`) and
  cannot be generated again (`billing.entity.ts:160` against
  `docs/wiki/linguagem-ubiqua.md:267`).
- A budget accepted just before a stop leaves its order in AWAITING_APPROVAL;
  a first budget generated while the order is RECEIVED leaves it where no later
  version moves it.
- A movement on a missing part fails the foreign key before
  `MOVEMENT_PART_NOT_FOUND` is reached.
- Two assignments of one order overlap and the second mechanic silently
  replaces the first.
- A purchase order may be DELIVERED with no items. One request removes the only
  item and has loaded the order; another registers the purchase; a delivery
  reads the row, AWAITING_DELIVERY; the removal writes its copy; the delivery
  reads the items, none, and writes. `findById` uses two queries, `update`
  compares nothing (`prisma-purchase-order.repository.ts:42-57`) and
  `markAsDelivered` (`purchase-order.entity.ts:107`) asks for no items.
- Stale copies also change the items of a purchase order after it was
  registered, and take one back from DELIVERED
  (`docs/wiki/linguagem-ubiqua.md:206` and
  `src/modules/purchase-order/README.md:15` say that neither happens).
- A receipt that is broken off is never resumed: the purchase order is already
  DELIVERED and a second delivery is refused. `DeliveredItemsAreReceived` leaves
  such receipts out, by name (`cutOff`).
- A notification whose delivery stops between the mail and the write of its
  outcome stays PENDING, which no retry takes. `PendingIsAttended` and
  `EveryNotificationSettles` leave such deliveries out, by name.
- A number of a purchase order is the count of the year's orders plus one, so a
  purchase order created by hand under a higher number makes a later shortage
  fail.
- An update of a client that loses the race for an email fails with the
  database's error: unlike `create`, `PrismaClientRepository.update` does not
  translate it.
- The fine (`Math.floor(cents * 0.02)`) is exact for every amount up to fifty
  thousand reais, but the interest is not: `penalty.vo.ts:45` multiplies by
  `0.01` and `days / 30` in binary floating point, so 150.00 overdue eleven days
  makes 54 cents instead of 55. Up to two hundred reais and sixty days it is
  either exact or one cent short.
- A logout that overlaps a refresh of the same token succeeds by revoking the
  session the refresh has just replaced; the new one stays open.

## 6. Plan

Not modelled, in the order in which they are planned:

1. The update of a part (code, name, price, minimum), which never touches a
   balance and shares its code's unique key with the creation.
2. `Workshop`: the whole order from reception to delivery over the abstract
   specifications, with the stops between modules; liveness of the flow, and
   where a stop makes it fail.

Left out for good: what a route admits by role, the validation of bodies, the
translation of errors to HTTP, the text of emails and pages, logging, and
listings and reports, which change nothing. `Penalty` and `Money` are left out
too: they compute in floating point, and a model in integers would show what the
code does not do.
