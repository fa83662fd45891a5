# micro-commerce: a verification project

TLA+ modules of the order saga, of the product service's transactions, of the user
sessions and of the shop in the browser, TLC instances that check them, and TLAPS
proofs of their safety invariants. Paths are relative to the
repository's root; `PROJECT.json` maps every definition to its lines.

## The system

| Component | State it keeps | Operations | Talks to |
| --- | --- | --- | --- |
| Event bus (RabbitMQ: exchange `ecommerce.events`, queues `order.queue`, `inventory.queue`, `user.queue`, `user.retry`, `user.dlq`) | messages until acknowledged | route, deliver, redeliver, expire | the three services |
| Order service (`services/order`) | orders and their status (PostgreSQL) | `POST /orders`, `PATCH /orders/:id`, consumer of `inventory.failed`, `payment.success`, `payment.failed` | product service (gRPC `GetProduct`), bus |
| Product service (`services/product`) | products and their quantity (PostgreSQL) | consumer of `order.created`, `inventory.release`; catalogue over HTTP and gRPC | bus |
| User service, wallets (`services/user`: `acc.service.ts`, `events/rabbitmq.ts`) | balance and transactions (MongoDB) | consumer of `order.created`, `payment.refund`, with retries and a dead-letter queue; top-up | bus |
| User service, sessions | accounts and their refresh-token hashes (MongoDB); the cookie in the browser | register, login, refresh, logout | frontend |
| API gateway (`services/api-gateway`) | rate-limit counters | proxying with a limit and a timeout | all services |
| Frontend (`frontend`) | in each tab the user, the access token and the cart; the cookie they share | sign-in, cart, checkout, refresh and second attempt; admin page | gateway |

An order's life: the order service asks the product service for each product's
stock, commits a `PENDING` order and publishes `order.created`. The product
service reserves all items in one transaction, *and at the same time* the user
service debits the wallet. Each publishes its verdict; the order service turns
`payment.success` into `CONFIRMED` and each failure into `CANCELLED` and a
compensation: `inventory.failed` into `payment.refund`, `payment.failed` into
`inventory.release`.

What makes this hard:

- the two services decide in parallel, so successes, failures and compensations
  of one order reach their consumers in any order;
- handlers are suspended at every `await`, no consumer limits its prefetch, and
  `pay` writes back a balance it read before an `await`;
- acknowledgements come last, so a crash redelivers a message whose effect is
  committed; publications come after commits, with no outbox;
- the order and product services reject a message whose handler failed (it is
  lost), the user service retries it three times and then sets it aside;
- administrators and top-ups interfere at any moment;
- requests of one browser overlap: the frontend refreshes on every 401, so several
  refreshes present the same token, and a token is exchanged in four database calls;
- a reservation locks its rows in the order of the request's items, so two orders
  may deadlock, and the victim is answered like any other failure;
- `request()` sends a body twice after a 401, without an idempotency key; the gateway
  gives up after fifteen seconds, the order service does not; tabs share a cookie
  and nothing else.

What makes each part correct:

- bus and consumers: every message is eventually dealt with, and no message
  circulates for ever;
- order service: an announced order is decided; its status is explained by an
  event; one compensation for each order;
- product service: stock is never negative; what is held at rest belongs to a
  paid order; a transaction, row by row, takes all of an order's items or none, and
  deadlocks have one cause, which a sort would remove;
- order lines: one line for each product of a body, no unit lost;
- storefront: a click makes at most one order, for the account and the bag that were
  shown, and what the page says of it is true; every call ends in a notice;
- wallets: never negative; an order is charged once; a requested refund is made
  or is a dead letter; the balance is a ledger of atomic entries;
- sessions: a stored refresh token is exchanged at most once, refreshing does not
  multiply sessions, and a browser is left with a token that is honoured;
- registration: one account and one wallet for an email.

## The modules

`EventBus` <- `OrderItems` <- `OrderService`, `InventoryService`;
`EventBus` <- `WalletService`; the three are composed in `Saga`, whose promises
are in `SagaProperties`, the documents' refuted ones in `SagaClaims`, the inductive
invariants behind the promises in `SagaInvariants`, the instances in `MCSaga`, and the proofs in
`BusProofs` <- `SagaProofs` <- `DeliveryProofs` <- `PaymentProofs` <- `SettlementProofs`.
`Account` is the abstract specification of the wallets.

`InventoryService` <- `RowLocks`, with `RowLockProperties`, `MCRowLocks` and
`RowLockProofs`: the same consumer in more detail, with the steps of `InventoryService`
as its abstract specification.

`OrderLines` <- `Storefront`, with `StorefrontProperties`, `MCStorefront` and
`StorefrontProofs`. `Sessions`, with `SessionProperties`, `MCSessions` and
`SessionProofs`, stands alone. The three parts meet at what they share: a job that ends
in `Create` and `Created` here is a `request[o]` there, a `Refresh` here a refresh in
`Sessions`; the one sees the session only as the account of the cookie, the other sees the
browser only as a cookie.

**EventBus** is external code, modelled from how the services use it. `queued`
holds a message until it is acknowledged, rejected or replaced; `work` is the set
of handlers in progress, each a *task* `[msg, at, seen]`: the message, the
`await` it is suspended at, and the balance it read. A crash of a consumer empties its
tasks and leaves its messages, which is redelivery. Messages are taken in any
order: there is no prefetch limit, and retries reorder anyway. Unlike RabbitMQ,
`RetryExpires` may return a message at any time after it was rescheduled: the
five seconds are not modelled. `tag` distinguishes two publications of the same
event for the same order.

**OrderService.** `request[o]` is how far `POST /orders` has got, `checked[o]`
the products whose stock was found sufficient, `status[o]` the row. Handlers of
one `await` are one action up to the ack; those with a publication after their
`await` are `CancelOrder`, `PublishCompensation`, `AckOrderEvent`. In
`ConfirmOrder` the update is followed by the ack. `"stranded"` marks an order
stored and never announced.

**InventoryService.** A transaction is one step over all items: every row is locked
before it is read, and PostgreSQL commits all or nothing. `held[o]` counts
reservations minus releases; it is a history variable, which the database does not
have.

**RowLocks.** `running` holds the transactions, each with its message, the number of rows
`done` (locked and saved, in the order `Lines[o]`) and what they will hold. A `SELECT ... FOR UPDATE`
is not enabled while another transaction has the row; nothing else makes it wait.
The read and the save of a row are one step, as nobody sees the save before the commit. `Deadlock(S)` is
a set of transactions which wait for each other; PostgreSQL ends one (`AbortVictim`), and
`ReportError` is what the code makes of it: `inventory.failed` for a reservation, a
rejected message for a release, whose stock then stays taken. `LoseConnection` is a failure of any call, during the
commit before or after it took effect; `Crash` ends all transactions. `Request` is the order service, reduced
to what the consumer sees of it.

**OrderLines.** `Acceptable` is the schema of `POST /orders`, `Requested` the `Map` that
`createOrder` builds item by item (`Count`), and `Merge` the lines it turns it into; a `Map` is a
sequence of entries in insertion order, which is the order in which the rows are locked later.

**Storefront.** `user`, `token` and `bag` belong to a tab, `cookie` to the browser.
`calls[c]` is one click of `SignIn` or `Checkout` and what became of it: `page` is where the
tab waits for it (`sent`, `denied` by a 401, `refreshing`) or what it was told (`done`, `refused`,
`failed`, or `gone` with the page), `job` where the order service is with it.
They part when the page stops waiting (`GivenUp`: the gateway's 502 or a lost
connection; `Reload`), and a body may still arrive (`Arrives`) after that. A refusal is
an answer given before anything was stored (401, 422, 429, 503), a failure any other
error. The access token's account and age decide `Valid`; a refresh takes
the cookie of the moment it is sent (`via`). `CutOff` is an answer whose header sets the cookie and whose
body is lost. The catalogue is fixed: `Shelf` is what the page was told, which may be wrong by
the time the order service looks (`Unavailable` is always possible). `mixed` is a history variable:
another account was signed in while one was in use.

**WalletService.** Money is in cents. `ReadWallet` and `SaveWallet` are the two
sides of `pay`'s `await`: the save writes `seen - Total[o]`, as Mongoose's `$set`
does (its `$push` of the transaction adds no version to the filter). `Refund`
and `TopUp` are single `$inc` updates. `charged[o]` and `refunded[o]` count the
transactions of the order by status. `Refundable` is `parseInt`. `Reschedule` is
the consumer's catch block.

**Saga** adds what the environment does: `Administrator`, `Customer` (top-ups),
`Crash` (one service loses its tasks and its requests in flight) and
`DatabaseError` (a call fails in any of the handlers, before or after it took
effect). Their numbers are bounded by `MaxTopUps`, `MaxCrashes`, `MaxErrors`.
Nothing else bounds the model: each order is placed once, and a message is
retried at most three times by the code itself.

**Sessions.** `request[r]` is a request and the database call it is suspended at; a slot `r`
of `Requests` is reused when its request is answered. `CheckToken`, `IssueNext`,
`Exchange`, `AddToken` are `hasRefreshToken`, `issueTokens` after `userDetails`, and the two
updates of `replaceRefreshToken`. A token is `[user, iat]`: the code signs subject, role and
the time in seconds, so tokens of one user and one second are equal, and
`granted` and `exchanged` count how often each was stored and pulled by a refresh.
`Answer` sets or clears the cookie. `Lose` ends a request at any point: with the steps before it, it
is a database call that fails before or after its effect, or a lost answer.
Passwords are right: a wrong one changes nothing. `MaxTime`, `MaxSends` and `MaxFaults`
bound the clock, the requests sent and the faults; at its last second the clock stands still, as
it may for any number of steps.

## The runs

| Run | Instance | Shows |
| --- | --- | --- |
| `contention` | 2 orders, 1 piece in stock, balance 3.00 against totals 1.50 and 2.00, no failures (820 183 states) | `StockNonNegative`, `BalanceNonNegative`, `OneVerdict`, `OneCompensation`, `ChargedForGoods`, `HeldForMoney`, `RefusedIsCompensated`; `Settling`, the invariant that proves the last three |
| `crashes` | 1 order, 1 crash anywhere, 1 top-up (26 032 states) | `StatusExplained`, `RefundNotForgotten`, `ChargedOnce`, `LeavesPending`, `AnnouncedFirst` |
| `retries` | 1 order, 3 failures of MongoDB (5 107 states) | `LeavesPending`, `Drains` |
| `errors` | 1 order, 2 failures in any database, an administrator (191 186 states) | `TypeOK`, `SafetyInv`, `ChargedOnce`, `RefundNotForgotten`, `LedgerSpec` (refinement of `Account`); `Deliveries`, `PaymentsOK`, `AnsweredOnce`, the invariants behind them |
| `late_success` | 2 orders, no failures | refutes `ConfirmsPendingOnly` (EVENTS.md:10) |
| `phantom_release` | 2 orders, no failures | refutes `ReleasesReservedOnly` (EVENTS.md:12) |
| `double_refund` | 2 orders of 2 customers, 1 crash, no failures | refutes `RefundsWithinDebits` (EVENTS.md:13) |
| `sessions` | 1 user, 2 browsers, 5 requests, 3 at a time, times 0 to 2, tokens that live for 2, 1 fault (1 677 444 states up to symmetry) | `TypeOK`, `ExchangedOnce`, `SessionsNotMultiplied`, `WalletCreatedOnce`, `AccountsHaveWallets`, `CookieHonoured` |
| `rotation` | 1 browser, no faults | refutes `Rotates` (README.md:3) |
| `row_locks` | 2 orders for the same 2 products in opposite orders, enough of the second for one of them, 1 release, 2 faults (197 867 states) | `RowsCurrent`, `DeadlockNeedsDisorder`, `RepeatedByCrashOnly`, `AtomicSpec` (refinement of `InventoryService`), `Answered` |
| `storefront` | 2 tabs, 2 accounts, a cookie left by one of them, 2 products of which one is sold out, 2 clicks, 1 fault, access tokens that live for one tick of two (218 268 states) | `TypeOK`, `OneOrderPerClick`, `ToldTheTruth`, `OwnAccount`, `MergeAddsUp`, `Answered` |
| `lost_top_up` | 1 order, 1 top-up | refutes `BalanceIsLedger` (WalletPage.tsx:66) |

Bounds. With two orders, one piece and a wallet that covers either order but not both, the
combinations that matter occur: both accepted by one service and one rejected
by the other, both services refusing the same order, a debit overlapping the
other order's debit or refund. One order suffices for the runs with failures:
their properties relate an order to its own messages, and orders meet only in stock
and balance, which `contention` covers and the proofs cover for any number. Three failures
of MongoDB reach the fourth attempt, and together with a refund of a declined
payment, which fails each time by itself, the dead-letter queue. In `errors` an inventory failure asks for
a refund, which the other failure may hit before its read, before its update or after it. In
`crashes` nothing else fails, so a refund is asked for only once the crash is spent (a repeated reservation
finds nothing left); a crash in the middle of a refund is in `double_refund`, and covered by the theorems
`ChargedOnceHolds` and `RefundNotForgottenHolds`. For sessions, five requests are a
registration, a login from the other browser, and three refreshes or logouts that overlap; sessions of
different users have nothing in common. Three seconds let a token be exchanged
for itself, for another, and expire. The symmetry of requests and browsers is sound, as the
run checks invariants only, each the same for all of them.

For row locks, two orders that lock two products in opposite orders deadlock with two
transactions; longer cycles are covered by the proof, which is for sets of any size.
Two faults let a transaction be repeated by a crash and lose its commit's answer. For the
storefront, two clicks are enough for a sign-in that overtakes a checkout or its
refresh, for a double click, and for a click after a refusal or a failure; what more of them would do is covered by
the proofs. `MaxQuantity` is below the shelf, so the schema refuses some bags (422); a token
that lives for one tick is refused by `verifyUser` after the next. `CallsLeft` ends changes to
the bag with the last click. `MergeAddsUp` takes every body of up to 3 lines, one more than the schema admits, and
quantities of up to 2.

Deadlock checking is off: the saga comes to rest when all orders are settled, the row locks when
every request is answered, and sessions and storefront at the bound on requests.
That they do not stop *earlier* is what `LeavesPending`, `Drains` and the two `Answered` say.

Fairness is weak fairness of each service's steps and of the expiry of
retries: a service that is running, or is restarted after a crash, goes on
consuming its queue, and a message in `user.retry` outlives its TTL. Customers,
administrators, new orders, crashes and failures are never obliged to happen. In `RowLocks` it is
weak fairness of the consumer's steps together, the resolution of a deadlock
among them: PostgreSQL looks for one after a second. In `Storefront` it is that of
the answers together: a server answers or refuses, and no service
holds a call for ever, as the gateway's timeout bounds the wait.

What holds only under conditions, and is checked only under them:

- `OneVerdict`: no process dies, whatever databases fail. A crash after a debit or a reservation makes a
  second verdict: the redelivered `order.created` is answered "Already paid", or finds the stock gone.
- `OneCompensation`: no process dies and administrators do no more than cancel. An order's
  two refusals are then compensated once. A crash can let a payment be reported both made and
  failed, and an administrator can set a cancelled order back, to be cancelled again.
- `RefusedIsCompensated`: no process dies, the order service's database answers, and no
  administrator interferes; the other databases may fail. A crash between a cancellation's commit and its
  compensation loses the compensation, as the redelivered event is rejected.
- `ChargedForGoods`, `HeldForMoney`: no crashes, failures or administrators. After a crash
  between a debit and its ack the second verdict cancels the order, only its stock is released, and
  it stays charged. A failure of the product service's database loses a release, and an order that an administrator has cancelled
  is not compensated when a service refuses it afterwards.
- `ChargedOnce`, `RefundNotForgotten`: crashes or failures of MongoDB, but not both; other
  databases may fail. A failure of MongoDB followed by a crash before the ack duplicates
  `order.created`, and two debits may then overlap.
- `OwnAccount`: unless `mixed`. A tab that shows one account and refreshes with the
  cookie of another orders for the other.
- `ToldTheTruth` says nothing of a failure: a 502 or 500 may hide an order, and a customer
  who clicks again then has two.
- `LeavesPending`: as long as the order service's database answers, and MongoDB fails fewer than four
  times on `order.created`. A verdict whose update fails is rejected without requeue, and the fourth
  failure of MongoDB makes a dead letter of `order.created`; either may leave the order `PENDING`. Nor
  may an administrator set it back.
- `LedgerSpec`: one order for each account and no top-up, so that no two updates of the wallet
  overlap, totals without cents, as `parseInt` drops them, and no crash; databases may fail.
  `lost_top_up` shows what an overlap does, and `double_refund` what *one* crash does: it comes after the
  copy of `payment.refund` to the retry queue and before the ack of the original, both copies pass
  `handleInventoryFail`'s `findOne` before either update, and both are refunded. All it takes is another customer's order
  for the last piece and a refund that overtakes its debit.
- `AccountsHaveWallets`, `CookieHonoured`: without faults. `CookieHonoured` excepts tokens
  granted twice, which another browser of the user may pull.

## The proofs

`SagaProofs` proves for every set of orders, products, users and statuses, every stock,
balance and total, and any number of crashes, failures and top-ups:

- `SafetyInvariant`: `Spec => []SafetyInv`;
- `TypeCorrect`, `CausalityHolds`, `StockHolds`, `BalanceHolds`: its parts;
- `StatusHolds`: `StatusExplained` when no administrator sets a status;
- `AnnouncedFirstHolds`: `Spec => []AnnouncedFirst`, inductive relative to `SafetyInv`: where no event of
  an order was sent, no message and no handler is about it (`WorkElsewhere`), so no service can touch it.

The assumptions are those on the constants (`ItemsAssumption`, `OrderAssumption`,
`InventoryAssumption`, `WalletAssumption`, `SagaAssumption`), which TLC evaluates in
each of the saga's runs; quantities, totals, balances and top-ups are natural numbers, which
the validators of orders and top-ups ensure.

The properties are not inductive: `BalanceNonNegative` says nothing of a handler that
holds a balance it read long ago, and `Causality` nothing of a message not
yet handled. `HandlersOK` says what every message and every task knows: the event was
sent; a task that is about to save read a balance that covers its order; one that is about to report
a success has the debit on the books; one that compensates was triggered by a
failure; one that refunds was asked to. It holds over stale reads because it relates a task to what it
*read*, and because debits are never removed, only turned into refunds.
The lemmas `PublishEffect` to `RemovalEffect` say what the bus operations do; `HandlersKept`,
`BooksKept` and `PublicationKept` carry over what a step leaves alone; then one lemma for
each service (`OrderPreserves`, `InventoryPreserves`, `WalletPreserves`) has a step for each action.

`BusProofs` holds the lemmas about the broker which both consumers' proofs use.

Three more modules prove the promises that hold only under conditions. Each builds on the
invariants of the one before. But for `UpToDate`, which is defined with its proof, they are in
`SagaInvariants`, and `contention` and `errors` check them:

| Invariant | Says | Assumes | Gives |
| --- | --- | --- | --- |
| `Deliveries` (`DeliveryProofs`) | the broker keeps a message while a handler is at work on it, and there is one such handler | nothing | |
| `AnsweredOnce` (`DeliveryProofs`) | of a message's copies at most one is yet to be dealt with, and none once an answer was sent | no process dies | `OneVerdict` |
| `PaymentsOK` (`PaymentProofs`) | no two debits of an order are under way, so what `findPayment` found still holds at the save; a requested refund is made or on its way | either no process dies or MongoDB does not fail | `ChargedOnce`, `RefundNotForgotten` |
| `UpToDate` (`PaymentProofs`) | what a handler has read is the account's present state | no process dies, no two updates of a wallet overlap, whole totals | `LedgerSpec`: each step is an entry of `Account` or a stutter |
| `CompensationsOK` (`SettlementProofs`) | a compensated order stays cancelled unless it was paid, and has one compensation, or one handler about to send it | no process dies, administrators only cancel | `OneCompensation` |
| `FailuresHeeded` (`SettlementProofs`) | a failure that was sent is compensated or on its way to the order service | no process dies, its database answers, no administrator | `RefusedIsCompensated` |
| `Settling` (`SettlementProofs`) | at each step the order's status, what is reserved and charged, and its messages agree | nothing fails, no administrator | `ChargedForGoods`, `HeldForMoney` |

The key to them is `BusStep`: every step of the saga but a crash does one of nine things to messages and
tasks (take one up, move to the next `await`, reply, acknowledge, give up, put off, ...), so what is about
messages alone is proved for these instead of each action. `CreatedOnce` is what replaces
`AnsweredOnce` where processes do die: while MongoDB answers, `order.created` is sent once
and never forwarded, so a crash redelivers it but does not multiply it.
That `OneCompensation` holds for two refusals depends on an order of steps which `StaysCancelled` records: the handler
that sets the status is the one that compensates, and whoever comes later finds the order cancelled.

`RowLockProofs` proves, for any orders, products and lines without repetitions, any number of
faults, assuming `ItemsAssumption`, `InventoryAssumption` and `LinesAssumption`:

- `RowsCurrentHolds`: `Spec => []RowsCurrent`, which is inductive: what a transaction is about to write
  is what its rows hold now, changed by its order, and no two have a row in common. A commit
  of one leaves the other's rows as they are; that is what the lock is for.
- `AtomicHolds`: `Spec => AtomicSpec`. Rows are saved without a trace outside, so
  `SaveRow` stutters; a commit writes exactly `InventoryService`'s new stock, as by
  `RowsCurrent` it is computed from the current one; a short row means that the atomic
  step would reject; a victim, a lost connection and a crash are its failures.
- `RepeatedByCrashOnlyHolds`: stock is taken for an order, and returned, once, and once more for
  each crash. `Repeated` adds that while the event is yet to be handled (`Open`), the next time is still to
  come; it is a crash that opens again what a commit has closed.
- `DeadlockNeedsDisorderHolds`: with a ranking along which all the orders of a
  deadlock ascend, take the transaction that waits for the row of the lowest rank.
  Another one waits for a row that it has locked, which comes before: a contradiction.

`StorefrontProofs` proves, for any tabs, accounts, products, lifetimes, clicks and faults,
`StorefrontInvariant`, and from it `OneOrderPerClickHolds`, `ToldTheTruthHolds`,
`OwnAccountHolds`, `TypesHold` and `MergeAddsUpHolds`, assuming `SchemaAssumption` and `StorefrontAssumption`. The invariant adds
to the properties how far page and job may be apart (`StagesKept`: a call
that was turned away has no job, and one that was refused none that could still store a row), that
rows and the jobs that came that far explain each other (`RowsExplained`, `JobsRecorded`), and
`OneAccount`: as long as nothing is mixed, the tabs that show somebody, their tokens, the checkouts
that wait and the cookie are all of one account. It is this last part that `OwnAccount` needs: an
order depends on the token of a call not yet accepted, and that on a cookie not yet sent.
`Contents` adds what bags and bodies consist of, for `TypesHold`.

`MergeCorrect` proves that the lines of *any* list of items add up, by induction over the loop:
`CountKeeps` is one turn of it, `FirstAdds` and `UnitsAdd` say what one more item does to the first places and
to the number of units. The provers cannot instantiate an induction theorem whose parameter is a
formula; `Induction` is stated for a set of numbers instead and follows from the well-foundedness of `<`.
`RequestedStep` uses it to show that the recursive function `Requested` is defined by its equation.

`SessionProofs` proves, for any users, browsers, requests, bounds and faults,
`SessionInvariant`, and from it `ExchangedOnceHolds` and `WalletCreatedOnceHolds`, assuming
`SessionAssumption`. `ExchangedOnce` is inductive with the types because it counts a token in the store as a
grant yet to be exchanged: of several refreshes past `hasRefreshToken`, the first to pull the token
uses it up. `WalletCreatedOnce` needs that wallets belong to accounts. Further:

- `SessionTypesHold`: what a request has at each await, such as the token it is about to store;
- `AccountsHaveWalletsHold`, without faults: an account without a wallet is one whose registration is under way
  (`WalletsFollow`);
- `SessionsNotMultipliedHolds`, with cardinalities of the library's `FiniteSetTheorems`: a refresh that
  pulls a token takes its place in the count until it has stored the next. It needs that all the tokens of a
  request are its user's (`OwnTokens`);
- `CookieHonouredHolds`, without faults: `Traced` follows a browser's token from the store through its answer into the
  cookie. A token that was granted twice is excepted, as another browser may pull it.

Only model-checked: liveness (`LeavesPending`, `Drains`, `Answered` twice), which TLAPS cannot
prove, and the refutations, which are single behaviours.

## Not modelled

- The generated Prisma client (`services/order/src/generated`): 4 500 of the 7 400 lines
  of code in the repository, types and delegates for the two tables. What the
  services use of it is modelled as PostgreSQL: single statements, and one transaction.
- Reads (order lists, wallet details, user lookups over gRPC, the pages that show them)
  change nothing. `create` over gRPC is the registration of `Sessions` with an answer that sets no cookie.
- The product catalogue: `createProduct` is one insert of a row that no order can
  name yet, `listProducts` a page of a query. Nothing in the saga depends on them.
- The admin page: its `PATCH` is `AdminUpdate`, which may come at any time with any
  status; which of two overlapping answers its list shows in the end is not modelled.
- JSON, HTTP, passwords, signatures, routing, validation beyond what it says of numbers
  and lines, logging.
- The gateway's counting of requests and its CORS headers (`PATCH` is not among the
  allowed methods, which a page of another origin would meet): a 429 may come at any time.
- The refresh token in `Storefront`: what the cookie holds beyond its account, and how it is
  exchanged, is in `Sessions`; a refresh may fail at any time.
- A lost connection to RabbitMQ: no service reconnects, so it amounts to a crash
  followed by a restart. Publications are persistent and unconfirmed; the broker is
  assumed not to lose them. The pool of database connections is assumed to be large enough.
- More than one replica of a service: a replica is a further interleaving of
  handlers, which the model has already, except that only its own tasks die with it.
- Deployment files.

That a successful checkout also empties the bag of what was added meanwhile
(`Created`) is in the model; nothing says that it should not, so no property does.

## Plan

1. Proofs: `Settling` while MongoDB fails, where `DeadRefund` already names what is then left over; what
   remains of `LedgerSpec` after a crash, an account whose refunds are as many as the copies of `payment.refund`.
2. The liveness properties: the safety part of each, that no state with work to do is without an enabled
   step, as an invariant which can be proved.
3. The admin page's list under overlapping `PATCH`es, as a module of its own.
