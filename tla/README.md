# Verification of the clothing-commerce backend

A TLA+ development of the parts of this backend in which money, stock and orders
can go wrong: the modules model the code under `src/src`, TLC checks them on small
instances, and TLAPS proves what matters most for every instance. The backend is a
modular monolith (Node, Express, Sequelize, PostgreSQL at READ COMMITTED). A request
runs in one process, yields at every `await`, and shares nothing with other requests
but the database, so the unit of interleaving is the database statement, and the
locks are row locks (`SELECT ... FOR UPDATE`, or those of an update).

## The system

| Component | State | Operations | Works with |
|---|---|---|---|
| Inventory (`modules/inventory`) | one row per variant (physical, reserved, sold, returned, damaged), append-only movements | initializeForVariant, reserve, release, commit, restock, receivePurchase, reportDamage, adjust | called by checkout, orders, products, staff |
| Orders (`modules/orders`) | orders, items, status history | createFromCheckout, transition | inventory (commit, release, restock), customers (statistics), wallet (refund), referrals |
| Payments (`modules/payments`) | payments, refunds, the order's payment status | initiate, handleWebhook, refund | the gateway; confirms orders through orders |
| Checkout (`modules/checkout`) | none of its own | checkout | cart, promotions, wallet, inventory, orders, in one transaction |
| Idempotency guard (`utils/idempotency.js`) | one row per key and scope | withIdempotency; pruned by a daily job | wraps checkout |
| Cart | one active cart per customer or session, lines | add, update, remove, clear, merge; expiry | reads inventory; merged by login, converted by checkout |
| Wallet (`modules/loyalty`) | append-only ledger with expiry dates | getBalance, credit, debit | checkout, orders, referrals, ugc |
| Promotions | promotions, rules, coupons, redemptions | evaluate, redeemCoupon, CRUD; expiry job | checkout, orders |
| Customers | profile, addresses with two default flags, marketing preferences, order count and spend | addresses, setMarketingPreferences, applyOrderStats | orders, notifications |
| Referrals, UGC | events and rewards | stages, validateAndReward, verifyAndReward | wallet, orders |
| Reviews | reviews with a status and votes | create, edit, moderate, vote, remove | orders (a delivered item) |
| Expenses, finance | categories, expenses, periods | post, change, delete; create and close a period; profit and loss | orders, payments (read) |
| Auth | counter and lock of users, refresh and reset tokens | register, login, refresh, logout, reset | users, cart (merge) |
| Users, RBAC | status and roles of users | create, status, roles, remove; authenticate, authorize | auth |
| Notifications, job runner | messages with a status; timers | send, event bus, retry; reminders, alerts, expiry, pruning | customers, channels, promotions, guard |
| Envelope encryption, re-encryption worker | key versions, a cache in each process | ensureInitialized, encrypt, decrypt, rotateKey, reencryptColumn | users |
| Catalog, wishlist | categories, products, variants, deleted softly; wishlist items | CRUD, add, remove | inventory (a variant's first stock) |
| Marketing, analytics, audit, HTTP layer | rows | CRUD, reports | |

What is hard: stock of a transition moves on *other* connections than the order's
(`order.service.js:144-159`), line after line; a request that holds a connection and
needs another one can wait on everybody else (`config/index.js:74`); webhooks are
repeated, late and reordered; the gateway acts before the row that records it;
checks are made before locks and again (or not) after; an idempotency key outlives,
or does not outlive, its request. Outside of money and orders nearly every handler reads a
row, awaits, and writes what follows from the copy; Sequelize writes the columns that
differ from that copy only. Deletion is soft, so foreign keys do not protect what is
deleted; every process caches keys on its own. `PROJECT.json` lists these hazards at their lines
with the properties that cover each of them.

What makes each part correct, in a sentence. *Inventory*: every movement is applied
once to the row committed last, and nothing but a correction oversells. *Orders*: one
edge of the table at a time, with all of its side effects, once. *Payments*: money
collected is never forgotten or paid back twice, and the order says so. *Checkout*:
all or nothing, within stock, coupon and credit. *Guard*: one key, one order. *Cart*:
no line is lost between two tabs or in a conversion. *Wallet*: the balance is the sum
of unexpired credit minus debits, never overdrawn. *Rewards*: at most one each, paid
when recorded. *Promotions*: never beyond a limit. *Addresses*: somebody with addresses has
both defaults. *Catalog*: a used category stays. *Finance*: nothing enters a closed period,
and days add up. *Reviews*: nothing is published that was not seen. *Sessions*: what ended
stays ended, the counter counts. *Users*: somebody can administer. *Notifications*: once, and
only to those who want it. *Keys*: no ciphertext is stranded.

## The modules

| Module | Models | Kind |
|---|---|---|
| `StockRow` | row, ledger, guards and assignments of the eight inventory operations | operators |
| `Inventory` | the inventory operations as atomic steps | abstract specification |
| `InventoryTx` | the same operations as transactions: read (locked or not), check, save, commit, abort | detailed specification |
| `OrderTransitions` | the transition table (`order.transitions.js`) | operators |
| `OrderLifecycle` | status and history of orders, one edge per step | abstract specification |
| `OrderFulfilment` | `order.service.transition` with all of its calls, the pool and failures | detailed specification |
| `Payments` | payments, refunds, webhooks, the gateway, one order | specification |
| `OrderPlacement` | placing an order in one step | abstract specification |
| `Checkout` | `withIdempotency` around the checkout transaction | detailed specification |
| `Rewards` | the wallet ledger of one customer, referral and post (UGC) rewards paid into it | specification |
| `Cart` | `cart.service`, with the merge at login and the conversion by checkout | specification |
| `Promotions` | evaluation, redemption and expiry of offers and coupons | specification |
| `Catalog` | categories, products, variants, wishlist | specification |
| `Addresses` | a customer's addresses and their default flags | specification |
| `Sessions` | accounts, refresh and reset tokens | specification |
| `UserAdmin` | status, roles and removal of users, behind authentication and authorisation | specification |
| `Finance` | expenses, periods, the profit and loss report | specification |
| `Reviews` | reviews and their moderation | specification |
| `Notifications` | messages, preferences, retries, the jobs that send | specification |
| `KeyRotation` | versioned data keys in several processes, the re-encryption worker | specification |
| `InventoryTx_proofs` (with `StockRow`), `OrderFulfilment_proofs`, `Payments_proofs`, `Checkout_proofs`, `Rewards_proofs` | theorems about the module each is named after | proofs |
| `Storefront_proofs` | theorems about `Cart`, `Promotions`, `Catalog`, `Addresses` and their composition | proofs |
| `Backoffice_proofs` | theorems about `Sessions`, `UserAdmin`, `Finance`, `Reviews`, `Notifications`, their composition, and `KeyRotation` | proofs |
| `SumLemmas` | sums over finite sets (the community module's `MapThenSumSet`), for the three modules that add up rows | proofs |
| `MCInventoryTx`, `MCOrderFulfilment`, `MCPayments`, `MCCheckout`, `MCRewards`, `MCKeyRotation` | constants for TLC | |
| `MCProgress`, `MCStorefront`, `MCBackoffice` | several components in one instance | |

`InventoryTx` and `OrderFulfilment` both use `StockRow`: `InventoryTx` shows that a
locked handler is one atomic step, so `OrderFulfilment`, where several handlers run one
after the other, takes each of them as a step. `Checkout` does the same with
inventory.reserve, and `Payments` with order.service.transition, whose lifecycle
`OrderFulfilment` shows to be atomic. `PROJECT.json` ("map") names the lines that each
definition stands for. Definitions marked "Slip" are the mistakes with which the
properties were tested; no specification uses them.

**InventoryTx.** `row` and `ledger` are the committed row and the sums of its committed
movements; `lock` is the row lock, `tx[w]` the request w between two statements: the
operation, its quantity, and the instance (`copy`) it read. `ReadForUpdate`,
`ReadMissing` and `ReadUnlocked` are `ensureRow`, `findByVariantForUpdate` and the plain
read of `initializeForVariant`; `Save` writes the columns the handler assigned, not the
whole row, as Sequelize does; `Create` inserts under the unique key; `Abort` is every
error, crash or rollback of a caller. `raced` is history: an unlocked save overwrote a
physical count that had changed since it was read.

**OrderFulfilment.** `status`, `history`, `restored` (wallet credits per order) are the
order's tables; `stock` and `moved` are inventory rows and the movements per order and
line; `orderCount` is the denormalised statistic; `proc[w]` a transition in progress:
lock the order (`LockOrder`), move each line with its own connection and commit
(`MoveLine`, `RefuseLine`), read and write the statistics (`ReadStats`, `WriteStats`),
commit (`CommitTransition`). `crossed` is history: customers whose count was written while another
request, of another of their orders, had read it and not yet written. `Open` takes a connection from the pool, `ConnectionFree`
is what the second connection needs, `AcquireTimeout` the error of the pool after 30 s,
swallowed for the statistics and fatal for a line: it comes when the modelled requests
hold the whole pool, or (`Fault`) when other traffic of the process holds the rest of it. `CorrectStock` is staff's adjust,
which can make later commits fail. `PlaceOrder` is a successful checkout.

**Payments.** One order with its `paymentStatus`, its payments with their processed
events, `refunds` (sum of the refund rows), and the `gateway`: what it knows, has paid
back and which events nobody answered with 200. The three handlers are split where they
commit or call out: `InitiateAtGateway`/`InitiateRow`, `RefundAtGateway`/`RefundRow`,
and the webhook into its early returns (`WebhookIgnored`, `WebhookReplayed`,
`WebhookRecorded`), its transaction (`WebhookCaptured`, `WebhookOther`) and the
confirmation after it (`Confirm`), which may fail and is then swallowed.

**Checkout.** `keys` are the rows of the guard (a new row under a key has a new number,
as it has a new id, because a request keeps the instance it inserted), `proc[w]` is a
request with the row locks it holds. `ReadCart`, `LockWallet`, `Reserve` (one line at a
time, in the order of variants), `Redeem`, `Debit` and `Commit` are the statements of
the transaction that lock something or are checked again; what they write becomes
visible at `Commit`, so `tables` change there only, and the guards of `Reserve`, `Redeem`
and `Debit` read the rows they locked. `Fail` is every way the transaction is rolled
back. `bypassed` is history: keys whose guard was taken over after two minutes, pruned,
or deleted after its order was placed.

**Rewards.** `ledger` is the wallet's rows, each with what it refers to and whether it has
expired; `opened` says that the wallet's row is committed. Every request that pays or
spends goes through the wallet (`FindWallet`, `CreateWallet`: the lock, or the insert of the
first one, which a racing insert waits for and then fails on, `CreateRefused`) and commits
everything it wrote in one step. What comes before is per service: `BeginValidate` checks
`events`, `issued` and `windowOver` outside the transaction; `BeginReview` reads the post
outside of it, `Approve` and `Reject` update the columns that changed against that copy
under the row's lock, and the unique key of the reward decides in `RewardPost`. The
swallowed errors of the payment are rollbacks (`Fail`): PostgreSQL commits nothing of a
transaction in which a statement failed. `MoveOrder` is the transition of one of the
referee's orders with its notification, `MoveHalf` one of the two without the other;
statuses before delivery are one status. `rivals` is history: the validations of a referral
that were past their check when it was rewarded for the first time.

**Cart.** `cart`, `items` and `orders` are the tables; `tab[t]` is a request between what it
read (the cart it found, the quantity of a line) and the transaction's commit. Handlers take
no row locks, so `Commit` writes the quantity computed from the copy. `asked` is history: the
lines that the requests add up to one after the other; `mixed` the carts written by a
request that another one had overtaken: an addition to a line that was written in between,
or a request on a cart that was merged or converted. Additions of different variants are not
such an overlap, and neither is a cart of which two were opened at once: the unique key
refuses the second. `orders[k]` counts the orders of a cart, with the lines of the last one and
the checkouts that held the cart when it was ordered first (`rivals`).

**Promotions.** `till[t]` is a checkout between pricing (`PriceCheckout`: `evaluate` with its
rules and the choice among stackable and other offers, `Applied`) and its commit
(`PlaceOrder`: the coupon is locked and its limits compared again). `ExpirePromotion` and
`ExpireCoupons` are the statements of the hourly job, which may die between them.

**Catalog, Addresses.** `editor[e]` and `caller[c]` are requests between reading and
writing; the removal of a category counts children and products in separate statements.
`blind` and `waived` are the histories of what was put under a category whose removal had
begun, and of defaults switched off or written by an overtaken request. `PromoteRemaining`
is the part of `removeAddress` that hands the flags on, from a read that does not see the
transaction's own deletion.

**Sessions.** `account` has the status, counter and lock that login reads and writes,
`refresh` and `reset` the token rows, `client[c]` a request with the copies it holds. `Write`
is Sequelize's `update`: columns equal to the copy's are left alone. A rotation writes the
presented row whatever it says by then, which is how a token presented twice forks its
login (`forked`); a counter written from an outdated copy is `blurred`. `origin` tells what
became of the authority a session was granted with.

**UserAdmin.** A request passes `Authenticate` (status), `Authorize` (permissions of its
sender's roles), `ReadTarget` (which refuses the sender himself) and its write, each in a
statement of its own. A status is written through the copy that was read; a change of roles
(`setRoles`) is not in a transaction: it reads the rows again (`ReadRoles`), then deletes and
inserts in two statements (`DropRoles`, `GrantRoles`), between which it may die
(`AdminRequestDies`) and leave a user without roles. `lapsed` is history: a write by somebody who had lost the permission.

**Finance.** `clerk[k]` is a request between the check of its day (`IsDateInClosedPeriod`)
and its write; `books` is what a period held when it was closed, `amended` the closed periods
written by a request whose check a closing had overtaken. The report is an operator over the
tables, with days cut at their last millisecond (`DayEnd`) as the SQL cuts them; orders and
refunds are compared as moments, expenses as days.

**Reviews.** `handler[h]` holds a copy of the review; edits and moderations write the columns
that differ from it. `vetted` is history: texts staff approved or wrote; `outpaced` the
reviews written through an outdated copy since they were last moderated.

**Notifications.** A message is looked up against the preferences (`LookUpCustomer`), recorded
PENDING or CANCELLED, delivered and marked in separate steps, each of which may be the last.
`delivered` counts what the channel took; `doubtful` are the messages retried while under way
or delivered without a record of it.

**KeyRotation.** `keys` is the table, `node[p]` a process's active version and cache, `record`
the encrypted column. A run of the worker locks a batch, reencrypts item by item under the
version its *process* holds active and commits; `outrun` is history: the run wrote under
another version than the one it selects by, or somebody else did. The busy flag is set in
every state but `idle`.

## The runs

Every run finishes in a few minutes with two workers. Deadlock checking is off in
all of them because the bounds on requests end every behaviour and a shop with no
requests may rest; waits for locks and connections are covered by `NoDeadlock` and
`EveryRequestEnds` instead.

Components that share no column that both write are checked in one run: its module puts
their specifications side by side, and a variable `focus` chosen in the first state says
which of them a behaviour exercises, while the others rest in their initial state. Their
interleavings would multiply the states and show nothing more. Where components do share
state (orders and stock, checkout and wallet), the modules themselves have both.

| Run | Question | Bounds |
|---|---|---|
| `inventory` | do racing handlers keep row and ledger consistent, each as one atomic step, without overselling? | 3 requests at a time, 5 in all, quantities 1 and 2: two suffice for a race, the third for a race during recovery, 5 operations build up stock and then race on it |
| `fulfilment` | do status, history, stock, statistics and wallet agree under crashes, refusals, corrections? | 2 orders, 2 lines, 2 staff requests, 3 connections, 1 fault (a crash, or a pool taken by other traffic), 1 correction; both orders are of one customer, so that two updates of the count can cross |
| `payments` | do captures, refunds and the order agree whatever the gateway and staff do? | 2 payments of amount 2 (so that partial refunds exist), 2 requests at a time, 1 crash |
| `progress` | does every transition end when connections run out, and does a lost confirmation heal? | 2 orders of one line with a pool of 2, so that both transitions hold one and need another; 1 payment, 2 requests, 1 crash |
| `checkout` | is checkout atomic, free of deadlock, once per key, replayed truthfully? | 2 customers, 2 variants with 1 unit each, a coupon for one use, credit 1, 1 key, 3 requests (original, retry, rival), 1 fault |
| `rewards` | are rewards paid when and only when recorded, does the first reward close a referral, and is credit never overdrawn? | 2 requests at a time, 3 ledger rows, amounts 1 and 2, 1 referee with 2 orders, 1 post, 1 failure: two requests race for the wallet, the post or the referral, the third row is what a race is about |
| `storefront` | do carts hold what was asked, does the first order retire them, do offers keep their limits, do categories in use and default addresses stay? | 2 requests at a time; 3 carts (guest's, customer's, and the one opened after a conversion), 2 variants, quantity capped at 2, 4 requests; 2 offers, a coupon for one use, 2 customers, 2 orders; 2 categories, 1 product and variant, 5 requests; 3 addresses (a default, a rival, a remaining one), 6 requests |
| `backoffice` | what the modules of accounts and staff promise | 2 requests at a time; 1 account with 3 refresh tokens and a counter that locks at 2, 6 requests; 2 users, of which either can administer; 2 expenses, 2 periods, 2 days, 4 requests, 4 sales and refunds on the boundaries of the days; 2 reviews of 1 author, 2 texts, 6 requests; 2 messages to 1 customer or the shop, 2 deliveries each |
| `rotation` | is every ciphertext readable, and does the worker end? | 2 processes, 2 versions and data keys, 3 records of which 1 may be damaged, batches of 2: a full batch, a second one, and a damaged record that comes back |

Requests are symmetric in all safety runs and used as a symmetry set there (with the
payments, a referee's orders, variants and texts); `progress`, `rotation`,
`payments_attempts` and `addresses_default` use none.

Three runs show where the code does not do what the repository says of it; each states a
quoted sentence as a property and TLC finds a behaviour against it.

| Run | What happens |
|---|---|
| `payments_attempts` | Two initiations both see no active payment (`payment.service.js:12-30`) and the order gets two, both of which can be captured. `OrderReflectsPayment` therefore speaks of the order's payments together. |
| `checkout_retry` | The original waits or works for more than two minutes, its retry takes the key over, both commit (`idempotency.js:35`). The same happens when the process dies between the commit and the update to COMPLETED. `KeyedOnce` says what does hold. |
| `addresses_default` | An address that claims a default is inserted with its flag before the flag of the other one is cleared (`customer.service.js:88-94`); the partial unique index of the table refuses the insert, so no later address can take a default over when it is added. The unit test mocks the repository and does not see it. `updateAddress` writes the flag before it clears the others as well (lines 108-110) and is refused in the same way. |

The overlaps that a history leaves out of a property are races that the code loses. TLC finds
each of them as soon as the exception is dropped from the property (the set after `\`, or the
conjunct with the history); they have no runs of their own, because the passing runs
already show where they begin and that nothing else follows from them:

| Exception | What happens | What the repository says |
|---|---|---|
| `crossed` (`StatsInSync`) | Two orders of one customer are confirmed together, each under the lock of its own row; both read the same count (`customer.service.js:145`) and one update is lost. | "to keep the denormalised spend stats in sync" (`customer.service.js:142`) |
| `rivals` (`OrderedOnce`) | Two checkouts without a key read the same active cart (`checkout.service.js:54`); the second one commits although the cart is converted by then, and there are two orders. The property bounds them by the checkouts that held the cart when it was ordered first. | "create the order, and retire the cart" (`checkout.service.js:42`) |
| `mixed` (`CartHoldsWhatWasAsked`) | A guest's addition read its cart before the merge at login and writes its line afterwards, into a cart nobody reads again; or two additions of one variant write the same quantity (`cart.service.js:105`). | "then retires the guest cart so it is never reused" (`cart.service.js:161`) |
| `rivals` (`RewardedOnce`) | Two validations of one referral both see no REWARD_ISSUED (`referral.service.js:62`) and the referrer is credited twice. The property bounds the rewards by the validations past the check at the first one. | the test "refuses to reward twice" (`tests/referral.service.test.js:68`) |
| `outpaced` (`PublishedAsModerated`) | An approval was read before the author's edit and is written after it: the edited text is on show, vetted by nobody (`review.service.js:150`). | "Shopper edits require re-moderation" (`review.service.js:114`) |
| `amended` (`ClosedBooksAreKept`) | A request finds the day open, the period is closed, the request changes the expense (`expense.service.js:83`). | "No `UPDATE` or `DELETE` queries are permitted against records in a closed period" (`ARCHITECTURE_BLUEPRINT.md:187`) |
| `blurred` (`CounterCountsFailures`) | Two wrong passwords are compared at the same time; both write the same counter (`auth.service.js:114`) and the limit is passed without a lock. | "Locks the account after repeated failed attempts" (`auth.controller.js:57`) |
| `forked` (`SessionsStayEnded`) | Two requests present one refresh token at the same time; both pass the check of `revokedAt` (`auth.service.js:173`) and each gets a successor. | "The presented token is revoked and replaced" (`auth.controller.js:88`) |
| `blind` (`CategoriesInUseAreKept`) | A product is put into a category between the count and the deletion (`taxonomy.service.js:57-60`). | "Still referenced by child categories or products", the answer 409 (`category.controller.js:92`) |
| `lapsed` (`SomebodyAdministers`) | Two administrators demote each other (`user.service.js:74`). | nothing |
| `doubtful` (`DeliveredOnce`) | A message is retried while it is being delivered (`notification.service.js:170`). | nothing |

Differences seen while modelling that no run states:

- a line committed for an order that then rolls back to PENDING has left the shelf, and
  cancelling the order releases it, against the comment at `order.service.js:148`
  (the exception in `ReservedIsPending` and `SideEffectsExactlyOnce`: transitions that failed half-way);
- a return records no event, so a returned order is rewarded once the window has passed,
  against the comment at `referral.service.js:51`; a validation whose credit fails answers
  `rewarded: true` although all of it is rolled back (`referral.service.js:87-89`);
- the refund of a returned order writes status REFUNDED itself, without a history row
  (`payment.service.js:134`; `README.md:123` of the repository says every caller goes through
  the transition service); the FAILED mark of a webhook with a wrong amount is rolled back
  with the error (`payment.service.js:81`);
- the plain read of `initializeForVariant` is not "row-locked" as `README.md:121` of the
  repository says of every mutation (`LockedOperationsAreAtomic` names it as the exception);
  when the seeding of a new variant's stock fails, the error is swallowed and the variant has
  no inventory row (`product.service.js:137-141`);
- a rejection that was decided on a stale copy leaves an approved, paid post REJECTED
  (`ReviewsAgree`); once a credit that was partly spent expires, the raw sum is negative and
  later credit vanishes into it (`wallet.repository.js:13-20`);
- promotions behind a coupon are found as automatic ones as well (`promotion.repository.js:14-29`),
  so they apply without the coupon, and a stackable one counts twice with it
  (`promotion.service.js:65-76`);
- adding a product to the wishlist twice at the same time is a conflict for one of the
  two, against the comment "no-op success" (`wishlist.service.js:31-42`); categories can be
  made each other's parent, since only the category itself is refused (`taxonomy.service.js:39`);
- a message that was delivered but whose update to SENT fails stays PENDING, because
  the update is returned without being awaited inside the `try` (`notification.service.js:132`);
- the worker sets its busy flag before `ensureInitialized`, outside the `try` that clears
  it: if that fails, the process never runs the worker again (`reencryption.worker.js:57-58`;
  state `stuck` of `KeyRotation`);
- `audit.record` swallows the error of its insert, but inside a transaction PostgreSQL has
  aborted everything by then (`audit.service.js:35`); `trackEvent` may store a user's id where the
  foreign key wants a customer's (`marketing.service.js:144`).

## Fairness

Safety runs need none. `OrderFulfilment!Fairness`: a request that can take a step takes
it (`WF` of `Proceed`; Node runs every ready callback, and the acquire timeout of the
pool is a step, so a starved request has one), and a request that waits for the lock of
an order gets it eventually (`SF` of `LockOrder`; PostgreSQL queues waiters). Without the
timeout `EveryRequestEnds` fails: that is its mutant. `Payments!Fairness`: a request that
does not die ends, and the gateway repeats an event until it is answered with 200, which
the webhook contract promises. `KeyRotationFairness`: a process goes on with its run of the
worker (`WF`), and a run that waits for rows which are free again and again gets them (`SF`
of `TakeBatch`, the same queue of PostgreSQL). Nobody has to send requests, and nothing has
to fail, rotate or be repeated by a client.

## The proofs

`tlapm` checks the eight proof modules from nothing in a few minutes each. The assumptions
are the named ones of the modules: amounts are natural numbers, at least one of them; stock,
credit, limits, the amount of an order and bounds are natural numbers; the variants of the
checkout are a finite set of numbers (the order of their ids); days follow one another
without a gap, and the report adds up finite tables; and the placeholders for "nobody", "no
row" and "no key" are none of the others. The number of requests, customers, variants and
keys, the quantities and the bounds are arbitrary.

The inductive invariant of `InventoryTx` (`IInv`) adds to the type and the ledger what a
request may rely on between its statements: one that has read for update still holds the
lock and a copy equal to the committed row (`Reading`); one that has saved holds the lock
and its copy is the accepted update of the committed row, up to the physical count if
it raced without a lock (`Saving`); without a row there are no movements (`NothingYet`).
Neither property is inductive without these: at `CommitTx` the ledger is added to
and the row is replaced by a copy computed several steps earlier.

The one of `Payments` says what a request relies on in the two gaps around the gateway.
A request that has created an intent is the only one to insert its row, and the row does
not exist yet (`Creating`, which needs `Known`: only intents of the gateway have rows). A
request that refunds is the only one to do so for its payment, the payment is still one
that can be refunded, and the gateway has paid back what will be recorded (`Refunding`).
`RefundsWithinPayment` is not inductive without it: `RefundRow` checks nothing of the
total it writes. A crash in the gap leaves the gateway ahead of the rows, never behind,
which is why the property compares them by `<=`. The action properties follow from the
invariant step by step: `InitiateRow` would take a captured payment back if its row
existed.

The one of `Checkout` has three parts. *Locks*: a row has one holder (`Exclusive`), and
what a transaction holds tells where it is: wallet before stock rows before coupon, a
stock row before the greater ones (`InOrder`). *Checks*: what was read under a lock still
holds, because only a commit writes these rows and the committing request holds all that
it writes (`Checked`): each line reserved has a unit left, the coupon is redeemable, the
debit is within the credit. Expiry lowers the balance without a lock; therefore the debit
is compared with the credit granted (`Solvent`), which is also what `OrderPlacement` speaks
of. *Keys*: the row a request still owns is for its body, and its order is under its key
(`Linked`); a key that was not bypassed has one request at work, and an order only once
that one has committed (`Guarded`). `CheckoutIsAtomic` needs the first two parts: `Commit`
tests nothing of what it writes. `KeyedOnce` needs the third. `NoDeadlock` follows from
`InOrder`: in a set of checkouts that all wait, nobody waits for the coupon (its holder
waits for nothing), the greatest stock row that is waited for has a holder that waits for
a greater one, and those that wait for a wallet hold nothing.

The one of `OrderFulfilment` follows a transition through its connections. `Base`: a request
past `LockOrder` is the holder of its order's lock and on an edge of the table, its order
was placed, and its lines to do are lines of that order. `LifecycleIsAtomic` is a
step-by-step argument from it: `CommitTransition` is the one step that shows. The stock
properties are about lines that move *before* the status does, so the invariant counts them
ahead of time (`AtLeast`, `Exactly`): a line of a locked order that is no longer to do has
already been moved for the edge under way. The wallet needs nothing of the kind, because its
refund commits with the status.

Two properties of `OrderFulfilment` count over orders, and both are kept by other
connections than the order's. `Reserved`: until something fails, the reserved units of a
variant are the sum over the placed orders of what their movements have neither committed
nor released; a step changes one summand and the column by the same amount (`SumChanges`).
It also holds what the types need: what an operation takes off the reserved units is still
reserved, so no column becomes negative. `Stats`: the count of a customer is the number of
orders that add to it, where the order of a request that has written the count and not yet
committed counts already (`Tally`); and the copy a request has read is the count still,
unless another request has written it since (`CopyIsTrue`), which the history `crossed`
records when the copy is written back. Without the second part the first is not inductive:
`WriteStats` writes the copy plus or minus one, whatever the column says by then.

The one of `Rewards` (`RewardsInv`) is about who has the wallet's row and what that is
worth. One request at a time holds it (`OneHolder`), what it has checked the balance against
stays covered (`Enough`), because credits that expire meanwhile leave their rows in the sum,
and what is not yet in the ledger is on its way (`OnItsWay`). `RewardedOnce` needs that the rewards
of a referral and the validations still in flight are together no more than those that were in
flight at the first reward (`Closed`): none begins after it. The balance is a sum over the ledger from which a set of credits is left out;
that it is no more than the whole sum (`BalanceIsCovered`) is what makes the check under the
lock sufficient.

The one of `KeyRotation` (`KInv`) says that what is stored is never changed, only added:
an active version is stored, what a process holds active is in its cache (`ActiveIsCached`),
the cache agrees with the table (`CacheIsStored`), and so does what a batch has staged but
not committed (`StagedReadable`). The last one carries the proof: a ciphertext written in
an earlier step has to be readable when it commits, whatever was rotated in between.

The one of `Sessions` (`SInv`) says what the copies are worth. A request that nobody crossed
holds the counter as it is (`CopyCounts`), so the number it writes is one more than what the
history counts; one that presents a token nobody crossed presents a usable one, and no
request carries the authority of a session that has ended (`TokenStands`). Every token
belongs to a login that exists, which is why the first token of a new login is alone
in it; a rotation that was not crossed replaces the only usable token of its login. Other
requests change only in their marks while one commits (`Like`), so that one lemma about
marks serves all the actions.

Those of the back office are smaller. `UserAdmin`: a handler that has read its target acts
on somebody else, until the last of its statements; so the sender, who may administer at the
moment of the write unless it has lapsed, still may afterwards. `Finance`: what a request will write has no day in a closed
period unless a closing overtook it (`DaysAreOpen`), and a closing request closes a period
that exists. `Notifications`: a message in the hands of a task was wanted when the service
looked (`NAgreed`), and delivered as often as the task's step says (`NCounted`). `Reviews`:
a copy that is not outdated shows the text and the status that the row still has.
`ReportsAddUp` is about sums, not steps: a day belongs to one of two adjacent ranges, so
each line's rows split into theirs (`SumSplits`).

The types of the back office need more than one would expect of `Sessions` (`SRest`): the
columns of an account are written from copies that were read several steps earlier, so that
they stay in the table's domain only if no step is about an account that is not registered:
whoever holds a copy, or a reset token, holds it of one that is, and registered accounts
stay so.

Those of the storefront say the same thing four times: what a request has read is how it is,
unless somebody was quicker. `Cart`: the carts a request is about are active and the lines
it computes from are the cart's (`Fresh`), unless it was overtaken. `Promotions`: the
counter of a coupon and its redemptions count the orders that used it, all of them and by
buyer (`Counted`), so the limits read under the lock limit the orders (`Limited`); a
checkout that was promised a first-order offer has no earlier order (`Deserved`). `Catalog`:
what came under a category since the first check of its removal is marked (`Guarded`).
`Addresses`: a request knows whether its address is the first, and which one inherits the
flags (`UpToDate`).

The composed runs `storefront` and `backoffice` have a theorem each (`StorefrontHolds`,
`BackofficeHolds`): a step of the composition is a step of one component and leaves the
variables of the others alone, so each component behaves as its own specification says and
all its invariants, and the types of all variables, hold side by side.

Sums over finite sets are defined by a recursive function over subsets. `SumLemmas` derives
what the proofs use (a sum changes by what one summand changes, splits along a partition,
grows with non-negative summands) without an induction theorem: a counterexample would have
a smallest subset on which it fails (`SmallestSubset`).

The histories (`blurred`, `forked`, `lapsed`, `amended`, `doubtful`, `outpaced`, `bypassed`,
`raced`, `crossed`, `mixed`, `blind`, `waived`) mark the overlaps for which
the code has no protection; the theorems say that nothing else goes wrong, and TLC reaches
each of them. `rivals` does not leave anything out: it bounds what such an overlap can do.

| Theorem | States |
|---|---|
| `TypeCorrect` | `Spec => []TypeOK` |
| `LedgerTheorem` | `Spec => []LedgerAccountsForRow` |
| `AtomicityTheorem` | `Spec => LockedOperationsAreAtomic`: the transactions implement `Inventory` |
| `OversellTheorem` | `Spec => OnlyCorrectionsOversell` |
| `RefundsStayWithinPayment`, `OrderShowsPayment` | `Spec => []RefundsWithinPayment`, `Spec => []OrderReflectsPayment` |
| `CapturesStay`, `OrderMovesAlongTable` | `Spec => CapturesAreNeverReverted`, `Spec => OrderFollowsTable` of `Payments` |
| `CheckoutImplementsPlacement` | `Spec => CheckoutIsAtomic`: checkout implements `OrderPlacement` |
| `NoCheckoutsDeadlock` | `Spec => []NoDeadlock` |
| `OneOrderPerKey`, `StoredResponsesAreTrue` | `Spec => []KeyedOnce`, `Spec => []ReplayIsTruthful` |
| `TypesHold` | `Spec => []TypeOK` of `Checkout`, with the limits of stock and coupon; the same of `Payments` and of `OrderFulfilment` |
| `AcceptedStaysStock`, `OperationsStayAccounted` | what the operations do to rows and ledgers, whatever the row |
| `TransitionImplementsLifecycle` | `Spec => LifecycleIsAtomic`: the transition implements `OrderLifecycle` |
| `WalletComesBackOnce`, `SideEffectsHappen`, `SideEffectsHappenOnce` | `Spec => []WalletRestoredOnce`, `[]SideEffectsAtLeastOnce`, `[]SideEffectsExactlyOnce` of `OrderFulfilment` |
| `ReservedIsWhatIsPending`, `StatsStayInSync` | `Spec => []ReservedIsPending`, `Spec => []StatsInSync` of `OrderFulfilment` |
| `RewardsHold` | `Spec => []` of the types, `RewardsArePaid`, `ReviewsAgree`, `RewardedOnce` and `NeverOverdrawn` of `Rewards` |
| `CartsHold` | `CartSpec => []` of the types, `CartHoldsWhatWasAsked` and `OrderedOnce` |
| `OffersStayWithinLimits`, `CategoriesStay`, `DefaultsStay` | `[]` of the types with `OffersWithinLimits`, `CategoriesInUseAreKept`, `DefaultsAreKept` of `Promotions`, `Catalog`, `Addresses` |
| `StorefrontHolds` | `StorefrontSpec => []` of all of these |
| `NothingBecomesUnreadable` | `KeyRotationSpec => []EverythingReadable` |
| `EndedSessionsStayEnded`, `FailuresAreCounted` | `SessionsSpec => []SessionsStayEnded`, `[]CounterCountsFailures` |
| `NobodyLocksThemselvesOut` | `UserAdminSpec => []SomebodyAdministers` |
| `BooksStayClosed`, `ReportsStayAdditive` | `FinanceSpec => []ClosedBooksAreKept`, `[]ReportsAddUp` |
| `MarketingIsWanted`, `MessagesArriveOnce` | `NotificationsSpec => []OptOutsAreRespected`, `[]DeliveredOnce` |
| `PublishedReviewsWereModerated` | `ReviewsSpec => []PublishedAsModerated` |
| `BackofficeHolds` | `BackofficeSpec => []` of the types of five modules and their eight invariants |

Every invariant and every action property of the passing runs is thus a theorem.
Model-checked only are the liveness properties: `EveryRequestEnds`, `CaptureConfirmsOrder`
and `WorkerEnds` rest on fairness, and ENABLED is beyond the prover.

## What is not modelled

`PROJECT.json` lists every component with its status. Marketing and analytics are CRUD and
read-only SQL, the audit log appends rows that nothing reads back, and the HTTP layer is
plumbing but for authentication and authorisation. Of the catalog, collections, images, views
and slugs are left out, and the changes of plain columns of variants, users and
customers. Amounts are small integers: rounding to cents, tax and shipping are left out, and
so are the amounts of discounts. `Payments` looks at one order, the other modules at a few;
orders share nothing but stock rows, customers and connections, which `OrderFulfilment` has.
Referral codes exist from the start, and whether fraud signals are suspicious is a free choice.
The best-seller counter of a product, which a committed sale increments (`inventory.service.js:77-82`),
is left out: its errors are swallowed and no decision reads it. So is the answer of `redeemCoupon`
for a coupon that is gone (`promotion.service.js:114`), since no code deletes coupons.
Multi-factor login asks for no challenge, as its configured provider does. Cryptography, the
contents of messages and exports are opaque.

## Plan

Done in this order: inventory (it is under everything), orders, payments, checkout with
the guard, rewards; then the storefront (`Cart`, `Promotions`, `Catalog`, `Addresses`), the back
office (`Sessions`, `UserAdmin`, `Finance`, `Reviews`, `Notifications`) and `KeyRotation`. What could
follow: an abstract specification of the cart (lines as a function of the requests) with a proof
that handlers without overlap implement it, a proof of the same kind that the wallet of `Rewards` implements an
account that is credited and debited in single steps, and the amounts of discounts against a reference definition.
