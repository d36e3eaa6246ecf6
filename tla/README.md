# A verification of jet-meal

jet-meal is a food delivery system of small services, each in a language of its
own. This directory holds TLA+ models of the services' core logic, model-checked
by TLC on small instances, and theorems about them that TLAPS checks for every
instance. Paths below are relative to `src/services/` unless they say otherwise.

`PROJECT.json` lists, for every definition that models code, the lines it stands
for; for every property a mutant of the code that violates it; the hazards of
the code at their lines; and the theorems.

## 1. The system

| part | language | state it keeps | operations that change it |
|---|---|---|---|
| `billing` | C++ (Drogon, SOCI) | PostgreSQL: `invoices`, `balances`, `balance_transactions` | create, pay, refund an invoice; deposit |
| `order` | Java (Spring) | PostgreSQL `orders`; a hash of active orders in Redis; records in Kafka | create, update, patch, delete; refill of the hash at start |
| `delivery` | Kotlin (Spring) | PostgreSQL `couriers`; offsets in Kafka | register, update, move a courier; assign and free on order events |
| `notification` | Python (FastAPI) | MongoDB: preferences; offsets in Kafka; counters in memory | create, replace, patch, delete preferences; consume events and send |
| `user_service` | Rust (axum) | PostgreSQL: `users`, `refresh_tokens` | sign up, patch the name, log in, refresh, change the password |
| `businesses` | C (facil.io, libpq) | PostgreSQL: `businesses`, `meals`; two connections | create, update, delete a business; add, remove a meal |
| `shdb` | C++ (Crow) | files of the shdb library (not in the repository); a map of mutexes | `/sql-query` |
| `libraries/cpp/penguin_malloc` | C | a pool of pages: lists, bitmap, slabs | malloc, free |
| `libraries/c/facil-io-router` | C | a table of routes | register, route |
| `libraries/c/jetenv`, `scripts/openapi-c-gen`, `mobile`, `deploy` | | none at run time | |

### How the parts interact

- Clients call the services over HTTP. `order` asks `businesses` for the menu
  when it prices an order (an answer or an exception in the model of `order`).
- `order` publishes a record of every change of an order to Kafka. `delivery`
  consumes them to assign and free couriers and publishes records of its own;
  `notification` consumes them to send messages.
- As configured the three do not meet: `order` publishes to `order.changed`,
  `delivery` listens to and publishes on `order-events`, `notification` listens
  to `order-changed`; the records of `order` have no `location` and event types
  in lower case, where the enum of `delivery` has upper case and no mapping. The
  models of `delivery` and `notification` therefore take as their producer an
  order service that sends what they can read, and mark it external.
- `penguin_malloc` is not linked into any service.

### What is hard, and what makes each part correct

- **billing.** Paying and refunding are sagas over two repositories without a
  common transaction: a debit and a status update, and a compensation if the
  second fails. Worker threads interleave between the calls; a call may throw
  with or without having committed; the process may die in between. Correct: the
  balance is the sum of the movements; answers tell the truth about money; no
  invoice is paid without a charge; a saga that is alone and meets one failing
  call looks atomic.
- **order.** A transaction writes the row, then tells Redis and Kafka before it
  commits. Rows are read without a lock. Replicas share the table and the hash
  and refill it when they start. Correct: the hash shows what the table holds;
  one event per change; answers are true; no deleted order comes back; no lock
  is kept.
- **delivery.** A courier's flag is read, and written later, by consumers and by
  HTTP requests; records are redelivered after failures and crashes. Correct:
  one order per courier; announced once per attempt; no record stops a partition.
- **notification.** A thread polls, handles and lets offsets be committed in the
  background, next to a stop that waits ten seconds; it loses the partition when
  a batch takes too long. Correct: no record skipped, none handled again but for
  an offset that was lost (a crash, a failed commit, a lost partition), counters
  that add up.
- **user_service.** Statements of a request are transactions of their own.
  Correct: names are unique; a token was got with the right password; a change
  of the password closes the sessions.
- **businesses.** Ten threads share one unlocked connection per repository, which
  is never opened again. Correct: the tables keep their keys; a request is told
  the truth unless another thread used its connection at the same time or such
  threads had left a reply on it.
- **shdb.** The lock of a database is waited for with the map of locks locked, so
  a slow query on one database holds up requests on all. The database is opened
  before its lock is taken.
- **penguin_malloc.** One bit per pair of buddies must tell what is free. Slabs
  keep their caches in a list that is sorted, grown and shrunk on the way, with
  its links inside the memory that is given back. Correct: no page is lost and
  none handed out twice; a request gets the size it asked for; an object lies in
  memory its slab holds; no link is followed into memory that was given back.
- **facil-io-router.** A table that is filled before a service listens. Correct: a
  request reaches the callback registered last for its path and method.

## 2. The modules

| module | models | abstract specification it implements |
|---|---|---|
| `BalanceStore` | `pg_balance_repository.cpp`, statement by statement | `Wallet` |
| `Billing` | `payment_service.cpp` and the HTTP handlers, call by call | `Wallet`, `AtomicPayments` |
| `Orders` | `OrderApplicationServiceImpl` with its repository, cache and publisher | `OrderBook` |
| `Delivery` | `CourierService`, `PositionService`, `OrderEventsListener` | |
| `Notify` | `consumer.py`, `main.py`, `storage.py` | |
| `Accounts` | `auth_service.rs`, `user_service.rs` and their repositories | `SessionBook` |
| `Router` | `fio_router.c`, as a value with operators | |
| `Businesses`, on `Router` | `main.c`, `handlers.c`, `postgres.c` | `Catalogue` |
| `Buddy` | `buddy.c`, `buddy_util.c` | |
| `Slab`, on `Buddy` | `slab.c` | |
| `Penguin`, on `Slab` | `penguin_malloc.c` | |
| `BalanceStoreProofs`, `BillingProofs`, `OrdersProofs`, `DeliveryProofs`, `NotifyProofs`, `AccountsProofs`, `BusinessesProofs` (with those about `Router`), `PenguinProofs` (with those about `Buddy` and `Slab`) | the theorems | |
| `MC...` | instances for TLC: symmetry sets, definitions of constants | |

`BalanceStore` and `Billing` compose through `Wallet`: the first shows that the
transactions of the repository amount to one step each, and the second, which
takes every call as one step, moves money only by these steps.

Conventions shared by the modules:

- The tables are variables, one per column group that matters; a missing row is
  the model value `NoRow`. A request is a name with a call (`call`), a program
  counter (`pc`) and an answer (`answer`, an HTTP status). One step is one call of a
  repository, one SQL statement, or one call of Kafka or Redis, whichever the
  code does not make atomic.
- A fault is a choice in the step it befalls: a call that throws without effect
  (`"failed"`), one that throws after it took effect (`"unknown"`, the lost
  answer to a commit), a process that dies (`"crash"`), and what else a part
  meets. `Faults` names the kinds an instance allows, `MaxFaults` bounds their number.
- `Threads` bounds the requests in service, as the pools of the servers do.
- `Quiet` (`Stopped` in `Buddy`, `Wrong` in `Penguin`) stutters where everything is done, so that TLC's
  search for deadlocks finds only real ones. No run switches it off.
- Operators marked as mutants are variants of the operator below them with a
  plausible bug; no specification uses them.

### Billing

`amount`, `currency` and `ledger` are the tables `balances` and
`balance_transactions`. In `BalanceStore` a session has a lock on the wallet's
row from its `UPDATE` to the commit; `draft` is the uncommitted balance. A call
of `Begin` to `Commit`/`Rollback` is `apply()`; `InitializeRow` is
`initialize()`. In `Billing`, `PayFind`, `PayDebit`, `PayUpdate`,
`PayCompensate` are the calls of `pay_invoice`, and likewise for refunds and
deposits; the 409, 404, 400 and 500 of the handlers are the answers.

### Orders

`orders` is the table, `holder` the row locks, `draft` the row a transaction has
written, `cache` the hash in Redis, `buffer` the records a Kafka producer holds,
`topic` those that arrived, `warm` the start of an instance with its snapshot.
`writer` and the field `calm` of `warm` are history: who wrote a field of the hash
last, and which orders no request touched beside a refill.
`Insert`/`Find`/`Write`/`Erase`, `Put`/`RemoveCached`, `Publish` and `Commit`
follow the order of the code, which tells Redis and Kafka before it commits.

### Delivery

`records` are the partitions, `position` and `offset` what a consumer has handled
and committed. `Poll`, `SeekCourier`, `SaveAssigned`, `PublishAssignment` and
`SaveFreed` are the listener; `Receive` and `Store` the HTTP operations.
`overlapped` is a history variable: two operations were once under way together.
The ends of an order, cancelled and finished, are one kind of record.

### Notify

`proc` is the life of the process (`lifespan`), `thread` that of the consumer.
`next` is the record that will be handled next in the batch, `position` what the
client has fetched and its background commits make durable. `Rewind` is a poll that
finds the partition lost (a batch that took longer than the client's poll
interval, or a broker that missed heartbeats): the consumer goes back to the
committed offset. Of the history, `handled` counts, per record; `cutShort`
remembers that a stop closed the consumer in a batch; `setbacks` counts the
offsets that were lost (crashes, commits that failed at the close, rewinds) and
`rewound` the records this life has gone back over. A call of MongoDB that fails
may have written (`MongoFails`).

### Accounts

The key of a token is the request it was issued to; the token remembers the
password it was got with, which the code does not. `overlapped` is as in
`Delivery`. Hashing is a bijection; the signed access tokens, which nobody
stores, are left out.

### Businesses

`conn` holds the two connections, `result` what the server sent for a statement,
`sharers` the calls whose replies a request may read in place of its own, and
`left` the requests that are over and whose replies may still lie unread on a
connection. libpq forbids two threads on one connection: it is a data race. The
model takes the outcomes that follow from how libpq goes about a call: it is
refused, its reply is read by another thread, it finds none, it leaves its own
behind, where a later call reads it though it has the connection to itself (and
leaves its own, until some call finds the connection empty), or a null pointer
is read from a reply of another shape (the process dies). Memory that the race
might corrupt beyond that is not modelled. `drawn` is the history of
the two sequences. A request arrives as a path and a method (`Arrive`) and goes
through the router; what the router or a handler answers without a statement is
one step.

### Buddy

Pages are numbers; `freelist` holds the lists per layer, `bitmap` the bits that are 1,
`live` the blocks handed out. `Split` and `JoinedLayer` are the loops of
`buddy_alloc` and `buddy_free`. Because a right half keeps its bit, the code never
joins two halves. The model stops when a block was handed out twice.

### Router

`NoRoutes` is the table after `fio_router_init_global_dispatcher`, `Register` a
call of `fio_router_register_callback`, `Route` what
`fio_router_on_request_route` does with a request. `Businesses` folds `Register`
over the calls of its `main`.

### Slab and Penguin

A cache is named by the page its block begins at; `heads` are the cache headers,
`slabs` the slabs. A call of `slab.c` works on a record of both and follows the
code assignment by assignment, so that what a link to memory given back leads to
is what lies there: nothing, a newer cache of the slab, or a cache of another
slab. The first and the last set `broken`, and so does a loop that comes round;
the model goes no further then (`Wrong`), and likewise after the hazards of
`Buddy`. `disordered` remembers that a cache was moved, or that a slab with a
second cache is being destroyed. `objects` are what clients hold of slabs; they
free each once. Where in a cache an object lies is a slot.

## 3. The runs

Each takes at most two minutes with two workers.

| run | instance | what it shows |
|---|---|---|
| `balance_store` | 3 calls, 2 users, RUB and USD, size 1; any failure | balances equal histories, no lost update or overdraft, true answers, `Wallet` is implemented, no call waits for a lock for ever |
| `billing_concurrent` | 5 requests, 1 invoice, 1 user, 2 currencies, 2 threads, 1 fault of any kind | `AnswerMatchesLedger`, `ChargeBehindPaid`, `CreditFindsWallet`, `ImplementsWallet` |
| `billing_serial` | 4 requests, amounts 0 and 1, 1 thread, 2 faults of any kind | every step but a crash, a lost answer or a failing compensation is one of `AtomicPayments`; drift of at most one payment per fault; every request ends |
| `billing_settled_twice` | 2 threads, no faults | finding: two pays of one invoice are both answered 200 |
| `orders_concurrent` | 2 replicas, 3 requests, 1 order, 2 threads, 1 of 4 faults | when the cache is right, and right again after a fault or a restart; events, answers, `OrderBook` |
| `orders_lost_update` | 1 replica, no faults | finding: a PATCH changes a field it omits |
| `delivery` | 1 partition, 2 orders, 2 couriers, 2 users, 1 request, 1 fault | one order per courier, announcements, progress |
| `notification` | 1 request, 1 user, 2 channels, 2 records, 2 lives, 2 faults | no record skipped, records handled again only for an offset that was lost, counters, progress |
| `accounts` | 3 requests, 2 users, names and passwords, 2 threads, 1 fault | unique names, true answers, `SessionBook` while calm |
| `businesses` | 3 requests on a business with a meal, every path with every method, 2 texts, 2 threads, 1 of 4 faults | answers are mixed up only by threads on one connection and by the replies they leave there; everyone else is told the truth, ids keep their kind, a meal is removed in the name of its own business, `Catalogue` |
| `penguin` | a pool of 15 blocks (a root of 8 pages, 4 layers), 2 slabs with caches of 2 pages and at most 2 objects, a size for each slab and one beyond them | pages are tiled until a right half is freed and powers of two fit; objects are sound whatever became of the lists, lists until a cache has moved; a header that is gone is used only as in section 4 |
| `buddy_in_use` | the same pool, sizes 1, 2, 4, no slabs | finding: memory is handed out twice |

Why the bounds are enough for what they claim:

- Requests. A create, a deposit and two that race is what a saga can be
  disturbed with; the fifth request of `billing_concurrent` lets a refund join two
  pays. In `orders_concurrent` one request creates and two meet on the row. In
  `accounts` the third is the login that a change of the password meets.
- One invoice, order or place. The code never reads two rows of these tables
  together. Two users, couriers and names where it does: a name taken by another,
  a courier next to a nearer one.
- Faults. One fault shows what a single failure breaks; two are needed where a
  compensation may fail (`billing_serial`) or a restart may be disturbed
  (`notification`).
- Numbers. Amounts 0 and 1 are a refused and an accepted one; larger ones only
  change who can pay. Sums beyond 64 bits are not modelled.
- In `penguin` two slabs, so that memory one gives back becomes the other's; caches
  of two objects, so that a cache can be empty, begun and full; room for two
  caches beside the first ones, so that a list has a middle. The first cache of a
  slab holds an object less than the others in one slab and as many in the other.
  `BlocksCount` is not a power of two and its bits fit the bitmap: the code reads
  outside its array otherwise (`buddy.c:11`), which the guard of `Alloc` excludes.
- `MCBusinesses` also compares the routing table with its definition for every
  sequence of three registrations, as an assumption that TLC evaluates.
- `MaxId` of `businesses` leaves room for one new row per table, so that an id
  exists that names a meal and no business.
- `businesses` orders the requests by number, which stands for a symmetry; the
  other runs declare theirs, except where a liveness property forbids it.

### Fairness

Nothing ever makes a request arrive, an order change or a fault happen.

- `BalanceStore`, `Billing`, `Orders`: a thread goes on with what it serves (weak
  fairness of its steps). In `BalanceStore` and `Orders` a step that waits for a
  lock is not enabled, so weak fairness says only that PostgreSQL hands a lock
  that stays free to somebody who waits.
- `Orders`: a producer sends what it holds, and Kubernetes restarts an instance.
- `Delivery`: the listener container polls on, and commits what it handled.
- `Notify`: the thread runs; the process is started again; a stop ends, because
  it waits with a timeout.
- `Accounts`, `Businesses`, `Buddy`, `Penguin` have no liveness properties. In `Businesses`
  there is none to have: a thread whose result another took may wait for ever.

## 4. The findings

- **An invoice is settled twice** (`billing_settled_twice`). The status is checked
  in one call and written in another, and the `UPDATE` has no condition on the old
  status: two pays are answered 200 and both charge, two refunds both credit. The
  tests expect 409 for the second.
- **A PATCH undoes another change** (`orders_lost_update`). The row is read without
  a lock, merged in memory and written whole.
- **The allocator hands out memory that is held** (`buddy_in_use`). Freeing a
  right-hand half walks past it and frees the root.

Seen while modelling, and not runs of their own:

- A status update of `pay_invoice` that commits and loses its answer is
  compensated: the money goes back and the invoice stays paid
  (`billing/src/service/payment_service.cpp:58`). It is one of the steps that
  `ImplementsAtomicPayments` excepts, and why `ChargeBehindPaid` says more when
  `"unknown"` is no fault.
- A replica that starts clears the hash the others write and refills it with what
  it read before (`ActiveOrderCacheWarmupConfiguration.java:14`): an order that
  changes meanwhile is shown wrong until its next change, which is what
  `CacheAgrees` leaves out.
- Moving a cache makes it its own neighbour (`slab.c:28`, `slab.c:12`: a link is
  overwritten before it is read), so the search for a cache with room may go round
  for ever. The last cache is given back while its predecessor still points to it
  (`slab.c:119`): freeing an object of the predecessor reads the count of a header
  that is gone, or of a cache of another slab, and may write there. `slab_destroy`
  of a slab with a second cache gives one block back for ever (`slab.c:191`).
  `first_free_cache` never goes back to an earlier cache that has room again. The
  pools of the tests are too small for a second cache.
- For a method it has no name for, the router returns without an answer
  (`fio_router.c:108`); what facil.io then makes of the request is not in the
  repository.
- Two threads that race on a connection of `businesses` may leave a reply on it
  (`handlers.c:15`, `postgres.c:66`). The next call reads it as its own and leaves its
  own, so one race can shift the answers of the calls after it, though none of
  these shares the connection; `AnswerIsTrue` excepts them.
- Courier flags are lost when operations overlap; `OneOrderPerCourier` holds only
  while they do not.
- A login that overlaps a change of the password opens a session with the old
  one; `ImplementsSessionBook` holds only in calm. The user service answers 403
  and 500 where its handlers document 401 and 409.
- A notification is sent again after a crash and after a batch that outlasts the
  client's poll interval (`consumer.py:91`: up to 500 records, each up to 15 s at
  Telegram), and a batch is lost when a stop times out, although `docs/operations.md:166` of the service speaks of idempotent
  sending.
- `delete_meal` answers true for every `DELETE` that did not fail, so removing a
  meal that is not there is answered 204, where `irepository.h:27` promises a
  count and `docs/api.yaml:134` a 404. A failing `INSERT` of a meal and a failing
  `SELECT` of a business are answered 404.
- A connection of `businesses` that breaks stays broken while `/health` answers
  OK, so the liveness probe restarts nothing.

## 5. The proofs

All hold for any constants that satisfy the assumptions of the modules: any
number of users, requests, sessions, replicas, partitions, threads and faults,
any pool and any number of slabs.
The assumptions say that the values for "nothing" (`NoRow`, `NoCall`, `None`,
`Nobody`, `Keep`, `Free`, `Unset`) are none of the values they stand beside, that
requests are neither replicas nor partitions, that a server has a thread, that
`"RUB"` is a currency and that amounts and coordinates are integers
(`StoreAssumption`, `BillingAssumption`, `OrdersAssumption`,
`DeliveryAssumption`, `NotifyAssumption`, `AccountsAssumption`,
`BusinessesAssumption`); of the allocator that the pool has the 15 blocks
`buddy_init` asks for, that `None` is no page, slab or header, and that
`penguin_malloc_init` found room (`BuddyAssumption`, `SlabAssumption`,
`PenguinAssumption`). Two theorems about billing are about a server with one
worker thread and say so; one of them also takes the ids of invoices to be
finitely many, as UUIDs are. Two theorems about the allocator take it that every
block has a cell in the bitmap as the code counts them (`BitsFit`); so it is in
any pool that is at most seven blocks short of a power of two (`BitsForAll`), as
the 15 of the run are. For others, 17 blocks for one, the code reads beyond its
bitmap, whose contents there `BuddyInit` leaves open.

Every invariant, action property and refinement that a passing run checks is
stated by a theorem.

- `StoreTypes`, `StoreDrafts` and `StoreAnswers`: types, `DraftIsFresh` and
  `AnswerIsTrue` of the repository. The invariant `IInv` adds to the types that
  a session past its `UPDATE` holds the lock of the row it changed, that its
  draft is the committed balance with its change, and that a movement is in the
  ledger exactly when its session has committed. Without the lock the draft says
  nothing about the committed row.
- `StoreImplementsWallet`: every step of the repository is one of `Wallet` or
  changes no committed row. Only `Commit` moves money, and there the invariant
  supplies the guard of `Wallet`: the balance cannot become negative, since the
  draft is a natural number, and the movement is new.
- `StoreBooks`: a balance is the sum of the movements. The invariant `Books` adds
  that the ledger is finite, and `BooksStep` that a step adds to it the
  movement whose change it adds to the balance. `BooksBalance` sums with
  `MapThenSumSet`, which takes the elements one by one in an order of its own;
  `TotalWith` and `TotalChanged` show for any finite set that this order does not
  matter, hence how a sum changes with one element or one summand; the proofs
  about the payment service use them too.
  Its inductions look at a smallest set for which a law would fail (`Smallest`),
  because an induction over data is beyond these provers.
- `BillingTypes`, `BillingAnswers`, `BillingCharges` and `BillingCredits`:
  types, `AnswerMatchesLedger`, `ChargeBehindPaid` and `CreditFindsWallet` of
  the payment service. None is inductive. `IInv` says of each request that its
  call fits its place (`Fits`), what it has posted so far (`Accounted`) and what
  the calls before this one have established and nobody can take back (`Relies`:
  a wallet stays open, an invoice that is paid or refunded never becomes pending
  again); that ids of invoices are fresh (`FreshIds`); and that every settled
  invoice has a request whose charge stands behind it (`SettledBacked`).
  `OthersStep` shows that a step of one request keeps what is said of another,
  since ledger rows carry their request and columns that matter are never
  updated; then there is one lemma per action.
- `BillingImplementsWallet`: money moves only by steps of `Wallet`; `Relies`
  supplies that a credit finds its wallet open and `Accounted` that no movement is
  posted twice.
- `BillingImplementsAtomic`: with one thread, every step but a disaster is one of
  `AtomicPayments` or none. `Serial` says that the request in service is alone,
  so that the status it has read is still the one its invoice has, or the one it
  has written; the sums that `InTransit` is made of have at most one summand.
- `BillingDrift`: with one thread, ledger and statuses disagree about no more
  payments than faults happened. The invariant `Within` is sharper than the
  property: it bounds the sum of the gaps (`Gap`), which leave out the payment a
  saga in service still has to settle (`Owed`). A call that works closes what
  the one before it opened; each of the ways to fail, a crash too, widens one gap
  by one and spends a fault.
- `OrdersTypes`, `OrdersAnswers`, `OrdersCache`, `OrdersImplementBook`. The
  invariant says which place fits which call (`Fits`); who holds a row, and that
  only a row a create has locked is not in the table yet (`Locks`); that an id is
  created once and a deleted row does not come back (`Ids`); what an answer
  means (`Told`); that whoever wrote a field of the hash last holds the row and
  has left there what its commit will show (`Fields`), which is why the order
  Redis first, commit later does no harm; and what a replica that refills the
  hash may still rely on, order by order, beside requests on the others (`Warming`).
- `OrdersEvents`: the event of a request is in one buffer or one topic, once; it
  gets there by the step that leaves `Before`, and while nothing fails it is
  neither lost nor told in vain (`Story`).
- `OrdersLastEvent`: with one instance and no fault the last event of an order
  tells its row. Along the way it is the newest record of the order, over the
  buffer and the topic together, that tells the row in the table, or that which
  the holder of the lock is about to commit (`Due`); a delete tells before it
  has the lock, and until it is done others may come last (`Leaving`).
- `DeliveryTypes`, `DeliveryAnnouncements`, `DeliveryOneOrder`. A record of a new
  order that no consumer has handled leaves room for one announcement more
  (`Attempts`), a redelivery spends a fault. While nothing overlaps or fails, the
  copy a consumer works on is as good as the row (`Fresh`), and the flag of a
  courier is set from the save of an assignment until that of its end
  (`Flags`); `Once` and `EndsKnown` say what the topic may hold.
- `NotifyTypes`, `NotifyNoneSkipped`, `NotifyAgainBySetback`. Offsets are in the order
  committed, fetched, present, and the next record lies before the fetched one
  exactly while a batch is handled (`Offsets`). All before the next one were
  handled unless a stop cut a batch short, and what lies ahead of the consumer has
  a handling to its credit (`Progress`): a rewind or a crash counts a setback and puts
  records back there. A close that could not commit has counted its setback before
  the records are read again (`Spent`).
- `AccountsTypes` (names are unique), `AccountsAnswers`, `AccountsImplementBook`. A
  request past a read knows what it is about (`Stage`) and an answer is true of
  the tables (`Honest`), whatever runs beside it; while all is calm it is also
  alone, and what it has read is still there (`Current`), so that its statements
  add up to one step of `SessionBook`.
- `BusinessesTypes`, `BusinessesAnswers`, `BusinessesImplementCatalogue`. Whoever
  used a connection together asked the same repository (`Calls`), and so did
  those who left a reply on it (`LeftBehind`); what a row shows was written by a
  request that changed something (`Rows`); what the server sent is true of the
  statement it answers (`Tells`), and stays true, because ids are never drawn
  again and requests come in their order (`InOrder`): a meal whose deletion was
  confirmed is there again only if a later request added it (`Gone`). So an answer can
  be wrong only by being read by another call, at the same time or later, and
  then it still is about a row of the right kind.
- `RegisterSound` and `RegisterRoutes`: what one registration does to any table of
  routes that `Table` admits, with any paths, methods and callbacks.
  `RoutesAsRegistered`: after any number of registrations, in any order and with
  any repetitions, no two paths share a place and a request goes to the callback
  registered last for its path and method (`MeantAfter`). `FoldLeft` is a fold
  over the sets of places of the sequence; `OneByOne` shows that it makes one
  registration after the other (`MakesSome`: that the recursive function it
  chooses exists), and the theorem then goes from place to place (`Induct`).
  `ServiceRoutes` says so of the table that `main` makes.
- `penguin_malloc`, in `PenguinProofs`. The size of a block is a power of two, of
  which the provers know nothing, so `Pow2` is a recursive function and its laws
  are lemmas: a power is twice the one before, larger powers are multiples of
  smaller ones, two blocks of one layer are the same or apart.
  - `TypeCorrect` and `RoomHolds` need `BuddyInv`: blocks that are free or handed
    out begin where blocks of their layer begin (`Begins`), those handed out
    have the layer that best fits what was asked for, and no page has two
    holders before memory was shared.
  - `TilingHolds`, `SharedAfterRight`. While no right-hand half was freed, free and
    live blocks tile the pool (`Tiles`), none is listed twice (`NoneTwice`), and
    the bits are as `buddy_free` takes them to be (`Bits`): a bit that is 0
    belongs to a left-hand half that is a block, and below a block all bits are
    1, so that the first loop stops at the layer of the block. Hence the finding
    of `buddy_in_use` has one cause: memory in use is handed out only after a
    right-hand half was freed (`SharedAfterRight`, about `BuddySpec`).
  - `ObjectsHold` needs `SlabInv`: a header lies in a live block that was asked for
    as a cache; a cache without links is the last and only one of its slab
    (`Lists`), which is what `slab_free` relies on when it gives a cache back;
    each cache counts the objects that lie in it and its free slots are theirs
    to give (`Books`, `Ledger`), but for a slab that is being destroyed. That
    holds whatever has become of the order of the caches.
  - `ListsHold` and `OnlyHeld` need `LinkInv`: no memory was shared, as `Penguin`
    stops where a live block overlaps a free one, and while no cache has moved,
    the caches of a slab are one list (`Ordered`). `Linked` says it without
    walking: the links of neighbours agree, only the root begins the list, and
    a set that contains the first cache and with each but the last the next one
    contains all. That the walks of the code, functions that stop at a bound,
    then pass every cache is shown by a smallest number of steps. `OnlyHeld`
    follows from what every step does (`Onward`): a header that is gone is used
    by freeing an object whose cache lies before one that was given back, or
    after the order was lost, and in no other way.

Model-checked only: liveness under fairness (`EveryCallEnds`, `EveryRequestEnds`,
`EveryRecordHandled`), which is beyond the prover. Where a proof needs an
induction (sums, powers, walks along a list, folds over registrations), it looks
at a smallest set or number for which the law would fail, because the provers
cannot instantiate an induction over a predicate.

## 6. What is not modelled, and why

- Reads that change nothing (the GET routes), parsing and validation of requests,
  texts of messages, logging, metrics.
- Overflow of 64-bit sums; the price of an order; the currency of an amount, which
  billing never compares with that of the wallet.
- Generated code (`businesses/src/codegen_api.c`), the mobile applications,
  jetenv, deployment.
- `shdb`: the database itself is a library outside of the repository, and the only
  state of the wrapper is a map of locks around it; what it must keep is what the
  library promises.
- The lock of the router: the services register before they listen. Its handlers'
  number in `g_handlers_buffer` is a place in a sequence.
- `slab_init` on a pool without room for a cache: `penguin_malloc_init` does not
  look at the result (`penguin_malloc.c:41`), and `PenguinAssumption` excludes it.

## 7. Plan

Done, in this order: billing (the core), orders, delivery, accounts, notification,
the buddy allocator, businesses, slabs and malloc, the router.

The proofs, in this order: the repository of balances, the payment service,
orders, the catalogue and the router, notification, accounts, delivery, sums of
money, the buddy allocator, slabs and malloc, the table of routes.

Left: liveness, which stays with TLC; the parts that are not modelled (section 6).
