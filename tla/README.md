# A verification of basic-wallet-nestjs-knex

The repository is the backend of a wallet: users sign up, fund a wallet through
Paystack, transfer money to each other and withdraw it to a bank account. The
modules here model what its TypeScript does, statement by statement where the
order matters, and state what must hold of the money in spite of concurrent
requests, repeated and reordered webhooks, lost answers, errors and crashes.
`src/modules/...` below abbreviates the paths of the repository.

## The system and its parts

| part | state it keeps | operations | who it talks to |
|---|---|---|---|
| WalletService (`modules/wallet`) | none but the local variables of its methods | `fundWallet`, `transferFunds`, `withdrawFund` | database, PaystackService |
| WebhooksService (`modules/webhooks`) | the row a delivery read | `charge.success`, `transfer.success`, `transfer.failed`, `transfer.reversed` | called by Paystack; database |
| database (`database/migrations`) | `users`, `wallets`, `transactions` | statements and knex transactions | all services |
| PaystackService (`shared/plugins/paystack`) | none | builds the requests to Paystack | RequestController |
| RequestController (`core/RequestController`) | the attempt, the timer | `get`, `post`, `put`, `delete` | remote servers, through axios |
| Auth and Users (`modules/auth`, `modules/users`) | none | `signUp`, `signIn`, `POST /users` | database, JWT, bcrypt |
| resolveResponse, AllExceptionsFilter (`shared`) | none | turn a result or an exception into an answer | every controller |
| CacheService (`modules/cache`) | none but the variables of `get`, `getOrSet` | `get`, `set`, `getOrSet`, `delete`, `clear` | MemoryCache and RedisClient; no provider creates it |
| MemoryCache, RedisClient (`shared/plugins/caching`) | strings with expiry, hashes, sorted sets; in memory also recorded deadlines | the methods of `ICache` | the process's memory; a Redis server |
| Emails | a queue | `createEmail`, `sendMail` | nothing emits their event |
| TransactionsService, guards, filters, logging, configuration | none | read, check, format | |

The parts meet in three places: the rows of the database, which requests and
webhooks of any number of users change concurrently; Paystack, which is told of
a charge or a payout by a request and calls back about it by webhooks; and the
HTTP answer to a webhook, which decides whether Paystack sends it again.

What makes this hard, and what the parts owe:

* **A method gives up the event loop at every `await`.** `checkBalance` and the
  guards of the webhook handlers look at rows they do not lock. Owed: a bounded
  overdraft, a bounded number of credits.
* **Two systems, no common transaction.** A withdrawal is a POST to Paystack, an
  UPDATE and an INSERT; each may be the last. Owed: no refund without a debit, no
  credit without a payment, a row for every charge that can be paid.
* **Webhooks are repeated, late and out of order.** Owed: whatever comes, the
  status of a deposit and its credit agree, and what is owed is credited some day.
* **Answers may be lost.** Owed by RequestController: a POST happens at most once,
  and an answer means it happened.
* **Duplicate checks race.** Owed: unique accounts, one wallet for who signed up.
* **Transactions wait for rows and connections.** Two opposite transfers deadlock.
  Owed: all or nothing, an end for each, and meta that tells the balance it left.
* **A cache is behind its data.** `getOrSet` holds a value across awaits, and a lost
  `del` is swallowed. Owed: what was deleted is not served again but for a time. The
  two implementations of `ICache` are written apart; owed: the same answers, where the
  files do not treat a case differently, and a shutdown that forgets what it cleared.

## The modules

| module | models | code |
|---|---|---|
| `Domain` | users, wallet owners, references, amounts | DTOs, `Helper.randString` |
| `WalletRow` | the balance column and the UPDATE that changes it | migration, `updateWalletBalance` |
| `Ledger` | the tables `wallets` and `transactions`, the statements on them | migration, transaction enums |
| `Paystack` | charges, payouts, events not yet acknowledged (external) | as `paystack.service.ts` and the webhooks use it |
| `WalletService` | the three operations, action by action | `wallet.service.ts`, `wallet.controller.ts` |
| `WebhooksService` | guard, transaction and answer of a delivery | `webhooks.service.ts`, `webhooks.controller.ts`, `resolvers/index.ts` |
| `WalletSystem` | the composition; its properties and fairness | |
| `WalletInvariant` | the inductive strengthening | |
| `PaymentContract` | what is owed to who pays in or takes out, without requests, webhooks and retries (abstract) | `wallet.service.ts`, `webhooks.service.ts` |
| `WalletContract` | how a state of the wallet is one of `PaymentContract` | |
| `WalletClaims` | what the repository says and the code does not do | |
| `KnexTransaction` | what the services take a transaction to be (abstract) | `wallet.service.ts`, `webhooks.service.ts` |
| `RowLocks` | its statements, row locks, connections, deadlocks and rollbacks | the same, and knex and InnoDB as they use them |
| `RemoteCall` | what a caller may rely on when it posts (abstract) | |
| `RequestRetry` | attempts, repetition, timeout, late answers | `RequestController.ts`, `AxiosRetry.ts` |
| `RequestInvariant` | why a write happens once | |
| `Registration` | sign-up, `POST /users`, sign-in, unique indexes | `auth.service.ts`, `users.service.ts` |
| `CacheService` | its methods await by await over a Redis that loses answers | `cache.service.ts`, `redisClient.ts` |
| `MemoryCache`, `RedisClient` | the two implementations of `ICache`, call by call | `memoryCache.ts`, `redisClient.ts` |
| `Entries` | their maps as functions, and the order of a sorted set's members | as both files use Map, memory-cache and `sort` |
| `CachePair` | both given the same calls, what must then agree, and its inductive strengthening | `ICache.ts` |
| `MC...` | instances for TLC | |
| `WalletProofs`, `BooksProofs`, `SettlementProofs`, `FundsProofs`, `RequestProofs`, `RegistrationProofs`, `LocksProofs`, `CacheProofs` | theorems | |

`Domain` is extended by `WalletRow` and `Paystack`, `WalletRow` by `Ledger`,
`KnexTransaction` and `RowLocks`; `Ledger` and `Paystack` by `WalletService` and
`WebhooksService`, and these two by `WalletSystem`. `RowLocks` takes an instance of
`KnexTransaction`, `RequestRetry` one of `RemoteCall` and `WalletContract` one of
`PaymentContract`, to implement them;
`CachePair` one of `MemoryCache` and one of `RedisClient`, to compare them; these two
extend `Entries`. The names
of definitions are those of the code where there is one.

### How the wallet's state and actions correspond to the code

`balance` is `wallets.balance`; `transactions` the rows of that table, where
reference and operation stand for the id (a transfer inserts two rows with one
reference). `worker[w]` is a running method of WalletService with the variables it
still needs; its `step` names the `await` it stands at. `handler[h]` is a
delivery past its guard, with its own copy of the row it read. `credits` and
`debited` are history variables, as are `charge`, `payout` and `kobo` of Paystack,
which the code cannot see. `events` are the webhooks Paystack has no 2xx for.

An action ends where another request can observe or disturb what happened: at a
statement that changes a row, a read that a later step relies on, and a POST.
Reads that depend on nothing mutable (the users table, `verifyAccount`) belong to
the action before them. A knex transaction is one action, because no statement
in the modelled transactions reads what it later relies on; that a transaction
may throw is `RequestFails`, `OutOfRange`, `CreditRefused` and `WebhookError`.
A user without a wallet never gets past the first line of an operation
(`findUserWallet` returns undefined), but can be the receiver of a transfer. Such a user
is made by `POST /users`, and may even hold a token: see `Registration` below.

`PaymentContract` says per reference what all this is for: a request *asks* for a charge
or a payout and opens a claim, of one user to one amount; a payout *debits* the claim's
user; the row *books* the claim, which from then on neither changes nor gets lost;
the money *comes due* when the customer pays or a payout comes back; a webhook
*credits* the claim. In `WalletContract` an open claim is the user and amount in the
variables of a method, a booked one is read off the row in the table: that a
handler writes back a stale copy of that row, or that a process dies between POST,
UPDATE and INSERT, must not make the two differ.

That a transaction is one action is what `KnexTransaction` says and `RowLocks` is
shown to implement. There `balance` is what the last UPDATE left in a row,
`committed` what a read without a lock sees, `held[c]` the rows a transaction has
locked, and `job[c]` the transaction of a running method by the statement it is at.
An UPDATE waits for the row's holder; a method waits for one of `pool` connections;
`Victim` is InnoDB's choice in a cycle of waits, `OutOfRange`, `Fails` and `Crash` the
other ways to a rollback. `seen` is the balance read before the transaction, from
which `newBalance` in `meta` is computed. The rows of `transactions` are left out:
an INSERT waits for nobody, and a handler's UPDATE of its row comes after the one
of the wallet the row belongs to.

A webhook is answered with 500 when its handler returned undefined, because
`resolveResponse` reads `.length` of it: `HttpStatus` says so, and that is why
`Acknowledge` keeps a handled event.

In `Registration` a password is of one of two kinds, a bcrypt hash or not, because
`signUp` stores a hash of what it is given and `POST /users` stores the body as it
came: `bcrypt.compare` accepts the latter only if it was a hash. `TokenHolders` says who
can sign in: a user who signed up, and who owns a wallet, or one whom `POST /users`
made with a hash for a password, and who owns none.

The POSTs of WalletService are single steps here, answered or not. `RemoteCall`
justifies them: a POST happens at most once (`FundInitialize`, `WithdrawSend`), a
failure may hide that it happened (`FundTimesOut`, `WithdrawTimesOut`), and one
that never happens and fails leaves things as they are (`RejectRequest`).
`RequestRetry` is shown to implement `RemoteCall`. One thing is simplified: an
execution later than the timeout is modelled at the time of the timeout, which
other requests cannot tell apart, because the row of a timed-out call never comes.

### How the cache's state and actions correspond to the code

`CacheService` has one action for each stretch between two awaits of a method:
`task[t].at` names the await, `holds` the value the method has in hand. Values are the
versions of the data behind a key; `Update` changes the data, and the owner then
calls `delete`. Redis may do a command and lose the answer, or not get it: the method
goes on as with null, because RedisClient logs the error and swallows it. `floor` and
`raced` are history: the version a returned `delete` removed, and the keys whose
last `delete` met an older writer or an error, of which nothing is promised.

`MemoryCache` and `RedisClient` have one action for a method, over sets of keys where
the code also has an m... variant. Deadlines are counted down instead of compared
with the clock; `Second` ticks are a second, so that what the code does with
milliseconds can be seen. `cleared` keeps the keys whose deadlines a `clear` left.
What both do by sorting, `Entries!InOrder` defines by counting: the i-th member has i - 1
before it. `Slice` and `FromTo` are what `Array.slice` and ZRANGE make of indices that may be
negative. `hashCache` has a map for a key once `hset` was called and until `del`, also
when `hdel` took its last field; a hash of Redis without fields is no key.

`CachePair` gives both the same call in one step. `ImplementationsAgree` compares what they
hold of strings and how they answer `hgetAll`, `hkeys`, `zCount`, `zRange`, `zRevRange`
and `zRangeByScore`. The files differ in these places, which it excepts:

| place | MemoryCache | RedisClient |
|---|---|---|
| `set` without a ttl | 15000 seconds: `DEFAULT_CACHE_TTL` is in milliseconds, and is read as seconds | no expiry |
| `incrby` | takes the expiry away | keeps it |
| `setTtl` of a 0 | does nothing | EXPIRE |
| a score or a member used again in a sorted set | one member for a score | one score for a member |
| `hgetAll` of a hash without fields | `null`, or `{}` after the last `hdel` | `null` |
| `hkeys` of a hash without fields | `null`, or `[]` after the last `hdel` | `[]` |
| `zRange`, `zRevRange` to -1 | `[]`: `slice(start, 0)` | all from `start` |

`apart` and `clashed` are history: the keys for which a call of the first three or of the
fourth kind was made, until they are set again or deleted. Not compared, because the two
report them differently or the model keeps no difference: `getTtl` (of a key that is gone `null`
in memory and -2 from Redis), what `zPopMin` returns, `hget` and `hmget`, and whether a value comes back as
a number or a string. Each key is used for one kind of value only, so that Redis's
WRONGTYPE errors do not occur.
After `gracefulShutdown` the methods of hashes and sorted sets go on: `late` has the
keys of those stored since its clear, which `ShutdownForgets` excepts.

### Assumptions

* MySQL runs in strict mode, so that a FLOAT out of range is an error, and the
  driver returns JSON columns as text, as the handlers' `JSON.parse` expects.
* `randString` never returns a reference twice. (It draws 14 characters.)
* Amounts are whole naira in the exact range of a FLOAT; their rounding is left out.
* `meta` and `serverMeta` are left out, but for the `newBalance` of `RowLocks`.
* Deliveries carry Paystack's own signature and the status of their event.
* `OpeningBalance` stands for deposits settled before the first state.

## What is checked

| run | bounds | shows |
|---|---|---|
| `deposits` | one user, two references, amounts 1 and 2, two requests and two deliveries at a time, one fault | the types; `ChargeRecorded`, `CreditJustified`, `DepositSettled`, `DepositCreditBounded`, `RefundOnlyDebited`; the inductive invariant `BooksInv`; and `HonorsContract`, that it implements `PaymentContract` |
| `transfers` | two users, two requests, one delivery, no fault | `OverdraftBounded` and its strengthening `FundsOK`, `WebhookRowUnique`, `PayoutsBooked`, `ConservationOfMoney` |
| `liveness` | one user, two references, one request, one delivery, one fault | `DepositEventuallyCredited`, `RefundEventually` |
| `requests` | a read and two writes, two attempts, the statuses 200, 404 and 503 | `WrittenOnce`, `ReadsRetried`, `Settles`, and that the writes implement `RemoteCall` |
| `locks` | two users with a wallet and one without, two transactions at a time, one connection or two, one fault | `LocksInv`, `SnapshotRight`, `TransactionsEnd`, and that `RowLocks` implements `KnexTransaction` |
| `caches` | service: one key, two calls at a time, two versions, a life of two ticks, one lost answer; pair: one key of each kind, values and seconds up to 2, three scores and members, ranges up to two from either end | `CacheInv`, `ServedFresh`, `StaleExpires`; `ImplementationsAgree`, `TtlHonest`, `ShutdownForgets` |
| `registration` | two clients, emails, numbers and ids, a number missing or null, a password that is a hash or not, one fault | `UniqueAccounts`, `OneWalletEach`, `TokenHolders`, `RefusedWithReason` |

Why these bounds: a race of the code needs two requests or two deliveries about
one row; a mix-up needs two references or two users; the range of the column is
reached because `MaxBalance` is smaller than two deposits; and one fault at any
place is a crash or error between any two steps. 200, 404 and 503 stand for the
three ways AxiosRetry treats a status: it resolves, throws, or repeats a read;
the cap of two attempts is that of the code. A deadlock needs two
transactions and two rows, and the pool can only be short of connections with one
for two. `Reach` is one less than the largest sorted set: indices inside, at and beyond
both ends occur for the smaller ones, and -1 and -2 are the ones `stop + 1` could
get wrong. A stale value needs a writer, a `delete` and two versions, and shows at
the third call, for which a slot is free by then; all keys of a cache are
alike, but for `clear`. `MCCaches` runs the cache's parts side by side with a `focus`
that chooses one for each behavior: they share no variable. The proofs below lift the bounds
for most of the safety properties.

`CHECK_DEADLOCK FALSE`: the wallet stops when `References` is used up, calls end
and do not start again. These ends belong to the bounds.

### Fairness

`WalletSystem!Fairness` has two parts. `WF(Handle(h))`: a delivery past its guard
finishes, because Node runs every callback that is ready and MySQL answers every
statement or reports an error. `SF(Deliver(...))`: Paystack repeats an event it has
no 2xx for; its delivery may be disabled for a while only because `Handlers` bounds
the deliveries in flight, which the code does not, hence strong fairness. Requests
and customers owe nothing, and neither crashes nor errors are fair.
`RowLocks!FairSpec` has `SF(Proceed(c))`: knex queues who waits for a connection and
InnoDB who waits for a row, so that whoever could go on again and again has his
turn; no timeout is needed for `TransactionsEnd`. In `MCCaches` only the clock of
Redis is fair: `StaleExpires` relies on no call.
`RequestRetry!FairSpec` asks only that a client handles a reply or the timer of 15
seconds; the server owes nothing.

### What the code does not do

Each of these runs has one property, taken from a text of the repository, and TLC
finds it violated.

| run | text | counterexample |
|---|---|---|
| `credited_twice` | "Transaction already successful" (`webhooks.service.ts:71`) | two deliveries of one `charge.success` read the pending row, both pass the guard, both credit |
| `refunded_twice` | "Transaction already failed / reversed" (`:154`, `:186`) | a payout that succeeded and was reversed: the two events, redelivered in turn, overwrite the status the other's guard looks for, and each reversal refunds |
| `overdraft` | "Insufficient funds" (`wallet.service.ts:204`) | two requests pass `checkBalance` before either decrements |
| `lost_transfer` | "should transfer money from user wallet to another user wallet" (`wallet.service.spec.ts:108`) | the receiver has no wallet: the increment matches no row and the transaction commits |
| `payout_amount` | amounts are "Naira" (`fund-wallet.dto.ts:6`), "Withdrawal of funds from user accounts" (`README.md:27`) | the amount is multiplied by 100 twice before it reaches Paystack |

A handled webhook is answered with 500 (see above), never with the "Success" of
`resolvers/index.ts:9`, so that events are repeated for ever. This feeds
`refunded_twice`: there the redelivery needs no loss of an answer. And a sign-up without
the phone number that `auth.dto.ts:41` marks `@IsOptional()` fails: when the number
is missing, knex throws at the read of `checkDuplicate` (500); when it is `null`, the read
asks for `IS NULL` and finds nobody, and the INSERT fails on the NOT NULL column (500, or
400 before if the email is taken). Either way it inserts nothing, which is part of
`Registration!TypeOK`.

## What is proved

TLAPS proves these for every set of users, references, workers, handlers and
amounts, every range of the column and any number of faults. They use the
assumptions the modules name: `OwnersAssumption`, `ReferenceAssumption`,
`AmountsAssumption`, `BalanceAssumption`, `WorkersAssumption` and its like for the
handlers and the calls, `FiniteAssumption`, `PairAssumption`. The sets of workers and of
handlers are finite because two properties count them, users and references because
`ConservationOfMoney` sums over them, the scores of a sorted set because an order
by counting needs to count.

* `WalletProofs!TypeCorrect`: `TypeOK`, by itself inductive.
* `BooksProofs`: `BooksInv`, and from it `ChargeRecorded` and `WebhookRowUnique`.
  These are not inductive. A charge can be paid only where the URL was sent, which
  was after the row was inserted, which has the amount the request held
  since it told Paystack: so `BooksInv` says what a request owes between
  telling Paystack and inserting its row (`OwingOK`), that no two requests owe the
  same reference, what rows Paystack knows of look like (`RowsOK`), who may pay
  (`CheckoutOK`), and that a handler's copy is of a row that is still there
  (`HandlersOK`), which is what makes overwriting it harmless to all but the status.
* `SettlementProofs`: `CreditJustified`, `DepositSettled`, `RefundOnlyDebited`, each
  inductive beside `BooksInv`; and `DepositCreditBounded`. For the last, credits
  must be counted together with the deliveries that passed the guard and
  will credit (`CreditsInFlight`): once a deposit was credited its row is
  successful, nobody new passes, and what is in flight uses up the bound.
  It also has the money. `MoneyIsConserved`: if every user owns a wallet, the wallets
  together hold the opening balance and what was credited and refunded, less what was
  debited, after every step; a transfer cancels out in the sum. Without that hypothesis it
  is false, which is what the run `lost_transfer` shows, and `MoneyIsNotCreated` says what
  is left: the wallets never hold *more* than was booked. Both need `DebitedOnce`, because
  the books record of a withdrawal only that it was debited: were it debited twice, the
  wallets would lose twice and the books record once. That the sum of a function
  changes by what one or two of its values change is derived in lemmas from the library's
  facts about sums over finite sets.
  And `WalletHonorsContract`: the wallet implements `PaymentContract`, by one lemma for each
  of its actions. What the webhooks know of a payment is only a row somebody inserted
  earlier, so the step from row to money needs that the row is the only one of its
  reference (`WebhookRowUnique`) and has the amount asked (`RowsOK`), that a handler's
  copy has its user and amount (`HandlersOK`), that two requests never owe the
  same reference (`OwingOK`), and that a withdrawal is recorded for exactly what it took
  (`DebitedInFull`). It says of every user what `ConservationOfMoney` says of
  all together. What it leaves open is what the code leaves open: a payout may be
  refunded more than once (`refunded_twice`), a charge credited once for each
  delivery at the same time (`credited_twice`), and a lost claim to a debited payout
  or an accepted charge is never booked.
* `FundsProofs`: `FundsOK`, and from it `OverdraftBounded`. A bound on the balance
  alone is not inductive, for a decrement needs to know that the balance was
  checked. `Funded(u)` says that of the requests of a user that passed the check, one
  still finds its amount, up to one `MaxAmount` for each request that is not among
  them. The request that decrements leaves the set and uses up one of these.
  `PayoutsAreBooked` proves `PayoutsBooked` from this and `BooksInv`, and shows what it
  needs: `ColumnHoldsOverdraft`, that the column has room for one amount below the
  overdraft, or else MySQL refuses a decrement after Paystack was told to pay.
* `RequestProofs`: `TypeOK`, `WritesInv` (a write is sent once, and its only request is in
  one place: on its way, or replied to) and from it `WrittenOnce`; `ReadsRetried`; and
  `Spec => KeepsContract`, the refinement of `RemoteCall`.
* `RegistrationProofs`: `TypeOK`, `UniqueAccounts`, `OneWalletEach`, `TokenHolders` and
  `RefusedWithReason`, the last because nothing deletes the user whose email the first
  read of checkDuplicate found.
* `LocksProofs`: `LocksInv` is inductive: locks are exclusive, and a row differs from
  its committed version by what its holder's finished statements added. From it
  `SnapshotRight`, and the refinement of `KnexTransaction`: only `RowLocks!Commit` is a
  step of the atomic commit. Its hard part is that the abstract commit must be
  allowed by the column *at that moment*, while the UPDATEs were checked before: the
  lock kept the row as it was, which is the conjunct `Fit` of `LocksInv`.
* `CacheProofs`: `CacheInv` is inductive, and `ServedFresh` follows. `HoldersFresh` is the
  strengthening: it is not enough that Redis has nothing older than the last delete,
  the calls that will still write or answer must hold nothing older either.
  Of `CachePair` it proves `PairInv` inductive and from it `CachesAgree`, `TtlsHonest` and
  `ShutdownsForget`, for all keys, values, scores, seconds and ranges. `PairInv` says that the
  entries of a key are equal *unless it is in `apart`*, that an entry whose
  deadline is ahead is there and lives as long, and that the two forms of a sorted set, scores to members in memory and members to
  scores in Redis, are inverse to each other (`Mirrored`). The work is in the answers: that
  the ranges of two such maps are the same sequences. The lemmas go from counting
  (each member of a finite ordered set has a rank of its own, and every rank below the size
  is taken) to `InOrder`, and from there along the inverse map to every `zRange`, `zPopMin`
  and `zRemRangeByScore`. `SameSlices` proves that an inclusive end counted
  from either side and an exclusive one plus 1 cut the same members, for every length and
  every stop but -1. For hashes `PairInv` has `Mapped`: the same fields, with or without a
  map; what is left of the difference is what `BothFieldless` names.

Every invariant and action property of the passing runs has a theorem. Only
model-checked are the liveness properties (`DepositEventuallyCredited`,
`RefundEventually`, `Settles`, `TransactionsEnd`, `StaleExpires`), which are out of the
prover's reach. `PayoutsBooked` and `ConservationOfMoney` are proved under the hypotheses
named above, which the instances that check them satisfy.

## What is not modelled

* The signature check, token parsing, DTO validation beyond the ranges of the
  inputs, logging, paging, response bodies: no state.
* `PaystackService.chargeAuthorization`, `verify`, `detail`, `getBanks` and
  `BaseService.update` and `remove`: nothing calls them.
* The cache's `hget`, `hmget`, `getKeys` and the connection of RedisClient, whose events
  only log. Hashes and sorted sets are given no expiry: only strings are.
* Emails: nothing emits their event and no migration creates their table. Websockets
  and the seed: commented out.
* Locks other than those on the rows of `wallets`: gap locks and the locks of the
  unique indexes make a statement wait, but nothing that holds them waits for a wallet.
* What `transfer.success` writes to `meta`: it subtracts the amount again from a balance
  it was already taken from. Nothing reads it and no text says what it should be.

## Plan

Done first, as the most important behaviour: the money (`Ledger`, `Paystack`,
`WalletService`, `WebhooksService`, `WalletSystem`) with its runs and proofs; then what
its steps rest on (`RequestRetry` below `RemoteCall`) and who may take them
(`Registration`); then the transactions its actions stand for (`RowLocks` below
`KnexTransaction`) and the caches. What comes next, in this order:

1. Liveness under `PaymentContract`: that what is due and booked is credited
   some day, as a property of the contract that the wallet's fairness implies (TLC).
2. Registration's statements over row locks: the wait of an INSERT for the index entry
   of another transaction.
