# A formal model of the API testing backend

This directory specifies the backend of this repository (an Express and Prisma
service over PostgreSQL that plays a small bank, and the TypeScript SDK that
talks to it) in TLA+. TLC checks the specifications on small instances; TLAPS
proves the theorems for every value of the constants. `PROJECT.json` lists the
components, the runs, the mutants that show each property can fail, the lines
of code behind every definition, the hazards and the theorems.

## 1. Inventory

### The parts, their state and how they interact

| Part | State | Operations | Talks to |
|---|---|---|---|
| Transactions (`transactions.service.ts`) | `accounts.balance`, `transactions` rows, row locks | `deposit`, `withdraw`, `transfer`, listings | notifications (after the commit, awaited), webhooks (not awaited) |
| Accounts (`accounts.service.ts`) | `accounts` rows | `create`, `update`, `delete`, listings | webhooks (`account.created`) |
| Bulk (`bulk.service.ts`) | the same rows | `bulkCreate`, `bulkUpdate`, `bulkDelete`, one transaction each | none |
| Webhooks (`webhooks.service.ts`, `webhook-delivery.ts`) | subscriptions, delivery rows, jobs in memory | `register`, `delete`, `dispatchEvent`, `deliverWebhook` | the receivers (`fetch`, aborted after ten seconds) |
| API keys (`auth.service.ts`, `middleware/auth.ts`) | `api_keys` rows | `generateApiKey`, `revokeApiKey`, authentication by key | every request with `X-API-Key` |
| Users and sessions (`auth.service.ts`, `middleware/auth.ts`) | users, refresh tokens, expiry of JWTs | `register`, `login`, `refreshToken`, authentication by JWT | every request with a bearer token |
| SDK client (`sdk/src/client.ts`) | token pair, `isRefreshing`, timers | `login`, `refresh`, `request`, `requestRaw`, `requestMultipart` | the server, over HTTP with a timeout |
| Wallets, payment methods, beneficiaries | their tables and `wallet_payment_methods` | create, link, soft-delete, delete | none |
| Rate limiter (`rateLimiter.ts`, mounted by `app.ts`) | `rateLimitStore` in memory, the clean-up timer | one middleware, two instances | every API request |
| Request pipeline (`app.ts`, `routes/`, `delay.ts`, `roleGuard.ts`, `validate.ts`, `errorHandler.ts`, test and user endpoints) | held requests and their timers | parse, count, delay, route, guard, handle | every handler; its counterpart are the endpoint methods of the SDK |
| Notifications | rows | `createForTransaction`, list, mark as read | called by the transactions |
| Lists (`pagination.ts`) and statements (`statements.service.ts`) | nothing of their own: they read rows, in two queries or after a look-up | list a page, report a period | read what the money operations write |
| Files (`files.service.ts`, multer) | `files` rows and `uploads/` on the disk | upload, download | users, whose deletion takes the rows along |
| Seeder (`prisma/seed.ts`) | a script of its own, beside the server | clear every table, create the seed | the same database |
| Start and shutdown (`server.ts`) | the process | graceful shutdown with a ten-second limit | kills whatever is under way |

Node.js runs one callback at a time, so that two handlers interleave exactly at
their `await`s: one atomic step of a model is one query (or one `bcrypt`, one
`fetch`, one timer). PostgreSQL runs at READ COMMITTED with row locks; a plain
read sees the last committed version, an UPDATE or `SELECT ... FOR UPDATE` waits
for the holder of the row.

### What is hard about it, and what makes each part correct

* **Money.** Handlers check with plain reads, then open a transaction that locks
  rows; transactions roll back on a failing query, a lock timeout, a deadlock or
  the death of the process; the notification and the webhook come after the
  commit. Correct means: no balance leaves its column, nothing is lost or
  counted twice, the journal matches the accounts, an answer tells the truth
  about what was committed, nobody waits for ever.
* **Webhooks.** Jobs run unattended for seconds over rows that a deletion takes
  away; a success whose recording fails is repeated. Correct means: the history
  shown to clients is true, deliveries end, a deletion quietens its jobs.
* **Keys and sessions.** Look-ups are followed by slow comparisons while keys
  are revoked and tokens rotated. Correct means: what was revoked or rotated
  before a call was sent is refused, what is active is accepted, and nobody acts
  for somebody else.
* **SDK.** Several calls share one token pair and one refresh flag. Correct
  means: one refresh at a time, no call carried out twice, no session lost by
  the client's own doing.
* **Wallets, payment methods, beneficiaries.** Look, then act, without a
  transaction. Correct means: what the keys of the tables can still guarantee.
* **Rate limiter.** Fixed windows, expiry at a boundary, a clean-up running
  beside. Correct means: bounded bursts, no refusal without cause, honest
  `Retry-After`, a store that does not grow.

* **Request pipeline.** Guards are attached in a dozen places, the delay holds
  requests between the limiter and the guards, and the SDK writes every path a
  second time. Correct means: no handler runs for whom it should not, with
  credentials that are good when it runs; what is held is bounded; every method
  of the SDK meets its handler.
* **Lists and statements.** Pages and totals are separate reads of tables that
  change; dates are strings without a zone; rows are stamped before they are
  committed. Correct means: a walk through the pages errs only for a reason that
  can be named, a past period is final, each transaction is on one day, and the
  totals explain the balance.
* **Seeder and files.** Neither is transactional: a table and the disk, or a
  dozen tables, are written one after the other. Correct means: a run that
  reports success leaves exactly one seed, clearing clears, and what is served is
  the owner's whole file.

The `hazards` of `PROJECT.json` name these line by line.

## 2. Plan

Order, most important first; all of it is done.

1. `BankOperations`, `AbstractLedger`, `Ledger`: the money, with the refinement.
2. `Webhooks`. 3. `ApiKeys`. 4. `Sessions`.
5. `SdkClient`, composed with `Sessions`.
6. `Resources` (wallets, payment methods, beneficiaries). 7. `RateLimiter`.
8. `Routes` and `Api`: the pipeline in front of all of these, and the SDK's
   methods sent through it. 9. `Reports`: lists, statements, notifications.
10. `Files` and `Seeder`; proofs for 7 to 10.
11. Proofs for `Sessions` (rotation, one registration per address) and
    `SdkClient` (one refresh at a time, carried out once, implements
    `Sessions`); the missed events of `Webhooks`, overlapping seeders, walks
    through pages of any size, and the way of each SDK method to its handler.
12. `AbstractDelivery`, which `Webhooks` implements; the audit trail and the
    conservation of money proved, with the lemmas about sums they need.

## 3. The modules

| Module | Models | Composition |
|---|---|---|
| `BankOperations` | the operations clients ask of the bank, as the schemas admit them | extended by the next two |
| `AbstractLedger` | what the ledger promises: every request settles at once or never, and the answer tells which | instantiated by `Ledger` as `Bank` |
| `Ledger` | transactions, accounts and bulk services query by query | refines `AbstractLedger` |
| `LedgerInvariant` | the inductive invariant of `Ledger` | extends `Ledger` |
| `AbstractDelivery` | what webhooks promise to the reader of the history and to the receiver: no jobs, timers or crashes | instantiated by `Webhooks` as `Promise` |
| `Webhooks` | subscriptions, dispatch, delivery jobs | refines `AbstractDelivery` |
| `ApiKeys` | generation, revocation, authentication by key | |
| `Sessions` | registration, login, rotation, authentication by JWT, expiry | |
| `SdkClient` | `ApiClient`: calls, refresh, retry, timers | extends `Sessions`, whose `SessionsSpec` it implements: each leg of a call is a call of `Sessions` |
| `Resources` | wallets, payment methods, beneficiaries | |
| `RateLimiter` | both limiters as mounted, headers, clean-up | |
| `Routes` | the routers of both versions, how a request finds its route, the methods of the SDK | extended by `Api` |
| `Api` | parser, limiter, delay, guards, handlers' own answers | extends `Routes` |
| `Reports` | lists page by page, statements, notifications, above money operations that commit or abort | |
| `Files` | upload and download, disk and rows, registration | extended by `Seeder` |
| `Seeder` | `seed.ts`, any number of runs of it | extends `Files`: its `Next` is a step of a seeder or of the API |
| `MC...` | the instances TLC checks | extend the module they name |
| `...Proofs` | the theorems | extend the module they name; `AuthProofs` is about `Sessions` and `SdkClient`, `AccessProofs` about `ApiKeys` and `RateLimiter` |

No module is RECURSIVE. Operators introduced by a comment that starts with
"Slip" are deliberate wrong variants of the definition that follows them. No
specification uses them: `PROJECT.json` names, for each property, the slip
that breaks it.

### How the state corresponds to the code

**Ledger.** `op[r]` is the request, `pc[r]` the query its handler is about to
make (`check`, `checkDest`, `lock`, `funds`, `debit`, `credit`, `commit`,
`notify`, `answer`), `lock` the row locks of PostgreSQL, `status` and `balance`
the committed rows, `pending` the version of the transaction that holds the
row, `posted` the `transactions` table, `notified` and `announced` the side
effects after the commit. `Plan(o)` is the order in which an operation locks its
rows: sorted by id for transfers, as requested for bulk operations. A create of one
id is `POST /accounts`, of several `bulkCreate` (which never dispatches an
event). Account ids are random UUIDs, so an account is only created
once, and its `Owner` can be a constant. A lock timeout is answered by 503 or 500:
`isLockTimeoutError` recognises one of the two shapes in which Prisma reports it.
A crash acts at the moment PostgreSQL notices the lost connection and rolls
back. `AbstractLedger` lets `Close` take an account with money in it, since
`bulkDelete` does and `delete` can.

**Webhooks.** `dispatch`, `listed`, `todo` follow `dispatchEvent`; `row` and
`tries` are the delivery row, `job` and `attempt` its `deliverWebhook`. Find and
delete of a subscription are one step. The receiver either processes the event
or not, and answers 2xx, something else, or too late. `AbstractDelivery` keeps of
this what others see: `subs`, the history (`row`, `tries`), what was posted and
processed (`posts`, `acks`), and which deliveries are still `open`. Its `Abandon`
lets any delivery be given up, since a crash or an outcome that cannot be
recorded ends a job; that deliveries do settle while no process dies is a
liveness property of `Webhooks`.

**ApiKeys.** `candidates[c]` are the keys that `authenticateWithApiKey` has
found and not compared yet, first those with the prefix, then those without.
`validateApiKey` is called by no route and is left out.

**Sessions.** Users are never deleted and passwords never change in this code:
find and compare of a login are one step, and so is the authentication of a JWT.
`password[u]` is the hash in the users table: `Hash[w]` is what bcrypt makes of
password `w`, and two passwords may share it, since bcrypt reads 72 bytes of the
128 characters the validator admits. The INSERT and the answer of a call are one
step, here and in `ApiKeys`.
`fresh` are the tokens whose access token has not expired.

**SdkClient.** `step[t]` is the leg (`login`, `send`, `refresh`, `retry`) whose
answer call `t` awaits, `pair` the stored tokens, `refreshing` is `isRefreshing`.
A timeout gives a leg up; the server goes on with it.

**Resources.** A row is known by the call that inserted it. `QueryFails` is a
query that has no effect. `late` is a history variable: the calls about a
payment method that was linked when they were sent.

**RateLimiter.** Time is counted in ticks, `Second` of them to a second. `store`,
`Hit`, `Exceeds`, `Told` are the map, the counting, the comparison, the two
headers. `recent[b]` remembers the requests let through up to a window ago, each
with its number in its window, so that a burst is a cardinality. A `Patient`
address has one client, who waits as long as told.

**Routes.** A router is its mount path, the guards of `router.use`, and its
registrations in order; `Resolve` finds the first that fits, as Express does, and
returns the guards in front of the handler (also those a path without a route still
meets: an unknown path under `/accounts` is 401 before it is 404). A method of
the SDK is the verb and path it sends and the handler it is meant for.

**Api.** One step is what runs without an `await`: `Arrive` is everything from
`express.json` to the timer of the delay, `Release` the timer, then one step per guard.
`flaw` is the one thing wrong with a request: too large, malformed, a bad delay,
query, body or file. A handler's answer is a status it decides
itself; 200 stands for whatever its service does, which the other modules
model. `lapsed` is history: the credential was invalid when the delay let the
request go. Windows are counted, not timed (`NewWindow`): the delay is at most
half a window long, so that a window never ends over a request that was already
held when it began.

**Reports.** One account. `op[o]` is the transaction of a money operation
(`open`, `recorded`, `committed`); its row is stamped with an instant since it
began (`createdAt` defaults to `now()`) and appears at the commit. `walk` is a
client that follows `hasNext`; `FindMany` and `Count` are the two queries of a
page, in either order, and `Ordered` leaves rows of one instant in any order.
`asked` and `taken` are the statement under way and those answered;
`RangeStart` and `RangeEnd` are what `setHours` makes of a date that was parsed as
UTC midnight: a `zone` has an offset before and one after the instant its clock is
set, for daylight saving time, and `InstantOf` reads a local time as JavaScript
does, a repeated one the first time, a skipped one as if the clock had not been
set. A zone `KeepsDates` if its offset keeps its sign and its clock is not set from
one local day into another. `OnExactlyOneDay` is about these zones (UTC, Berlin,
New York); elsewhere it is false: in the Azores the offset crosses zero,
and where the clock is put back across midnight the repeated hour is behind the
end of one day and before the start of the next. `PastPeriodsAreFinal` and
`BalanceExplained` hold in every zone with one such change. A run has one reader,
since readers change nothing.

**Files, Seeder.** `db` holds the rows of every table, each with who created it
and the address of the user it belongs to; `disk` the files; `seeder[s]` the place
of a run in `ClearOrder` or `SeedOrder`. One row of each table per seeded user
stands for the lists of the script. A table filled by `Promise.all` is filled in
any order, a loop in its order.

## 4. What TLC checks

| Run | Instance | Distinct states | Shows |
|---|---|---|---|
| `ledger_safety` | 3 requests, 3 accounts, balances to 3, 13 operations | 163 066 | balances stay in their column; every balance is its opening plus what settled (`AuditTrail`); journal complete; deadlocks only with a bulk request that names its accounts out of order (they happen here: `bulkDelete` of 3 and 1 beside a transfer from 1 to 3); `resultingBalance` true |
| `ledger_bank` | 2 requests, 4 accounts, renames, bulk updates, a self-transfer, 1 crash | 74 653 | `Ledger` implements `AbstractLedger`; every request is answered |
| `webhooks_delivery` | 2 subscriptions, 1 event, 3 attempts, 1 crash | 630 859 | the history is true, one late post at most after a deletion, repeats only after a failing query, a subscription is missed only because of another's deletion, `Webhooks` implements `AbstractDelivery`, deliveries settle |
| `apikeys_keys` | 3 calls, 6 keys (two share a prefix, one legacy), limit 2 | 94 802 | revoked keys are refused, active ones accepted, the limit is exceeded by the calls under way at most |
| `sessions_users` | 3 calls, 2 users, 3 ways to type an address, 3 passwords of which two share a hash, 4 tokens, 1 crash | 144 945 | one registration per address wins, rotated tokens are refused, sessions stay with their user, none is lost but by a failure |
| `sdk_shared` | 2 calls on one client, 3 token pairs, 1 crash | 228 668 | one refresh at a time, calls carried out once, the client never strands itself, its use of the server is a behaviour of `Sessions` |
| `resources_rows` | 3 calls, 2 users, limit 1 | 41 139 | late links and deletions refused, each link the work of one call, overshoot bounded |
| `limiter_windows` | 2 addresses, 5 requests, 9 ticks, limits 2 and 1, windows of 4 ticks | 1 506 549 | at most `2 * limit - 1` in any window's length, `Retry-After` suffices |
| `api_pipeline` | 3 requests of 1 address, limit 1 per window, all 41 methods of the SDK, an administrator and a user, every flaw | 274 162 | roles and authentication hold for every handler, SDK methods meet theirs, held requests are judged when let go, at most two windows of them wait |
| `reports_reading` | 3 operations, days of 2 instants, 3 instants, 5 zones (behind UTC, ahead of it, put forward at midnight, put back to midnight, and from behind UTC to UTC), pages of 2, transactions of 1 instant, 2 statements | 1 879 845 | a walk errs only for a named reason, past periods are final, each transaction on one day where the zone keeps its dates, totals and received transfers are the balance |
| `seeder_overlap` | 2 seeders of 2 users, 1 registration, 1 upload, 1 download | 2 612 579 | one seed after the last success, clearing complete, downloads serve the owner's whole file |

The types of the modules are not run: they are theorems (section 5).

One run refutes what a document of the repository says; it is the finding:

| Run | The document | The code |
|---|---|---|
| `ledger_v_delete` | an account with a non-zero balance is not deleted (`design.md:836`) | the balance is read before the DELETE; a deposit in between goes with the account |

Other disagreements, which no run refutes but most of which a property bounds:

* *Money.* "Deadlock prevention via consistent lock ordering" (`README.md:32`)
  holds among transfers and operations on one account; bulk requests lock in the
  order they name the accounts, so that a transfer can be in a cycle with one, and
  PostgreSQL aborts one of the two with a 500 (`DeadlocksNeedBulk`). The
  notification is lost when its INSERT fails; a self-transfer records the balance
  between its two halves.
* *Sessions.* Invalid credentials get 401 (`requirements.md:50`), but a password that
  differs from the registered one behind byte 72 logs in: `registerSchema` admits
  128 characters, bcrypt reads 72 bytes (`Hash`; `OneRegistrationWins` speaks of
  passwords with one hash).
* *Resources.* A linked method is not linked to another wallet (`design.md:842`) and
  not deleted (`design.md:690`), unless the calls overlap: two links both find
  none, as the key is the pair, and a link made between the look and the UPDATE
  does not stop the deletion. `LateCallsRefused` is what holds.
* *Limits.* The limits of keys and payment methods can be exceeded by concurrent
  calls (the runs show by how many); the limiter runs before authentication and counts by
  address, where `requirements.md:197` speaks of each user; paths outside
  `/api/v1` and `/api/v2` are delayed without being counted.
* *Webhooks.* A deletion answers 204 and ceases the deliveries
  (`requirements.md:215`); the loop of a job does not look at its subscription, and a
  job under way posts once more after the 204, not more (`OneLatePost`). An INSERT that fails, because another subscription has just been
  deleted, ends the loop over the rest, which never hear of the event
  (`requirements.md:211`; `MissedForAReason` says that this is the only way);
  `requirements.md` speaks of three retries where the code makes three attempts.
* *SDK.* A second call that meets its 401 while a refresh is under way throws at
  once (`requirements.md:303` has every call retried); `requestRaw` and
  `requestMultipart` never refresh; a late refresh may overwrite the tokens of a
  newer login; `getTransactionByReference` cannot send the `accountId` its
  handler requires, so that it always ends in 400 (`SdkReachesItsHandler` states
  it); `bulkCreate` and `listUsers` are typed as arrays, the server wraps them in
  `data`.
* *Pipeline.* Malformed JSON is answered by 500; `POST /test/reset` resets nothing
  (`requirements.md:278`, `README.md:127`).
* *Statements.* A statement contains all transactions of its range
  (`requirements.md:145`), but a date is read in UTC and its hours set in local
  time: where the offset crosses zero, as in the Azores, a local day is named by
  no date in spring and by two in autumn, and where the clock is put back across
  midnight the repeated hour is on no day (`OnExactlyOneDay` is about the other
  zones). Just after midnight yesterday's statement may still grow; the
  transfers received are on no statement; in a zone behind UTC the dates named
  are those of the day before; an account deleted between look-up and query
  gives an empty statement with 200.
* *Seeder and files.* "Idempotent" (`README.md:120`) holds for runs that neither
  overlap nor stop while clearing; all foreign keys cascade, so that the order of
  the clearing does not matter but for the users at its end; `uploads/` has no
  volume in `docker-compose.yml` while the database has one; the disk is never
  cleaned.

### Bounds, and why they are enough

The races are between two handlers (check against act, lock against lock); a
third adds the one that waits, the third leg of a cycle or the successor of a
rolled-back one, which is why the safety runs have three. `MaxBalance` 3 puts
both ends of the column within reach of one or two operations. Two webhook
subscriptions make "the rest of the loop", three attempts are the code's own
number. Key and token pools are as large as the calls can consume, so that
nothing runs out. `MaxCrashes` bounds the only step that could be repeated without
end; the models only deepen by it, as after a crash nothing is under way. The
limiter's nine ticks hold two windows of four and the boundary after them;
`MaxSent` 5 is more than it takes to break the burst bound by one, and the limits
are 2 and 1 instead of 100 and 10: the counting does not depend on it. In
`api_pipeline` three requests of one address are one more than two windows of
one; the first ranges over every method, credential and flaw, since a request
influences another only through the counts and the credentials. In
`reports_reading` two deposits and a debit fill more than one page of two
and leave the funds check something to decide; days of two instants have a first
and a last one, an offset of one instant shifts half a day either way, clocks are
set in the middle of a local day and at its midnight, and the timeout of one
instant is what separates a final statement from one just after midnight; two statements are the least that can differ. `MaxSpan` 3 admits
every period of the model. Two seeders and two users give every overlap of a
clearing and a filling; the one registration takes an address of the script.
Calls, requests, deposits and seeders that are alike are symmetric in the safety
runs; no run with a liveness property uses symmetry.

`CHECK_DEADLOCK FALSE` is set everywhere: each call is sent once, and a system
that has answered everything, or whose time bound is reached, stops.

### Fairness

Only two runs have liveness properties. In `Ledger`, `FairSpec` asks for weak
fairness of each request's `Progress`: Node.js runs the callbacks that are due,
PostgreSQL answers what does not wait for a lock. No lock timeout, fault or
crash is ever required to happen, and nobody has to send a request. In
`Webhooks`, fairness is on the dispatch and the jobs: `fetch` is aborted after
ten seconds and every timer fires. Clients and crashes have none. The SDK, the sessions, the keys,
the resources, the limiter, the pipeline, the reports and the seeder are checked
for safety only.

## 5. What is proved

All proofs are checked by TLAPS to the last leaf; the constants are arbitrary
within the named assumptions of the modules (finite sets of calls where a
cardinality is spoken of, distinct null values, requests as the schemas
admit them).

* **LedgerProofs.** `LedgerInv` is inductive. `BalancesInColumn` alone is not: that
  a debit keeps a balance non-negative needs that the row is still locked by the
  request (`PlanInv`), that its pending version differs from the committed one by
  exactly what this request did (`PendingInv`), and that the funds were seen in
  that version (`FundsInv`). From it follow the types, the balances, the complete
  journal, isolation, `resultingBalance`, frozen deleted accounts, and that every step of
  `Ledger` is a step or a stutter of `AbstractLedger` (`LedgerImplementsBank`).
  `CyclesNeedBulk` is the ordered-locking argument by well-founded
  induction over account ids: if every transaction of a cycle took its rows in
  ascending order, one would wait for the least row, whose holder waits for a
  lesser one. Operations on one account and transfers ascend, a bulk request does
  unless it names its accounts out of order; so each cycle has such a request.
  `BalancesAddUp` proves the audit trail, that every balance is its opening plus
  what settled on it. It needs sums over an arbitrary set of requests: that a sum
  over a finite set exists, is unique and grows by one summand with one element
  follows by the smallest set for which it would not (`TotalExists`,
  `SumIsTotal`, `SumWithOneMore`). The settled requests are finitely many in every
  state, as each step settles at most one (`FiniteSettled`), and that step
  changes the balances by the postings of the request (`AuditPreserved`). The
  postings of a request over all accounts add up to its net, which is zero for a
  transfer; hence, for finitely many accounts, `MoneyIsConserved`: the money in
  the bank is what was there at first plus what was deposited, minus what was
  withdrawn.
* **WebhooksProofs.** An invariant that ties job, loop variable, row and history;
  from it the types, the truth of the history, the one late post and no repeat
  after success. For `EventsAreMissedForAReason` the invariant follows the loop
  (`ListingInv`): what was listed is still ahead or has its row, deleted
  subscriptions never come back, and the loop only ends early at one of them.
  `WebhooksKeepTheirPromise` is the refinement of `AbstractDelivery`: a job is
  never ahead of the history by more than the attempt under way (`OutcomeInv`),
  so that each post finds the one before it on record, and each recorded outcome is
  what the receiver made of it; whatever ends a job otherwise is an `Abandon`.
* **AuthProofs, sessions.** A token belongs to one exchange: the call between
  `Revoke` and `Issue`, or the one that was granted its successor; the unique
  index decides between two registrations, and a call sent with a rotated token
  finds it revoked. From this the types, `RegistrationIsDecided`, `RotationIsFinal`,
  `SessionsKeepTheirUser` and `SessionsEndForAReason`.
* **AuthProofs, SDK client.** An itinerary (`Itinerary`): which exchanges a call
  has behind it at each leg, and that its retry was only sent after a 401, so that
  two successes are impossible (`NothingIsDoneTwice`); whoever renews holds the
  flag (`OneRefresh`); and the token it holds is traced to the exchange that
  rotated it (`TheSessionIsKept`). `SdkImplementsSessions` is the refinement: an
  exchange that is sent is a call that `Sessions` receives, with a token the
  client was handed (`Requests`); what the client does by itself, giving up
  included, the server does not see.
* **AccessProofs, API keys.** Types, revoked keys, owners, active keys, and the exact
  overshoot of the key limit, by counting active keys and inserting calls together.
* **ResourcesProofs.** `ResourcesInv`: routes of the handlers, rows appear only
  with the answer, wallets never change hands, links never disappear. From it
  the types, late calls, one maker per link, unique beneficiaries. A user's active
  methods and the places of the calls that are past the count exceed the limit by less
  than the number of adding calls (`MethodsOvershootStaysBounded`), assuming that
  nobody starts beyond the limit.
* **AccessProofs, rate limiter.** The requests let through in the last window's length
  belong to two windows at most: those of the present entry are numbered up to its count, those
  of an earlier one lie before its start, and the first of them is too old. From
  this the bound `2 * limit - 1` (`BurstsStayBounded`), a cause for every
  refusal (`RefusalsHaveACause`) and the types; and every window left in the
  store ended after the last clean-up, hence `StoreStaysSwept`. What a client is told,
  rounded up to seconds, is never before the end of its window: hence
  `PatienceIsRewarded`.
* **ApiProofs.** A lemma about the tables of `Routes` (`auth` and `admin` stand in
  front of every handler they should, in that order), and the invariant that a
  request's authentication is ahead of it or done. With it
  `AccessHolds`, `CheckedAfterTheDelay`; and `DelayIsBounded` by counting held
  requests of the present window against `count` and those of the one before
  against the limit. `SdkMethodsReachTheirHandlers` evaluates the tables: mount
  paths exclude each other, so that a path enters one router; in it the route of
  each of the 41 methods is the first that fits; and what stands before it is
  one of seven rows of guards, of which a request without a flaw can only be
  refused by `auth` and `admin`, the latter with its own credential. That a
  request under a method's name is the method's is assumed (`SdkAssumption` of
  `Api`), as is that it has an `accountId` where the method can send one.
* **ReportsProofs.** Stamps lie between the beginning of a transaction and its
  commit, and a transaction commits within its timeout: so no row appears in a
  period that ended a timeout ago. The balance is what the journal and the received
  transfers sum to, as one row per operation. For `RowsHaveTheirDay`: in a zone
  that keeps its dates no local midnight lies between the two readings of the
  instant its clock is set at, so that an instant is past the midnight of day `k`
  exactly when its local day is `k` or a later one (`MidnightFacts`); hence the
  period of a date is one local day (`DayIsItsPeriod`), the one the date names or,
  behind UTC, the day before (`DateIsItsDay`), and no two dates name the same.
  For `WalksErrForAReason` a row has a rank, the number of rows that sort before
  it, and the pages read so far end at a rank (`WalkInv`): while no row leaves or
  comes and no instant is shared, the rank of a row stays, pages cover the ranks
  in order, and each is in one of them. A row that comes only pushes others
  back, which repeats rows and loses none but behind the last page; the ceiling
  of `totalPages` makes the last page reach the last rank.
* **SeederProofs.** Every row belongs to a user that is in the table, by the foreign
  keys and their cascades, and nobody becomes a user twice (`Keys`): so a seeder
  behind the clearing of users has left nothing of those it met, whatever came
  in meanwhile. A row of `files` has its file on the disk, whole, and its owner is
  the one who sent it (`Uploads`), which no later step undoes. For `OneSeedIsLeft`
  an address is in the table once, so that of two seeders that fill, one must
  fail unless the other has cleared (`OverlapInv`): what a seeder has created is
  intact, or somebody still clears, or its users are gone and a row it has yet
  to create, which needs one of them, will be refused.

Every safety property of the passing runs is a theorem. Model-checked only is liveness
(`EveryRequestAnswered`, `EveryDeliverySettles`): with `ENABLED` and fairness it is
beyond the prover.

## 6. Not modelled

Masking (a formatting of strings); the validation schemas beyond "good or not";
the PDF of a statement (a layout of the same data); CORS, compression, the
version header, the documentation pages; migrations, Docker and CI files;
reads that change no state and race with nothing (details, unread counts, the
caller's profile). UTC time that is set back, a second server process (the limiter
and the webhook jobs live in one) and a lost commit acknowledgement are outside the
models: a failing query has no effect in them. That the process dies between a
commit and its answer is modelled in `Ledger`; in `Sessions` and `ApiKeys` the
INSERT and the answer are one step, so that it is not. `Api` has one credential per request, where the
middleware prefers a bearer token over a key. `Reports` has one account and amounts
of 1; the rounding of sums of cents is not modelled.
