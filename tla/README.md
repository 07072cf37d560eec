# The BTG funds backend in TLA+

A FastAPI service (`app/`) lets clients of an investment company subscribe to
funds and cancel their subscriptions. Users sign up through AWS Cognito; users,
funds and transactions are three MongoDB (DocumentDB) collections; Terraform
(`terraform/`) builds the platform and a Lambda that seeds the funds. This
directory holds TLA+ models of it, the TLC runs that check them and TLAPS proofs.

Paths below are relative to the repository; `pymongo/` stands for the copy of the driver in
`terraform/lambda_build/pymongo/`.

## 1. Inventory

| Component | State it keeps | Operations | Where |
|---|---|---|---|
| Fund transactions | `users.balance`, `transactions` | subscribe, cancel | `app/routers/funds.py:84-196`, `app/repositories/` |
| Transaction log | `transactions` (append only) | find by user and fund, insert; the active subscription is recomputed from it | `app/repositories/transactions.py`, `funds.py:111-121` |
| Notifications | none | `send`, by e-mail (SES) or SMS (SNS) | `app/notifications.py` |
| Fund catalogue | `funds` (read only for the service) | by id, by category, all | `app/routers/funds.py:22-58`, `app/repositories/funds.py` |
| Transaction list | none | all transactions of the caller | `app/routers/funds.py:61-79` |
| Accounts | the Cognito pool, `users` | sign-up, confirm, login | `app/routers/auth.py`, `app/repositories/users.py` |
| Token check | none | accept or refuse an access token | `app/security/auth.py` |
| Fund seeding | `funds` | insert the five funds if there are none | `app/init_db.py`, `terraform/lambda_build/handler.py` |
| Configuration, connection | settings and one client, at import | read the secret, connect | `app/config.py`, `app/db.py` |
| Connection pool | idle connections, permits, generation of one server | check out, check in, reset, fill | `pymongo/pool.py` |
| Discovery | what each server said last, the pools | process an answer of a server or an error | `pymongo/topology.py`, `topology_description.py` |
| Platform | EC2 instance, container, DocumentDB, Cognito pool | replaced by Terraform | `terraform/*.tf` |

How they interact: the router calls the repositories, which call MongoDB through
one synchronous client; the two collections a subscription touches are written
one after the other, without a database transaction. The notifier is called last.
Sign-up writes to Cognito and then to MongoDB. The seeders write what the service
reads. Every storage call, of the service and of the Lambda, goes through the driver: the topology
selects a server and its pool gives a connection out. The application has no background
work of its own; the driver has a monitor thread per server and a thread that looks after the pools.

What is hard about it:

- **One event loop, blocking calls.** `create_transactions` is an `async def`
  without an `await` (`funds.py:85`). A process therefore runs one handler at a time,
  from its first database call to its answer, and its check-then-write sequence is
  atomic with regard to other requests *of that process* only.
- **Two processes.** `terraform/compute.tf:25-27` creates the new instance before
  it destroys the old one: for a while both serve the same database.
- **No record of the state.** Whether a user is subscribed is decided on every
  request from the whole history, sorted by wall-clock time (`funds.py:111-121`).
- **Two writes.** Balance first, transaction second (`funds.py:141,150` and `164,176`);
  an exception, a lost acknowledgement or a crash falls in between.
- **Errors after success.** The notifier runs after both writes (`funds.py:151`).
- **Check, then insert**, in `create_user` and in both seeders.
- **Invocations nobody watches.** Terraform invokes the Lambda once, waits less than it may
  take, repeats the call and reads no answer (`mongo.tf:299-316`).
- **Threads on two conditions.** Checkouts wait for a permit and then for a connection, with and
  without a time limit, while resets, failures and a background thread change what they wait for.
- **Servers that contradict each other.** Each says who is primary and who belongs to the
  set; answers and errors come late and in any order.

What makes each component correct: a user has at most one subscription in force
for a fund; balance and holdings add up to the initial balance; no money is spent or
refunded twice; an answer tells the truth about the database; every request is
answered. For accounts: an account that can log in has one readable user document. For
seeding: the five funds, once each. For the pool: nothing leaks, the limits hold, nobody waits for
what is there. For discovery: at most one primary, the newest, is believed, and it is found.

## 2. Plan

| # | Module | Content | State |
|---|---|---|---|
| 1 | `Ledger` | the log and the closed form of the scan | done |
| 2 | `FundTransactions`, `MCFundTransactions` | the core: every call of `create_transactions`, several processes, faults | done |
| 3 | `Portfolio` | abstract specification: cash and holdings, whole operations, and the variant that survives failures | done |
| 4 | `LedgerScan` | the literal sort and loop against the closed form | done |
| 5 | `LedgerProofs`, `FundTransactionsProofs` | the inductive invariant for any number of processes and any fault | done |
| 6 | `OneProcessProofs` | one process with a clock that is not set back: one subscription at a time, cancellations of what was subscribed | done |
| 7 | `PortfolioProofs` | under the same hypothesis, the refinements of `Portfolio`, and from them that the books balance | done |
| 8 | `Accounts`, `MCAccounts` | sign-up, confirm, login, token check, the caller's document; errors and crashes between Cognito and MongoDB; documents without a phone | done |
| 9 | `FundSeeding`, `MCFundSeeding` | both seeders, what starts and interrupts them, and the catalogue reads; stale secondary reads, overlapping invocations, partial and abandoned inserts | done |
| 10 | `AccountsProofs` | types, `DocumentsMatchAccounts`, `EmailsAreFree`, `OrphansStay` and `SignedUpAreFound` for any number of processes and any fault | done |
| 11 | `FundSeedingProofs` | what seeding guarantees, for any number of runs and funds and any fault | done |
| 12 | `ConnectionPool`, `ConnectionPoolProofs` | the driver's pool: threads, conditions, resets, background thread | done |
| 13 | `Discovery`, `DiscoveryProofs` | the driver's view of the servers | done |

The core comes first because it moves money; proofs follow each module once TLC agrees; the
driver comes last, because the models above take from it only that a call returns, raises or does both.

Two compositions that suggest themselves are left out. One of `Accounts` and `FundTransactions`
meets in `db.users` only: `create_user` inserts documents and the transactions change their balance, which
`Accounts` does not read. `FundTransactions` starts from any set of users, absent ones and ones without a
phone included; what it does not have is a document that appears between two requests of its user, which can only turn a
404 into the answer that a request made later would have got. One of `ConnectionPool` and `Discovery` would multiply
two state spaces that meet in three calls (`ready`, `reset`, `close`), which each module takes from the
other in any order (`Topology` in the one, `pools` in the other).

## 3. Modules

**`Ledger`** holds operators on a log, a sequence of transactions in insertion
order (the position is the `_id`). `History` is the query of
`get_transactions_by_user_and_fund`; `ActiveSubscription` is what the stable sort and
the loop compute: the latest transaction of the history, if it is a subscription.
`0` stands for Python's `None`.

**`LedgerScan`** is the same computation as the code does it, with a sort and a fold,
on every log that `FundTransactions` leaves, those with equal and decreasing timestamps included.
`SortedHistory` is given by what a stable sort returns and not by how: the one sequence of the
positions in the history in which none comes after a later one. Between equal timestamps positions
decide, so that there is exactly one.

**`FundTransactions`** models the endpoint. The state:

| Variable | Code |
|---|---|
| `users` | `db.users` by Cognito subject; a missing phone is a flag |
| `transactions` | `db.transactions` |
| `sent` | the notifications that reached SES or SNS |
| `clock` | `datetime.now()` of each process |
| `loop` | which handler each event loop is in |
| `pc`, `request`, `local` | where each request is, what it asks, its local variables |
| `response` | status and transaction of each answer |

The actions, in the order of the handler:

| Action | Code |
|---|---|
| `Receive` | token and body accepted (`security/auth.py`, `TransactionIn`) |
| `FindUser` | `get_user_by_cognito_id`; 404; 500 for a document without phone |
| `FindFund` | `get_fund_by_id`; `ObjectId` raises on a malformed id (500); 404 |
| `FindTransactions` | history, sort, scan and every 400 (`funds.py:111-136,157-159`) |
| `UpdateBalance` | `update_user_balance`, then the draft with its timestamp |
| `Insert`, `FindInserted` | the two calls of `create_transaction` |
| `SendMessage` | `send_message` and the notifiers |
| `DatabaseError`, `LostReply`, `Crash`, `SetClockBack` | what the environment can do, enabled by `Faults` |

`update_user_balance` makes two calls, a `find_one` and an `update_one`; nothing
deletes users, so that the first has no effect on the second and the pair is one
step. Answers other than 200 are kept by status only. Fund ids are strings: `"a"`
and `"A"` in the runs are two spellings of the hexadecimal id of one fund, which
`ObjectId` identifies and the queries do not. No code of the repository writes
`notif_options = "sms"`, which the schema admits and `send_message` handles: such a
document comes from outside (`create_user` always writes `"email"`), and only
`OneProcessFaults` contains one.

**`Accounts`** models the life of an account, which is in two places. The state:

| Variable | Code |
|---|---|
| `pool` | the Cognito user pool: subject, password and confirmation of each e-mail |
| `users` | `db.users` in insertion order: what `create_user` writes |
| `sessions` | the subjects an access token was issued to |
| `loop`, `pc`, `request`, `response` | as in `FundTransactions` |

| Action | Code |
|---|---|
| `Receive` | a body of the right schema, or a bearer token, reaches a process |
| `SignUp` | `cog.sign_up`; a `ClientError` is a 400 |
| `FindEmail` | `create_user` looks for the e-mail; its `ValueError` is not caught, 500 |
| `InsertUser` | `insert_one`, then `UserOut`, which a document without phone is not: 500 |
| `Confirm`, `Login` | `confirm_sign_up`, `initiate_auth` |
| `CheckToken` | `get_current_user`, a dependency that runs in a thread and not on the loop |
| `FindUser` | `get_user_by_cognito_id`, 404, and the answer |
| `CognitoError`, `CognitoReplyLost`, `DatabaseError`, `DatabaseReplyLost`, `Crash` | what the environment can do, enabled by `Faults` |

The subject of an account is the sign-up that made it: no code deletes accounts, so that each
sign-up makes at most one. A token is identified with the subject it was issued to. It is
accepted or, once expired, refused with a 401. The bearer `None` is a forged or malformed token (401)
or a request without one, to which `HTTPBearer` answers 403.
The pool is modelled from what the code asks of it and what `cognito.tf` declares: it refuses a
known e-mail and a weak password, confirms once, and lets in by the flows that the app client
allows (`AuthFlows`). That it takes a sign-up without attributes is an assumption: `cognito.tf`
declares `email` required and the code sends none (`auth.py:47-52`).
The list of transactions that follows `FindUser` changes nothing and is left out.

**`FundSeeding`** models how `funds` is filled. What can go wrong (`conditions`) is chosen at the start, so
that one run covers every combination. The state:

| Variable | Code |
|---|---|
| `funds`, `replicated` | the collections on the primary, and what the secondaries have of them; a document is the run that inserted it and the fund |
| `batches` | the `insert_many` commands that the primary is working on |
| `pc`, `outcome` | where each invocation of the Lambda and each run of the script is, and how it ended |
| `provisioner` | what `null_resource.invoke_seed` waits for |

| Action | Code |
|---|---|
| `Start`, `Provision`, `Applied` | by hand; `aws lambda invoke`, again if it stopped waiting; the resource is created whatever the answer (`mongo.tf:299-316`) |
| `GetSecret`, `Connect` | `get_secret`; `MongoClient` and `ping`, which an unescaped password prevents (`handler.py:35`) |
| `Count`, `Insert`, `Reply` | `count_documents`, answered by a secondary for the Lambda; `insert_many`; its answer |
| `Fail` | any call raises, or the run is stopped; the primary goes on |
| `InsertNext`, `Failover`, `Replicate` | the database: one document after the other, a primary that stops, replication |

`GetFunds`, `GetFundsByCategory` and `GetFundById` are what the three reads of the service answer about
that state. The script spells the keys of a fund in Spanish, which `FundsOut` does not know
(`HasKeys`).

**`ConnectionPool`** models the pool of one server. A connection is known by the generation
it was made in. The state:

| Variable | Code |
|---|---|
| `state`, `generation`, `conns`, `pending` | the fields of the same names (`gen`, `_pending`) |
| `requests`, `active_sockets`, `operation_count` | permits, connections given out, checkouts begun |
| `pc`, `conn`, `broken` | where each checkout is, its connection, whether an error closed it |
| `asleep`, `expired` | the waiters of both conditions, and those whose wait timed out |
| `sweep`, `reference`, `made` | `remove_stale_sockets`, which the background thread runs |

| Action | Code (`pymongo/pool.py`) |
|---|---|
| `Enter`, `TakePermit`, `PermitTimeout`, `CountActive` | `_get_conn` up to `active_sockets` |
| `TakeConnection`, `ConnectionTimeout`, `CheckPerished` | its loop: an idle connection, or the right to open one |
| `OpenSocket`, `Handshake`, `GiveUp` | `connect`, and what each failure gives back |
| `Break`, `Checkin`, `PutBack`, `Release` | the operation, and `checkin` |
| `Ready`, `Reset` | `ready`, `reset` and `close` |
| `StartSweep` ... `SweepLeave` | `Topology.update_pool`, `remove_stale_sockets` |

Each action is a stretch under the pool's lock, or a read without it (`Checkin` reads `closed` and
`conn.closed` before `PutBack` takes the lock). Each checkout is made once, and the resets
are bounded by `MaxResets`. Python's conditions wake waiters in the order of their arrival; the model
wakes any. Left out: forks, load balancers, pinned connections, events.

**`Discovery`** models the topology of one client with one seed, as every URI of the repository has.
The state:

| Variable | Code |
|---|---|
| `topology_type`, `replica_set_name`, `max_set_version`, `max_election_id`, `sds` | the `TopologyDescription` |
| `pools` | of each server, whether its pool is ready |
| `opened` | the client was not closed |
| `modern` | the servers' wire version, which decides how elections are compared |
| `cluster` | what servers answer from some time on, for liveness |

| Action | Code |
|---|---|
| `Report` | `on_change`: an answer to `hello`, or a failed one, from any server, in any order |
| `NotPrimary`, `ConnectionFailure` | `_handle_error` |
| `close` | `close` |
| `Settle` | the servers stop changing |

`Report`, `NotPrimary` and `ConnectionFailure` go through `ProcessChange`, whose disjuncts are the branches of
`updated_topology_description`: `FromAny`, `FromShard`, `FromNonMember`, `FromMemberWithPrimary`,
`FromMemberNoPrimary`, `FromPrimary`, `FromStalePrimary`, `FromForeignPrimary`. Errors that are dropped
(of an older generation, write errors, timeouts of an operation) change nothing and are no action.
Left out: SRV records, load balancers, direct connections, the cluster time, and the wait of
operations for a server, which only reads. All servers are taken to be of one wire version.

**`Portfolio`** is the promise: cash and holdings of each user, `Subscribe` and
`Cancel` each in one step. `LossySpec` adds `Interrupted`, the cash half of an
operation without the other. `FundTransactions!P` is the refinement mapping: an operation
takes effect when its transaction is inserted, so that `Cash` is the balance before the
write while a request is between its two writes.

## 4. Runs

Amounts are in units of 100 000 pesos: the initial balance is 5.

| Run | Instance | Shows |
|---|---|---|
| `OneProcessNoFaults` | 1 process, 4 requests, 2 users, 2 funds, subscriptions of 3 and 4 | `TypeOK`; `BooksBalance`; the service implements `Portfolio!Spec` |
| `OneProcessFaults` | 1 process, 4 requests, 1 user, 1 fund, amounts 2 and 3; database errors, lost replies, crashes, failing notifiers | `OneSubscriptionAtATime`, `CancelsRefundTheirSubscription`; `FailuresExplainTheBooks`: the balance and the funds are off by no more than what failed requests moved; `Portfolio!LossySpec` |
| `TwoProcesses` | 2 processes, 3 requests, every fault | `BalanceNonNegative`, `AcknowledgedAreRecorded`, `RefundsWerePaid`; `ScanFindsActiveSubscription`: the loop finds the subscription `Ledger` says is active |
| `Answers` | 1 process, 2 requests, 2 users, every reason to refuse, unknown and malformed ids, every fault, weak fairness | `EveryRequestAnswered`, `NotifierFailuresAreHarmless` for e-mail |
| `AccountsFaults` | 2 processes, 4 requests of any kind, 1 e-mail, every fault | `TypeOK`; `DocumentsMatchAccounts`; `EmailsAreFree`; `SignedUpAreFound`; `OrphansStay` |
| `Seeding` | 2 invocations of the Lambda, 1 run of the script, 2 funds, every combination of 6 conditions | `TypeOK`; `SeededOnce`; `InsertedAreServed`; `AppliedMeansSeeded`; `SettledStays`; `SeedingCompletes` |
| `Pool` | 3 checkouts, 2 permits, 1 right to open, `minPoolSize` 0 and 1, 1 reset or close | `TypeOK`; `CountersAddUp`; `ConnectionsAreBounded`; `IdleAreFresh`; `NoLostWakeUp`; `EveryCheckoutEnds` |
| `Discovery` | 3 addresses, 17 answers, old and new servers, with and without `replicaSet` | `TypeOK`; `OnePrimary`; `OnlyNamedServers`; `SelectableIsReady`; `PrimaryIsNewest`; `ElectionsOnlyGrow`; `PrimaryIsFound` |

Why the bounds are enough: four requests of one process make subscribe, cancel,
subscribe, cancel, or a failed operation with two retries and one more; the hazards of two
processes need two handlers, and the third request adds what comes before or after them. Two
clock values give equal, increasing and (with `SetClockBack`) decreasing timestamps. The two
funds cost 3 and 4 of 5, so that the second subscription depends on the first.
Four requests are also what an
account needs to be signed up, confirmed, logged in to and read, or signed up again at any
point of that; one e-mail suffices because e-mails meet only in `FindEmail` and `Enrol`, which
compare them.
`OneProcessFaults` has one user, whose four requests can fail in every combination; that failures of
one user cost another nothing is the part of `FailuresExplainTheBooks` that only the proof covers.
Three runs of seeders make every pair that can overlap and one that comes after; two funds make a
batch that can stop halfway. Three checkouts make two that wait for one, or one for a permit and
another for a connection, while the third gives something back; with a second reset (`MaxResets = 2`, a million
states) the same properties hold, and the proofs do not bound resets. Three addresses make an old primary, a new one and a server that only one of them names; two
elections and two versions of the set can be ordered in each of the two ways.
Requests are symmetric in the runs without liveness. Deadlock is not checked where models may stop:
every request is done (and the clocks are at `MaxClock`), every seeder has run, the client is closed or
has no server left. `Pool` never stops, and deadlock is checked.

Four runs show where the code does not do what its comments say. Each is a
counterexample TLC finds to one property:

| Run | What happens |
|---|---|
| `TwoProcessesSubscribeTwice` | both processes find no active subscription, both insert one (`funds.py:125`) |
| `TwoSpellings` | one fund, two spellings of its id, two subscriptions (`funds.py:112,125`) |
| `RefundTwice` | the refund is written, the insert fails, the client cancels again (`funds.py:161-176`) |
| `LocalSeed` | the script inserts funds whose keys the service cannot read; `GET /funds/` answers 500 (`init_db.py:16`) |

Variants of the runs show more limits, and are not listed. With two processes and two
funds `BooksBalance` and `FailuresExplainTheBooks` fail: both requests check the same balance, and one `$set` overwrites the other
(`users.py:74`). With `"clock"` among the faults of `OneProcessFaults`,
`CancelsRefundTheirSubscription` fails: a cancellation stamped before its subscription does not end it
(`funds.py:113`). With `NotifOptions = {"sms"}` in `Answers`, `NotifierFailuresAreHarmless` fails:
`SMSNotifier` raises where `EmailNotifier` returns `False` (`notifications.py:87`). With
`AuthFlows = {}`, which is what `cognito.tf:43` says for the password flow, no request of `Accounts` logs in,
because `login` asks for that flow (`auth.py:106`). A sign-up without a phone, which `schema/auth.py:8`
admits, leaves an account and a document and is answered with a 500 (`users.py:57`).
Without the condition on `conditions`, `SeededOnce` fails for two runs that overlap and for a stale count; without
its exception it fails for a run that gives up on a batch the primary goes on with (`socketTimeoutMS`,
`handler.py:42`). `AppliedMeansSeeded` has no condition: it says which answer, that Terraform does not
read, must have told of a collection that stays incomplete. Two facts about the driver: `operation_count`
is not decremented when a checkout fails (`pool.py:1866`), as `CountersAddUp` says; and with
`minPoolSize` above 0 `EveryCheckoutEnds` fails, because `remove_stale_sockets` adds a connection and frees the
right to open one and notifies once (`pool.py:1651-1658`): with `MaxPoolSize = 3`, of two waiters one takes the
connection, which breaks, and the other sleeps for ever. No URI of the repository sets it.

**Fairness.** `Answers` assumes `WF_vars(Handler(r))` for each request. A handler
that has begun goes on because no other code runs on its event loop; one that is queued
is taken up because asyncio runs ready tasks in order and the requests are finitely
many. It assumes that a blocking database or AWS call returns or raises, which the code leaves to the
drivers' own timeouts. Clients are not assumed to send anything, and `Crash` answers for requests by
dropping them. `Seeding` assumes that the next call of a run is made and that the
primary goes on with what it was sent; nobody is assumed to start a run, and failures, failovers and replication
need not happen. `Pool` assumes that each thread that can go on is scheduled (`Advance(t)`, `Sweep`), an operation on the
network included, which `connectTimeoutMS` and `socketTimeoutMS` or the server end; no wait is assumed to time out, no
connection to break and the topology to do nothing. `Discovery` assumes `WF_vars(Report(a))`: each monitor asks
again after `heartbeatFrequencyMS`; `Settle` need not happen, and `PrimaryIsFound` speaks of when it did.

## 5. Proofs

`FundTransactionsProofs` proves, for every number of processes, requests, users and
funds, every body and every set of faults:

| Theorem | Property |
|---|---|
| `TypeCorrect` | `TypeOK` |
| `BalancesNonNegative` | `BalanceNonNegative` |
| `RefundsPaid` | `RefundsWerePaid` |
| `AcknowledgementsRecorded` | `AcknowledgedAreRecorded` |
| `ScanFinds` | `ScanFindsActiveSubscription` |
| `NotifierFailuresHarmless` | `NotifierFailuresAreHarmless`, if `"sms"` is not in `NotifOptions` |

All but the last two follow from one inductive invariant, `IInv`. `TypeOK` is not inductive by itself:
that `UpdateBalance` writes a number depends on what `FindTransactions` validated. For each
point of the handler `RequestOK` says what is known there: the request (`Accepted`),
the user and their balance at that time (`UserFound`), the fund (`FundFound`), the validated amount or
the subscription to cancel (`Validated`), the draft (`Drafted`), the inserted document
(`Inserted`). `HeldOnce` says that no two requests hold one `_id`. `Validated` speaks of the
balance *read*, not of the balance stored, which is why it survives other processes.
That a non-empty history has a latest transaction, without which the scan would have no answer, needs
no invariant: `LatestFound` has it from the type of the log.

`ScanFinds` compares two algorithms, the loop over the sorted history and the closed form of
`Ledger`. `CanBeSorted` says that a sorted history exists, so that the `CHOOSE` in `SortedHistory` has a
value; `LastIsLatest` that its last element is the latest transaction; `ScanLooksAtLast` that
the loop ends with what the last element says, because each round overwrites what the one before it kept.
For `NotifierFailuresHarmless`, `OptionsInvariant` says that requests change no user's `notif_options`, so that the
notifier that re-raises is never the one called. With `"sms"` the property is false (section 4).

`RequestFrame` and `OthersFrame` show that what is known of a request survives the
steps of others; they need only that documents do not disappear and transactions do not change.
`LedgerProofs` has the facts about logs, and before them those about sums and sorted sequences that
need induction. The library states induction for a predicate, which the provers cannot instantiate; but
that a non-empty set of naturals, or of subsets of a finite set, has a minimal element is a fact about
sets (`WFMin`), and the set of counterexamples is one. `NaturalsInSet` and `SubsetsInSet` say that much,
and the other lemmas rest on them: `LatestInFinite` and `CanBeSorted`; `FoldExists`, that the recursive function
by which the community modules define a sum exists; `TotalChange`, that a sum changes by what one of its
terms changes, and `TotalsAgree`, that it is determined by them; `TotalBounds`, that no term exceeds it. The assumptions are `ConstantsAssumption` (bodies
have the type pydantic gives them, minimum amounts are positive as in both seeders) and
`NoneAssumption` (the sentinel is not a value).

`OneProcessProofs` adds the hypothesis `OneProcess`: one process serves the database and
`"clock"` is not among the faults. Without it the two properties are false
(`TwoProcessesSubscribeTwice`, and section 4 on clocks). Every other fault is allowed.

| Theorem | Property |
|---|---|
| `OneSubscription` | `OneSubscriptionAtATime` |
| `CancelsRefund` | `CancelsRefundTheirSubscription` |

`OInv` strengthens `IInv` by what the single event loop gives. `LoopTaken` says that a handler
under way owns the loop of its process, from which lemma `Alone`: no other is under way.
`LogInOrder` says that the log is sorted by timestamp and not ahead of the clock; in a
sorted log the scan finds the last transaction of the history (`SortedActive`).
`StillTrue` says that what the handler read has not changed since: the user until the
balance is written, the active subscription until the insert. `DraftLatest` says that the draft is
stamped no earlier than anything recorded. The only step that matters is then the insertion
(`LogInsert`): the new transaction follows the last of its history (`AppendFollows`),
which is the subscription the handler found, or a cancellation.

`PortfolioProofs` proves the refinements from `OInv`, and from them that the books balance:

| Theorem | Property | Beside `OneProcess` |
|---|---|---|
| `ImplementsLossy` | `ImplementsLossyPortfolio` | |
| `Implements` | `ImplementsPortfolio` | `Faults = {}` |
| `BooksAreBalanced` | `BooksBalance` | `IsFiniteSet(FundIds)` |
| `FailuresExplain` | `FailuresExplainTheBooks` | `IsFiniteSet(FundIds)`, `IsFiniteSet(Requests)` |
| `RefundsBounded` | `RefundsAtMostWhatWasPaid` | `IsFiniteSet(FundIds)`, `Faults = {}` |

`CashValue` says what the `CHOOSE` of the refinement mapping yields: at most one request is
between its writes, by `Alone`. `SoundWhenValidated` says that a request past its validation
is an operation the portfolio allows. `InsertTakesEffect` maps an insertion, acknowledged or not, to a
whole operation; `InterruptedMapped` maps what ends a request between its writes to
`Interrupted`; `CashQuiet` and `Invisible` map every other step to a stutter. Both theorems
follow from the one lemma `StepMapped`.

`BooksBalance` is not inductive: it says nothing while a request is between its writes. `Balanced` is its
inductive form: it speaks of `Cash`, the balance before an operation that is not yet recorded, and so
holds there as well; TLC checked it as an invariant on both instances of one process first. The proof uses no step of the
service but the step of the portfolio it maps to: a whole operation moves between the cash and one holding
(`NextExchanges`), so that the sum stays (`ExchangeBalances`); a half one, which `Half` ties to an answer that
tells its user of a failure, disturbs no other user (`InterruptedExchanges`). `FailedStays` and
`UsersStay` say that neither an answer nor a user disappears. `IsFiniteSet(FundIds)` is there because `Invested` is a sum over `FundIds`,
and a database has finitely many funds.

`FailuresExplain` says what becomes of the books when requests do fail. `Accounted` is its inductive form, again
with `Cash`: for each request there is an amount, nothing or what that request left without a record, and these amounts
are what the books are off by (`OffBy`). A step that `Portfolio` takes whole leaves them as they are; `Interrupted` ends the
request that was between its writes with an error (`Half`), which had no amount until then (`Broken`), and whose amount becomes
what it moved (`BrokenIsUnrecorded`). Answers do not change and transactions stay, so that an amount
once given remains explained (`UnrecordedStays`). The sum over requests needs them to be finitely many. `RefundsBounded` is the other side of `RefundTwice`: without a
failure no balance exceeds the initial one, in the middle of a cancellation either, when the refund is written and
its transaction is not, because what is refunded is one of the holdings that `Balanced` adds up.

`AccountsProofs` proves, for every number of processes, sign-ups and e-mails, every password policy,
every set of allowed flows and every set of faults:

| Theorem | Property |
|---|---|
| `AccountsTypeCorrect` | `TypeOK` of `Accounts` |
| `DocumentsMatch` | `DocumentsMatchAccounts` |
| `EmailsAreFreeForTheirOwners` | `EmailsAreFree` |
| `OrphansAreNotAdopted` | `OrphansStay` |
| `SignedUpUsersAreFound` | `SignedUpAreFound` |

That documents match accounts is not inductive: the insertion is safe because of what Cognito
did two calls earlier. `UnderWayOK` carries that over: a sign-up past `SignUp` owns the account of
its e-mail, which has no document yet. `PoolOK` says that an account is of the sign-up with
its e-mail, so that two documents of one subject would have one e-mail; `SessionsOK` that
tokens are of such accounts; `AnswersOK` that a sign-up answered with a 200 has the document it named. The
step lemmas are by effect and not by action: `ReceiveStep`, `EnrolStep`, `InsertStep`,
`FindEmailContinues`, `CheckTokenStep`, and `QuietStep` for every step that makes no account and no document.
`EmailsAreFree` follows from `UnderWayOK` and the same comparison of e-mails: as long as e-mails are accounts of
the pool, the check in `create_user` protects nothing that Cognito has not protected before. `ConstantsAssumption` of `Accounts`
asks only that `None` is not a subject, an account or a process, and that the subsets are subsets.

`FundSeedingProofs` proves, for every number of runs and funds and every set of conditions:

| Theorem | Property |
|---|---|
| `SeedingTypeCorrect` | `TypeOK` of `FundSeeding` |
| `OneSeeder` | `SeededOnce` |
| `InsertedFundsAreServed` | `InsertedAreServed` |
| `AppliedIsSeeded` | `AppliedMeansSeeded` |
| `LambdaFundsAreListed` | `SeededFundsAreListed`, if `Scripts = {}` |
| `SettledIsFinal` | `SettledStays` |

`OneAtATime` and `BatchesOK` say who can be inserting: the run under way, or, if calls can fail, one that answered an error. `OnlyInserter` carries the count over to the insertion: where runs do not overlap and
counts are not stale, a run that found nothing shares the database with nobody but runs that answered an error.
`AppliedIsSeeded` assumes nothing about overlap and staleness. `BatchesArrive` says that a batch that is over is in
the database, if nothing fails; `NothingMissing`, that a run that is over leaves its database full, because it
inserted or found a document of some run, or somebody knows why not (`Accountable`): a run of that
database that answered an error, or, with overlap, one that still waits for its insertion.
`LambdaFundsAreListed` is the other side of `LocalSeed`: without the script
every stored document has the keys that `FundsOut` reads.

`ConnectionPoolProofs` proves, for every number of checkouts, every `maxPoolSize`, `maxConnecting` and
`minPoolSize`, and every number of resets:

| Theorem | Property |
|---|---|
| `PoolTypeCorrect` | `TypeOK` of `ConnectionPool` |
| `NothingLeaks` | `CountersAddUp` |
| `MaxPoolSizeBoundsConnections` | `ConnectionsAreBounded` |
| `ResetsLeaveNothingOld` | `IdleAreFresh` |
| `WakeUpsAreNotLost` | `NoLostWakeUp` |

That a counter stays within its range follows from what it counts, so that types come last: `IInv` has the shapes
(`Shape`), the counters, the bounds and the generations of everything under way (`Generations`). Each step moves
one checkout from one place to another; `MovedHolds` and `Weights` say by how much that changes each number of
threads, once for all steps (`Delta`). `Generations` says of a connection under way when the pool was closed that
it is older than the pool, which is why `PutBack` drops it. `WInv` adds who sleeps (`Sleepers`): while one does, as many
are awake at the same place as there is to be had. A step that makes one more thing available wakes one
(`Awakened`); a step that takes one is of a thread that was counted.

`DiscoveryProofs` proves, for every number of servers, every set of answers and both ways of comparing
elections:

| Theorem | Property |
|---|---|
| `DiscoveryTypeCorrect` | `TypeOK` of `Discovery` |
| `AtMostOnePrimary` | `OnePrimary` |
| `OnlyMembersAreUsed` | `OnlyNamedServers` |
| `SelectablePoolsAreReady` | `SelectableIsReady` |
| `NewestPrimaryIsBelieved` | `PrimaryIsNewest` |
| `ElectionsAreRemembered` | `ElectionsOnlyGrow` |

The invariant is `Beliefs` (the description), `PoolPerServer` and `SelectableIsReady`. `Alone` is what is missing for
induction: as long as the topology is of no kind there is only the seed, so that no primary is left over
when it becomes a replica set. There is one lemma for each branch of `updated_topology_description`; those that
only take servers away or forget them share `Lessened`. `Effect` is what they say to the pools: what is believed
of the server is what it said, at most, and of no other server anything better than before. `ChangeKeeps` puts them
together. `ElectionsAreRemembered` needs both comparisons: that of older servers is no order
as long as one field is missing, and a case split on the missing ones shows that nothing is lost.
The assumption about the answers (`ConstantsAssumption`) is that a member names its set, as `_get_server_type`
sees to, and names addresses.

Model-checked only is liveness, which needs `ENABLED`: `EveryRequestAnswered`, `SeedingCompletes`,
`EveryCheckoutEnds`, `PrimaryIsFound`. Of the properties that four runs refute, three are proved where they do hold:
`OneSubscriptionAtATime` for one process, `RefundsAtMostWhatWasPaid` without failures, `SeededFundsAreListed` without the
script. For `OneSubscriptionPerFund` there is nothing to prove: if no two spellings name one fund it says `f = f`.

## 6. Not modelled

Of the application: message texts and HTTP wording; the signature check of tokens (a library); CORS and router
wiring (`main.py`), which keeps no state; the list of transactions, which changes none; reading the
secret and the settings, which happens once at import (the comment at `db.py:27` says that the secret is the
connection string, `mongo.tf:340` stores the password alone: `MongoClient` takes it for the name of a host, the
process starts, and every operation fails when no server was found in time); the
declarative parts of Terraform; `init.sql` and `query.sql`, a separate exercise on another schema.

Of the bundled packages: all but 1 500 of the 70 000 lines of code are `pymongo`, `bson`, `dns` and `gridfs`, copied into the
Lambda's zip. Two parts of them decide how the application behaves when servers or connections
fail, and are modelled. The rest is the wire protocol, the encoding of BSON, options and credentials, which are
conversions; cursors, sessions, transactions, bulk writes, change streams, encryption and GridFS, of which the
application uses single commands and one `insert_many`; and DNS, which URIs without `+srv` do not use. A model of
those would say nothing about this program. The models therefore cover most of the application and a small
share of all lines.
