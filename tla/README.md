# Fluxeme gateway: TLA+ specifications

Fluxeme is an AI gateway: it authenticates a request, checks its quota, reserves
what it may cost, forwards it to one of several upstream endpoints, streams the
answer back, and charges for what was used.  Several gateway instances share one
PostgreSQL database, one Redis and one ClickHouse; two web applications manage it,
and a skill hub publishes skills that a runtime on every instance serves.  This
directory holds TLA+ models of its stateful parts, the TLC configurations that check
them on small instances, and TLAPS proofs of the properties that matter most.  Paths
below are relative to the root of the repository (`src/` is the Rust gateway,
`crates/` its libraries, `ui/packages/` the web applications).

| Module | Models | Uses | Proofs in | Runs |
|---|---|---|---|---|
| `Escrow` | what token billing promises | | | |
| `TokenBilling` | every transaction on grants, wallets, reservations, debts | implements `Escrow` | `TokenBillingProofs` | `billing_core`, `billing_liveness`, `billing_recharge_race` |
| `UsageDelivery` | what the usage pipeline promises | | | |
| `UsagePipeline` | how a usage record reaches the database | implements `UsageDelivery` | `UsagePipelineProofs` | `pipeline_core`, `pipeline_stop` |
| `ConfigSync` | how a change of the configuration reaches all caches | | `ConfigSyncProofs` | `config_core`, `config_group` |
| `CircuitBreaker` | a balancer and its breakers | | `RequestLifecycleProofs` | `request_core` |
| `RequestLifecycle` | a chat completion from arrival to settlement | extends and implements `CircuitBreaker` | `RequestLifecycleProofs` | `request_core` |
| `FlowRegistry` | the registry of requests in flight | | `FlowRegistryProofs` | `flow_core` |
| `UiCatalogue` | the queries and mutations of the web applications, as data | | | |
| `UiQueries` | one query, its cache, and the changes to what it shows | extends `UiCatalogue` | `UiQueriesProofs` | `ui_queries` |
| `UiSession` | the session of a browser tab | | `UiSessionProofs` | `ui_session` |
| `SkillDeployment` | a skill between the hub's catalogue and the runtime's endpoints | | `SkillDeploymentProofs` | `skill_core` |

An `MC` module beside a module gives its constants the values of the runs.  A
definition named `Mutant...` is a plausible bug of the definition after it, used by no
specification: with it in place of that definition a property of the runs fails.

## Inventory

| Part | State | Operations | Talks to |
|---|---|---|---|
| Token billing (`src/db/pg_backend/token_billing.rs`, `wallet.rs`) | grants, wallets, reservations, allocations, receivables, payments, billing events, wallet transactions, recharge keys | reserve, settle, release, reclaim, recover, write usage, redeem key, credit team, create / revoke grant | called by handlers, finalizers, usage workers, two background loops per instance |
| Settlement arithmetic (`src/domain/token_package.rs`) | none | `settle_usage`: package coverage and wallet amount of a usage | called by reserve, settle and the finalizer |
| Reservation finalizer and handlers (`src/service/token_reservation.rs`, `src/server/handlers/`) | one `finalized` flag per request, the retry loop, the stream wrappers | admit, reserve, try endpoints, stream, settle or release once, record usage | token billing, breakers, usage pipeline, flow registry |
| Usage pipeline (`src/service/usage.rs`, `src/cache/mod.rs`) | four bounded channels and batches in memory, the Redis stream `billing:backlog` | record, batch, write, hand to the backlog, drain | PostgreSQL, Redis |
| Breakers and balancer (`src/balancer/mod.rs`) | per endpoint: status, failure count, last failure, trial claimed, enabled | select, report success / failure, enable / disable | handlers, health probe, routing |
| Health probe (`src/service/health_probe.rs`) | none | probe every enabled endpoint, report to its breaker | breakers |
| Routing cache, config convergence (`src/service/routing.rs`, `src/main.rs`) | channels, models, balancers in memory; `config_version` in PostgreSQL | reload, poll, bump | admin API, handlers |
| Flow registry, event bus (`src/observability/`) | requests in flight in Redis, with sequence numbers | accepted, upstream started, first byte, completed | Redis Lua scripts, pub/sub |
| Rate limiter (`src/ratelimit/mod.rs`) | counters with expiry in Redis | check requests / tokens per minute | Redis Lua scripts |
| Wallet gate (`src/cache/mod.rs`, `src/main.rs`) | `gate_status:*`, `balance:*` in Redis | set after deductions, by the inspection task and the wallet handlers; its one reader has no caller | usage workers |
| Observability consumer (`src/cache/mod.rs`, `src/ch_backend.rs`) | the Redis stream `obs:events` | push, consume into ClickHouse, acknowledge | Redis, ClickHouse |
| Skill hub, skill runtime (`crates/skillhub/`, `crates/skill-backing/`) | skills, versions, an outbox of tasks, endpoints in PostgreSQL | set status, upload, delete; claim, deploy, disable, finish | administrators, a poller on every instance |
| UI data layer (`ui/packages/shared/src/lib/query.ts`, `api/`) | the query cache of an application, by key | mount, poll, fetch, mutate, invalidate | admin API |
| UI session (`store/auth.ts`, `api/client.ts`, `App.tsx`, `Login.tsx`) | cookie, store in localStorage, boot queries, the 401 latch | load, login, SSO, logout, 401 | `src/admin/auth.rs` |
| Auth, OIDC, Casbin, moderation, providers, admin and management CRUD, crypto | caches or none | see `PROJECT.json` | |

What is hard here: several actors finish the same request (its handler or stream,
a reclaimer of any instance, the usage writer, the recovery worker) in any order;
amounts live in five tables that must agree; instances crash; records are
delivered at least once; reads and writes of caches are not one step; a handler is a
future that is dropped wherever it awaits; an answer may be older than what it is shown for.

What makes the parts correct: a package never hands out more than it holds; a hold
is given back exactly once; money promised to one request is not spent by another;
a debt is neither lost nor counted twice; a finalized request stays finalized; the
tables tell the same story; holds return and debts are collected in the end; every
request leaves one record and is settled for it, however it ends; a breaker grants one
trial; a request that is over leaves the registry for good; caches converge; what a page
shows belongs to the user it names and does not silently stay behind a change; the
runtime serves what the catalogue says.

## TokenBilling

`TokenBilling.tla` models every transaction of the billing backend that any code
path calls.  Variables are tables: `grant` is `token_package_grants`, `wallet` the
balance columns of `users` / `team_wallets`, `resv`
`token_request_reservations` with its allocation rows, `recv`
`token_settlement_receivables`, `payments` `token_settlement_payments` by sequence
number, `bill` `billing_events`, `recharge` `recharge_keys`.  `charged` and
`credited` are the sums of what `wallet_transactions` and the administrators'
credits say.  `overdue` is the clock as far as the reclaimer can see it, and
`candidates` the list an instance's reclaimer has selected and not yet worked off.

One action is one transaction.  This is sound because every transaction takes its
rows `FOR UPDATE` (or updates them, which locks them) before it uses what it read;
the usage writer locks the billing event (token_billing.rs:141) before it reads the
reservation.  Two things are finer: the reclaimer selects outside a transaction and
releases candidates one by one, and `redeem_recharge_key` reads the wallet without
a lock, so it is two actions.  A transaction that returns `Err` is rolled back and
is the action not being taken.  A reservation that reads a grant as exhausted just
before a concurrent release commits sees an older set of eligible grants; the model
serializes it, which only matters for who gets how much, not for the invariants.

Loops over grants ("take as much as this grant offers, then go to the next") are
the predicate `Spreads`: the unique assignment in which a grant is drawn on only if
every earlier one is exhausted.  `settle_usage` is the constant `WalletAmount`; money
is counted in integers, so floating point rounding is out of the model's reach.

`Escrow.tla` is what all this promises, without tables: a request makes one deal.  A wallet
has `money` and a package `units` that no deal holds.  `Open` puts some aside, `Close`
lifts what was put aside, pays and uses, `Collect` turns a debt into a payment, `Charge` is a
deal that put nothing aside, `Deposit` adds money.  What a deal holds or has paid is
exactly what its payer's wallet lost; only the payer's packages are touched; nothing is
overdrawn; a deal is closed once, and owes something only if that left the wallet empty.
`EscrowHolds` maps the tables to it: `money` is `Spendable`, `units` `FreeUnits`, and
`DealOf` reads the deal of a request off its reservation, its ledger and its receivable.

Not modelled: `settle_released_token_request` and `apply_token_settlement_payment`
(only tests call them), and reservations written before allocation rows existed.

### Runs

| Run | Instance | Shows |
|---|---|---|
| `billing_core` | 2 requests, 1 user, 2 grants (1 and 2 units, the second `package_only`), balance 2, the reclaimers of 2 instances, requests of up to 2 units | the type invariant, capacity, holds, solvency, payments, agreement of the tables, the ledger, and the refinement of `Escrow` |
| `billing_liveness` | 2 requests of 1 unit, 1 grant, a team wallet of balance 1 that is credited once and recharged once (so a debt arises and becomes payable) | holds return, debts are collected, also beside an unlocked redemption |
| `billing_recharge_race` | 1 request, 1 key | expected violation: a redemption loses a concurrent debit |

Two requests are enough for every pairwise race: a settlement or reclaim against
another request's hold, an overrun against another's package units.  Two units let
a request straddle package and wallet, and an actual usage differ from the
estimate in both directions.  The wallet is small enough that shortfalls occur, so
receivables are opened, partly paid, deferred and closed.  Deadlock is not checked:
the system may stop when all requests are finalized.  Requests
on one wallet are interchangeable and so are instances; `billing_core`, which checks no
liveness, uses that symmetry.  The two runs stay apart because a redemption loses debits:
with a recharge key `LedgerBalanced` does not hold.

Fairness (only in `billing_liveness`): time passes (`Expire`, `RetryDue`); the
recovery loop and the reclaimer, which every instance spawns at startup and which
tick every ten seconds for ever, take their enabled steps.  A reclaim pass may end
early (an error, a restart), so a single release gets strong fairness: it is tried
again and again and is not refused for ever.  Nothing is assumed of the requests.

### Proofs

`TokenBillingProofs.tla` proves for all values of the constants (under
`BillingAssumption`, which says only what types the constants have, that requests and
recharge keys are finitely many, that ranks of grants differ and that no wallet starts
below its frozen amount):

* `TypeCorrect`, `CapacityHolds`: type correctness and `GrantCapacity`, each
  inductive on its own given the type invariant.
* `RequestsHold`: `RequestsInv`, the inductive invariant of the request tables. It
  relates, per request, reservation state, receivable, payment list, billing event
  and ledger in each phase; none of `TablesAgree`, `DebtSplit`, `NothingOwed` is
  inductive alone, because each action rewrites several tables from the contents of
  one of them.  `TablesAgreeHolds`, `DebtSplitHolds`, `NothingOwedHolds` and the
  action property `FinalOnceHolds` follow from it.
* `SolventHolds`: `Spec /\ []NoLostCredit => []Solvent`. The premise says that an
  open redemption has not missed an increase of the balance it read (a team credit
  or another recharge); when it has, the write-back lowers the balance under the
  holds. TLC checks `Solvent` where that cannot happen, without a key, in
  `billing_core`.

* `HoldsBackedHolds`, `PaymentsAddUpHolds`: the two sums, next to `RequestsInv`; a
  settlement's payment number is one the receivable has not used.
* `LedgerBalancedHolds`: `Spec /\ []NothingMissed => []LedgerBalanced`. The premise says that
  while a redemption is open the balance is the one it read: the write-back of
  `redeem_recharge_key` is the only way the books come apart, and `billing_recharge_race`
  shows it do so.
* `EscrowImplemented`: `Spec /\ []NoLostCredit => EscrowHolds`, every step is one of `Escrow`
  or a stutter.  One lemma per action says which (`ReserveOpens`, `SettleCloses`,
  `ReleaseCloses`, `RecoverCollects`, `DirectUsageCharges`, `RechargeDeposits`).  It takes all of the
  invariants above.  `HoldsBacked` is what makes a release exact: without it a `GREATEST(0, ...)`
  could hide that more is given back than is there.  `RequestsInv` says that a request that
  settles has paid nothing yet, `Solvent` that a debt arises only where the payment
  emptied the wallet.  `Own` is added: a reservation draws on its payer's packages only.

`DebtSplit` (what is due is what was settled plus what is outstanding), `NothingOwed` and
`FinalOnce` (no step reopens a finalized request or draws more than it owes, which
`Escrow` says in its own terms) are proved only; no run repeats them.

`HoldsBacked`, `PaymentsAddUp` and `LedgerBalanced` speak of sums over all requests, payments or keys.  `SumChanged` says
what a sum does when one summand changes, `SumAppended` when a payment is added.  A sum is a fold,
a recursion over subsets, so both are inductions over data: that the recursion has a solution
(`SumExists`) and that two solutions agree where the summands do (`SumUnique`) is proved by taking
the smallest counterexample, which exists because numbers and finite subsets are well ordered
(`WFMin` of `WellFoundedInduction`, `FiniteSetTheorems`).

## UsagePipeline

`UsageDelivery.tla` is the promise, in the words of the doc comments of the billing
backlog: a record is in the memory of an instance until it is billed or stored in
the stream, what is stored stays until it is billed, nothing is billed twice, and a
record is lost only with the memory of an instance that ends.

`UsagePipeline.tla` is how it is kept.  `channel[w]` and `batch[w]` are the mpsc
channel and the batch of a billing worker (`src/service/usage.rs`), `pc[w]` where it
is in its loop: gather a batch, write it, move it to the backlog.  `overflow` are the
records owned by tasks spawned when a channel was full.  `stream` is
`billing:backlog`; `drain[g]` is the loop every instance runs on it, with the entries
it has read and not tried (`todo`) and those it has written and not acknowledged
(`done`).  One action is one call of PostgreSQL or Redis.  Every call may fail, and may
fail after it took effect (`"unclear"`): a commit whose answer is lost, an `XADD` that
times out.  The PostgreSQL transaction is atomic; what it does to the billing tables
is `TokenBilling`, here a record is refused until it is in `writable` (its settlement has
committed, its wallet can pay), and a `Poison` record for ever.

| Run | Instance | Shows |
|---|---|---|
| `pipeline_core` | a sound record and one that is refused for ever, of 1 worker; a second instance drains the same stream; channel of 1, batches of 2, reads of 3; one unclear call, one crash, one stop | the refinement of `UsageDelivery`, one charge per record, and that a sound record is billed in the end unless its instance ended first |
| `pipeline_stop` | orderly stop, no crash | expected violation: records in memory are dropped |

A channel of one makes overflow happen, and one unclear call is enough for a duplicate
(which is why three entries may have to be read).  The
system may stop when all is billed, so deadlock is not checked.  Fairness: Tokio
runs every task (weak); a call that is tried again and again (the `XADD` loop, the
drain every five seconds) succeeds in the end (strong).  Crashes are bounded, not
fair.

`UsagePipelineProofs.tla` proves, for any number of records, workers and instances,
`TypeOK`, `ChargedOnce`, `OnlyBilledLeave` (nothing leaves the stream unbilled; proved
only, no run repeats it) and the refinement itself
(`DeliveryImplemented`).  The inductive invariant adds what a drain knows: an entry it
has yet to write is in the stream unless another instance has billed it, and an
entry it is about to acknowledge is billed; without it an acknowledgement could
remove an unbilled record.  `BillStep` and `StoreStep` show once how a
transaction and an `XADD` map to `UsageDelivery`; `DeliveryStep` goes through the actions.
Liveness stays with TLC.

Not modelled: the gate update after a batch (wallet gate), the `obs:events` stream,
and the deserialization of stream entries.

## ConfigSync

A change made by an administrator on one instance has to reach the caches of all.
`ConfigSync.tla` has a thread per admin handler and per poll loop; a thread follows a
program, a sequence of the database calls and lock acquisitions of the code
(`Handler`, `ReloadRouting`, `ReloadAuth`, `PollLoop`, `Startup`), and between any two of
them others may run.  A cache is the set of edits it reflects: `read` takes the
committed edits of a table into the thread's local view, `swap` replaces a cache by
that view.  An edit writes a `row` of its table: `commit` replaces in the database what was
written to that row before (`Overwrite`), and `apply` does the same in memory, with the value
of its own request whatever has been written since.  So two requests for one row may be
committed in one order and applied in the other; `raced` remembers an edit that was committed
while another request for its row, on the same instance, was between its two steps.  `stamp` is `config_version`, `last[g]` the poll loop's `last_version`.  The
six kinds of handlers differ in what they do after the commit: reload then announce
(channels, models, rules; users, keys), announce then reload (billing groups), patch
their own breakers (endpoint toggle) or their own settings, or nothing (team
members).  Stamps are taken to be new values, though the code uses the wall clock.

| Run | Instance | Shows |
|---|---|---|
| `config_core` | 2 edits, 2 instances, one of four stories: two channel edits while a poll reload may fail; two toggles of one endpoint, two writes of the settings, or a team member change and settings, each with a restart and a failed read of the keys | `SyncedWhenQuiet`: overlapping reloads may install old contents over new ones, but never unnoticed; every instance converges; the last toggle and the last settings are in force where they were made, unless two requests for the row overlapped there (`raced`) |
| `config_group` | a key edit, a billing group edit, 1 instance | expected violation: a reload after the announcement puts old keys back |

A story, chosen in Init, says which handlers run, on which tables, whose calls may fail
and how many restarts there may be.  `SyncedWhenQuiet` and `Converges` speak of the
stories whose handlers announce their change (`Announced`): nobody is told of toggles,
settings and team members (see Findings).
Two edits are enough for two overlapping reloads, with the poll loop's a third;
every edit is made once, on any instance.  Fairness: every thread goes on (Tokio, and
calls that return).

`ConfigSyncProofs.tla` proves, for any number of edits, instances, parts and stories:

* `ConfigTypeCorrect`: the type invariant, from the position of every thread in its
  program (`Roles`); a poll loop never runs off its end, a startup ends as a poll loop.
* `SyncedWhenQuietHolds`: `Spec => [](Orderly => SyncedWhenQuiet)`. In an orderly story handlers
  announce after their reload, instances stay up, and the only calls that fail are reads of the
  routing tables by poll loops.  The invariant `Following` says of a turn of the poll loop that
  began for the newest stamp, with no handler running, which of what it has read and
  swapped is what the database holds (`Fresh`).  Other threads may overwrite a cache
  with old contents, but each of them is a handler whose last step makes a newer
  stamp, so no turn is the latest any more.  What the premise leaves out fails, as
  Findings lists: a group edit (`config_group`), a restart, a failed
  call of a handler, a failed read of the keys.
* `AppliedAtHomeHolds`: `Spec => [](Unannounced => AppliedAtHome)`, for any number of edits of
  the same and of different rows, with restarts, and with
  failures of every read but that of the settings.  Without announcements no poll turn starts (`Quiet`), and
  an instance that starts again has read every change made on it (`InForce`).  Among the requests for a
  row that are between commit and assignment only one that `raced` exempts, or the last one
  committed, can assign later than the edit the database holds.  Next to a
  channel edit a toggle may be lost (see Findings).

## CircuitBreaker

`CircuitBreaker.tla` is one `HealthAwareBalancer` with the requests that use it.
`breaker[e]` has the fields of `BreakerInner`, with `last_failure` as never, recent or
longer ago than the cooldown.  `select` takes the lock of one breaker after the
other, so `Look` is a step per endpoint (and claims a trial), and `Pick` the choice
among those that said yes.  A call succeeds, fails (and is followed by another
selection or not: retry budgets are a nondeterministic choice), or ends unreported: a
client that went away, a 4xx, an answer from the response cache.  Reports may come
long after the selection, when the breaker is in another state.  The probe reports
without selecting, and its jobs are the endpoints that the configuration the balancer was made
from enables (`loaded`): a toggle changes the breaker and not that list.  Endpoints
with `full_url` are not in `Probed`.  A reload makes a new
balancer, and requests keep the one they have, so it needs no action.

The module has no run of its own: `request_core` checks it together with the handler of
`RequestLifecycle`, next to a second request of any kind that comes again and again.  There
`ProbedRecover` says that an endpoint that is probed (loaded enabled, without `full_url`) comes
back whatever became of its trials, `OneTrial` that no selection gets an endpoint whose breaker is
half-open (a late success of an older call closes it with the trial still out; nothing tells
whose report it is), and `RetriesEnd` that a request does not go from endpoint to endpoint for ever.  Fairness: a
request that has begun goes on, with any outcome; the probe loop calls an endpoint that
answers again and again.  Failures, cooldowns and switches are bounded (`MaxFailures`,
`MaxCooldowns`, `MaxSwitches`); with cooldowns that go on elapsing during slow connects
the unbudgeted retries need not end, which is listed as a hazard.

The first part of `RequestLifecycleProofs.tla` proves `TypeOK`, `FailuresCounted` and `OneTrial` for any
number of endpoints and requests and any threshold.  The invariant is one predicate
on the fields of a breaker, `Sound`: half-open means that the trial was claimed and nothing reported since.  Each
operation of the breaker keeps it (`ClaimedSound`, `FailedSound`, ...).

## RequestLifecycle

`RequestLifecycle.tla` follows one chat completion (`src/server/handlers/openai.rs`,
`common.rs`, `stream.rs`, `src/service/token_reservation.rs`) from the selection of an
endpoint to its settlement.  `life[r].stage` is where the handler is:

| Stage | Code |
|---|---|
| `route`, `retry` | `resolve_route`, `retry_next` select an endpoint |
| `accepted` | `mark_accepted`; content filter; `reserve`; an answer of the response cache |
| `upstream` | the call of the provider |
| `stored` | settled and recorded, `cache.set` is awaited |
| `stream` | the handler has returned, `UsageTrackingStream` goes on |
| `idle` | not there yet, or over |

The other fields are what the handler leaves: the reservation's row (`hold`), the
settlements it spawned (`tasks`), the usage record, the entry of the flow tracker.  A
handler is cut off only where it awaits: `HandlerTimesOut` (a second finalizer then
releases), `ClientLeaves` (nothing is run), `StreamDropped` (`Drop` of the stream
settles what was seen).  `Settle`, `SettleFails` and `Reclaim` are what later becomes of
the reservation; what they do to grants and wallets is `TokenBilling`, where the
record goes is `UsagePipeline`, the transitions of the flow entry are `FlowRegistry`.

The module EXTENDS `CircuitBreaker`: every step of a handler that selects, reports or
ends is a step of the breakers too (`Begin`, `Look`, `Pick`, `CallFails`, ...), and
`LifeImplementsBreaker` proves `LifeSpec => Spec`, so that what is proved of the breakers
holds in the composition.

| Run | Instance | Shows |
|---|---|---|
| `request_core` | 2 endpoints of which 1 is probed; r1 seen from end to end, r2 only at the breakers; threshold 2, 3 failures, 1 cooldown, 1 switch, 1 retry, 1 failed transaction | what is settled is what was recorded, one record per request, no request left in flight or with a hold nobody settles, nobody gets a half-open endpoint, the probed endpoint recovers, retries end |

Two endpoints let a retry go elsewhere, a threshold of two with three failures lets a
breaker open, be tried and fail again; one retry distinguishes a spent budget from the
unbudgeted connect failures; the reports of r2 meet the breakers in every state.  Deadlock is checked: the
other request can always begin.  Fairness: every await of a handler ends, at the latest by
its timeout, and every stream by its idle timeout.

`RequestLifecycleProofs.tla` goes on to prove the type invariant and the four safety properties for
any number of requests, endpoints and retries.  The inductive invariant `LifeInv` is a
predicate `Fits` on the record of one request (which hold, record, tasks and answer go
together in which stage) and the agreement of stage and place at the breakers; no
property is inductive alone, because the step that ends a handler reads all of them.

Not modelled: the handlers of `anthropic.rs`, `responses.rs`, `relay.rs` and
`token_endpoints.rs`, which have the same shape with fewer parts (no response cache;
`relay.rs` has no handler timeout).  Where they differ in an outcome is said under
Findings.

## FlowRegistry

`FlowRegistry.tla` is the registry that counts requests in flight across instances
(`src/observability/flow_tracker.rs`, the scripts and the snapshot of
`src/cache/mod.rs`).  A mark (`MarkAccepted`, ..., `MarkCompleted`) changes the gateway's
memory at once and spawns a task; `tasks[r]` are those still to reach Redis, in any order,
and each may fail or die with its gateway.  `FlowSet` and `FlowRemove` are the two Lua
scripts, atomic in Redis.  A snapshot is three calls (SMEMBERS, MGET, SREM), between
which anything may happen.  Time is not counted: a key or marker may expire whenever
nothing that ends within the hour is under way (`Waiting`: a Redis call, the wait for the
first byte, the way between two calls of a handler, which its timeout of 240 s by
default bounds).  A stream may outlive its key.  Sequence numbers start at 1 rather than
at the time of acceptance: the keys of two requests are never compared.  The model lets a
second completion follow any first one, where in the code some paths make only one.

| Run | Instance | Shows |
|---|---|---|
| `flow_core` | 2 gateways; r1 with 2 attempts, r2 answered from the response cache; tasks of both may fail, gateways may crash | a removed request never comes back, every entry is in the index, the registry shows what the handlers do once the tasks have run, and over is over in the end |

Two attempts give the longest chain of marks with a repeated state, and two requests
are what a snapshot needs to confuse one with another.  The system may stop when all
requests are over.  Fairness: a call of Redis ends, a TTL runs out.

`FlowRegistryProofs.tla` proves the type invariant, `NoResurrection`, `Indexed` and
`RegistryMatches` for any requests and gateways.  `IInv` is `TypeOK` and a predicate
`Good` per request: its tasks are not newer than its marks, a removal is the newest of them, a
write of a removed request is below its marker, the present mark is in the registry or
on its way, and a snapshot's cleanup has only names of requests that have left.  `Vanishes` stays with TLC.

## UiCatalogue and UiQueries

`UiCatalogue.tla` is data: for every hook that a page of the two web applications mounts,
its key, what it shows and whether it is polled; for every mutation, what its handler
changes, with what the database deletes by cascade (`TeamRows`: deleting a team, or the user
who owns it, takes its keys, members, wallet, transactions, rules, recharge keys and billing
events along), and the keys it invalidates.  `UiQueries.tla` gives it a meaning: Init chooses
one query and two changes, and the actions are the page (mount, unmount, poll), the
request (read on the gateway, answer, error with one retry) and the change (commit,
answer, answer lost), with the rules of TanStack Query (external) for staleness, for
cancelling a fetch and for sharing one.

| Run | Instance | Shows |
|---|---|---|
| `ui_queries` | every query of the catalogue with every change that touches it, and a second change to the same data; 2 failed fetches | a page does not silently show what was before a change made in its application; a refresh does not wait for a timer; polled pages converge |

`Unjoined` lists the pairs the keys do not join: a real gap of each is a page that stays
behind until it is old.  The longest part of it is what goes with a deleted user or team: the
team pages, the recharge keys, the rules and all billing pages of the administrators
(`AdminTeamPages`, `AdminBilling`).  `missed` collects the refreshes that were taken by an older
fetch: TanStack Query does not restart the first fetch of an entry, nor one no page waits for, and the
page's own `refetch` is lost when it is left (redeeming a key and leaving at once).
One failed fetch is retried silently, the second is shown, so two failures suffice;
two changes let one answer overtake another.  Deadlock is checked.  Fairness: requests
end, and the timer of `refetchInterval` runs.

`UiQueriesProofs.tla` proves `TypeOK`, and `NoSilentStaleness` from `CatalogueJoined`, the
statement about the catalogue alone that a key joins every pair outside `Unjoined`:
what keys can guarantee, they guarantee under every order of fetches, errors and answers.
`CatalogueJoined` is a finite fact; the run checks the conclusion for the real catalogue.

## UiSession

`UiSession.tla` is one tab: the cookie, the store kept in localStorage
(`store/auth.ts`), the queries that resolve the session after a load (`App.tsx`:
`/auth/session`, `/me`, `/me/permissions`, each enabled by the answer before it), the password
login, the return from SSO, the logout, and the requests of pages, each of which
may find a 401 (`api/client.ts`) and clear the store; for three seconds afterwards
further 401s are ignored (`latch`).  The gateway (external but for
`src/admin/auth.rs`) judges a request some time before its answer is worked off.

| Run | Instance | Shows |
|---|---|---|
| `ui_session` | 3 users, one of whom the application turns away; 3 sessions, a reload, a failed request, one page request at a time | the user shown is the one the gateway acts for, or nobody where a logout whose TopBar is gone took the cookie; the cache is that user's; a load resolves; a dead session is noticed |

A failure may be a request that does not arrive, one that ends in an error, or a database
error behind the probe, which the gateway answers like a missing session (auth.rs:156-159).
The logout is the TopBar's, and what its answer does are callbacks of that mutation: they run
only while that TopBar is there (`leaving`).  A 401 of a page, or permissions that put
the door in its place, remove it; the cookie is taken all the same, and `stripped` remembers that
this happened to a session shown since.
Three sessions are a session, its successor and one that makes the successor old.  One logout is
in flight at a time, and the logout of the door itself is left out.  The
system may stop when the bounds are reached.  Fairness: requests are
answered, the latch's timer runs, and some page polls.

`UiSessionProofs.tla` proves `TypeOK`, `IdentityMatchesCookie` and `CacheOfUser` for any
users, sessions and requests; the invariant adds `CallsOfUser`: a request
whose answer may still enter the cache was sent by the user of the store, and `Answered`: the
gateway serves a request only for a session that has a user.
Permissions are in the model because they decide who has a TopBar; there is no property that they
are the shown user's, because the code does not keep one (see Findings).

One tab is modelled.  localStorage is shared by all tabs and both applications, and the
store does not listen to its changes.

## SkillDeployment

`SkillDeployment.tla` is one skill.  `status`, `current` and `uploaded` are its rows in
`agent_skills` and `agent_skill_versions`, `task` the outbox
`agent_skill_runtime_tasks`, `endpoint` the rows of `agent_skill_endpoints`.  A call
(`set_status`, `upload_artifact` of `crates/skillhub/src/lib.rs`) reads the skill, draws
the stamp of its task, and commits the change and the task in one transaction of
`repo.rs`.  `poller[g]` is the loop of an instance (`crates/skill-backing/src/runtime.rs`):
claim the oldest pending tasks in one transaction, then for each resolve, write
endpoints, write the end.  The claim is two steps: the `SELECT ... FOR UPDATE SKIP LOCKED`
locks its rows and passes over those that another open claim has locked (`Locked`), and the commit
makes them processing; in between it may be rolled back, or its commit go unheard
(`ClaimFails`).  Every statement may fail, and an instance may die anywhere.

| Run | Instance | Shows |
|---|---|---|
| `skill_core` | 3 calls, 2 instances, a third version without endpoints, batches of 2, one fault | a task has one owner, the outbox says what the catalogue says, the runtime serves it when all is done, every task ends or is lost with its poller |

Three calls with two versions are the shortest history in which an older deployment can
overtake a newer one; batches of two make a task wait behind a failing one.
`crossed` and `disturbed` remember that calls overlapped, or that a task failed, was lost
or was claimed while another instance had an open claim or batch: `OutboxComplete` and `CatalogueServed` are promised only otherwise,
and fail without those premises (see Findings).  The system may stop when there is nothing to do.
Fairness: the poller of every instance sleeps two seconds and goes on.

`SkillDeploymentProofs.tla` proves `TypeOK`, `OneOwner` and `OutboxComplete` for any number
of calls, instances and versions.  The invariant adds that no stamp is ahead of the
clock and that a call makes its task at its end (`Stamps`), and that without `crossed` what a
call has read still holds and the stamp of its task is the newest (`Sequential`).
`CatalogueServedHolds` proves `CatalogueServed` with no premise but those the property names.
Its invariant `ServedInv` says that without `crossed` and `disturbed` one instance at a time has a
batch or an open claim (`OneBatch`), tasks are done in the order of their stamps (`InOrder`), an
open claim has the oldest of the pending ones (`Front`), the endpoints are
as the newest task that is done left them (`Runtime`), and a deployment under way is
newer than every endpoint (`Fresh`).

## Findings

Three disagreements between the code and what the repository says of it have a run,
and `PROJECT.json` quotes both sides:

* `billing_recharge_race`: `redeem_recharge_key` loses a concurrent debit.
* `pipeline_stop`: an orderly shutdown drops usage records in memory.
* `config_group`: the deletion of a billing group announces before it reloads, and its
  late reload may undo another handler's for good.

The models show more, by changing the constants of a run or stating one more property:

* A request admitted on a `package_only` grant is charged to the wallet when it uses
  more than it reserved: `settle_token_request` does not read the policy
  (token_billing.rs:1101), the estimate alone is bounded by it (token_billing.rs:777).
* As many refused records as one read of the drain returns (100, cache/mod.rs:538)
  hide every later record: in `pipeline_core` with `ReadCount = 1`
  `EventuallyBilled` fails.
* `toggle_endpoint`, the team member handlers and `set_gateway_config` do not bump
  `config_version`: without its premise `Announced`, `SyncedWhenQuiet` fails in the
  stories of `config_core` that have them.  A membership change reaches not even its own instance's cache.
* A change that is announced between an instance's first load and the start of its
  poll loop is never loaded (main.rs:551): in a story with one restart and a channel
  edit `SyncedWhenQuiet` fails for this reason, and sooner because the restart cuts off a
  handler between its commit and its announcement.
* A change is lost for good after one failed call: a read of the keys by the poll loop,
  which has adopted the stamp (main.rs:573); the handler's own reload after the commit
  (channels.rs:127); the bump itself (admin/mod.rs:425).  `SyncedWhenQuiet` fails in
  a story that has the respective pair in `faulty`.
* `public_snapshot_valid` is true during a reload when two overlap (routing.rs:149).
* A reload that read the channels before an endpoint was switched off installs balancers
  in which it is on: `AppliedAtHome` fails in a story with a channel edit and a toggle.
* Two toggles of one endpoint, or two writes of the settings, under way on one instance may be committed
  in one order and assigned in the other (channels.rs:258-263, settings.rs:218-220): memory then
  differs from the database until a restart (of a toggle, until a reload).  `AppliedAtHome` without
  `\ raced` fails in the stories of `config_core` that have them.
* The probe filters on the loaded configuration's `enabled` (health_probe.rs:139), which the toggle
  does not update (routing.rs:226): an endpoint that was loaded disabled and is switched on is
  never probed before the next reload, and one switched off goes on being probed.
* A selection claims the trials of all endpoints that are due and uses one
  (balancer/mod.rs:193); the others wait for a probe, a toggle or a reload.

Requests:

* The idle timeout and an overflow of the SSE buffer end a stream like its regular end:
  it is settled as completed and reported as a success to the breaker, though the comment at
  stream.rs:337-339 says that they are represented by `Drop` and settled in part.
* The handler's timeout may fire while the answer is being stored, after its settlement was
  spawned: two settlements race, and the one of zero may win.  A timeout leaves no usage record.
* A client that leaves before the answer leaves no record; its hold waits for the reclaimer and its flow
  entry for its TTL.
* `relay.rs` (about :219, :235) and `anthropic.rs` (about :324) leave their loop without
  a release: the hold waits for the reclaimer.
* A settlement that fails clears the flag so that it can be retried, and nobody retries.
* A stream has no overall timeout: one that runs longer than the handler timeout plus a minute loses
  its reservation to the reclaimer, its later settlement does nothing, and what was
  recorded is not charged.

Flow registry:

* A stream that goes on for an hour after its first byte leaves the count.
* A removal that failed, or a crash, leaves an entry until its TTL; names without a value stay in the
  index until the next snapshot.

Web applications:

* The pairs of `Unjoined`, and the refreshes of `missed` (above).
* After a password login permissions are not loaded before the next reload, though
  the comments of `usePermission` and `AdminRoute` say that they arrive asynchronously.
* `setSession` keeps the permissions of whoever was there before: those of a user who was
  turned away, or whose session the probe took for none after a database error
  (auth.rs:156-159), may serve the next login.  After SSO those in localStorage may be another
  user's until the answer comes (AdminRoute.tsx:13-15 says that the array is empty until then).
  A probe that fails around a login may find the cookie and fetch its user's permissions although
  the store has nobody.
* A logout is answered after a page's 401 has cleared the session, unmounted the TopBar that asked,
  and another user has logged in: its answer takes the cookie, and its callbacks are not
  called (TopBar.tsx:32-48).  That user is shown with no session until the next 401.
* Deleting a user or a team leaves the pages of `AdminTeamPages` and `AdminBilling`, the recharge
  keys and the rules as they were until they are old.
* A failed `/me` leaves the page at "Loading..." with nobody to ask again.
* A late 401 of an old session clears a new login once the latch is released.
* `handleAddSelected` of `Models.tsx` and the update forms send whole rows from a
  cached copy: a change made in between is lost.
* `RoutingFlow.tsx` replaces its live counts by the snapshot whenever the topology changes, where its
  comments say "Merge snapshot into counts" and "Load 24h snapshot once".
* `MyTeams.tsx:47` reads teams from a store that is never filled.

Skills:

* A publication that read the current version before an upload committed leaves the
  new version without a task (`CatalogueServed` fails without `crossed`).
* Two instances may process a publication and a withdrawal out of order, an older
  deployment may finish later, and a task that failed is never tried again
  (`CatalogueServed` fails without `disturbed`).
* A poller skips the rows of an open claim and takes newer ones; when that claim is rolled back the
  older tasks run last (crates/skill-backing/src/repo.rs:194), with no task failed or lost: a
  version that was withdrawn stays in service.
* A version without endpoints leaves those of the version before it in service.
* Only pending tasks are claimed: a crash after the claim, or a failed
  `finish_task`, leaves a task processing for ever, though the comment at
  crates/skillhub/src/repo.rs:328-329 says that the poller can replay it after a crash.
* Deleting a skill leaves its tasks and endpoints; two uploads of one version
  overwrite each other's file before one of them is refused.
* `timeout_ms` is an INT column that is read as `i64` with a default of 0 (crates/skill-backing
  repo.rs:39), and calls are metered under the catalogue's current version though the
  last deployed one is served.

## What is proved, and what is only checked

| Proof module | Theorems | Rests on |
|---|---|---|
| `TokenBillingProofs` | `TypeCorrect`, `CapacityHolds`, `RequestsHold`, `DebtSplitHolds`, `TablesAgreeHolds`, `NothingOwedHolds`, `FinalOnceHolds`, `SolventHolds`, `HoldsBackedHolds`, `PaymentsAddUpHolds`, `EscrowImplemented`, `LedgerBalancedHolds` | `BillingAssumption`; `SolventHolds` and `EscrowImplemented` also `[]NoLostCredit`, `LedgerBalancedHolds` also `[]NothingMissed` |
| `UsagePipelineProofs` | `PipelineTypeCorrect`, `ChargedOnceHolds`, `OnlyBilledLeaveHolds`, `DeliveryImplemented` | the assumption on its constants |
| `ConfigSyncProofs` | `ConfigTypeCorrect`, `SyncedWhenQuietHolds`, `AppliedAtHomeHolds` | `ConfigAssumption`; the second also `Orderly`, the third `Unannounced` |
| `RequestLifecycleProofs` | `BreakerTypeCorrect`, `FailuresCountedHolds`, `OneTrialHolds`, `LifeImplementsBreaker`, `LifeTypeCorrect`, `LifeFailuresCounted`, `LifeOneTrial`, `SettledAsRecordedHolds`, `OneRecordHolds`, `NoLeakedFlowHolds`, `NoOrphanedHoldHolds` | `LifeAssumption`, for the first three that of `CircuitBreaker` |
| `FlowRegistryProofs` | `RegistryTypeCorrect`, `NoResurrectionHolds`, `IndexedHolds`, `RegistryMatchesHolds` | `RegistryAssumption` |
| `UiQueriesProofs` | `QueriesTypeCorrect`, `NoSilentStalenessHolds` | `QueriesAssumption`; the second also `CatalogueJoined` |
| `UiSessionProofs` | `SessionTypeCorrect`, `IdentityHolds`, `CacheOfUserHolds` | `SessionAssumption` |
| `SkillDeploymentProofs` | `TypeCorrect`, `OneOwnerHolds`, `OutboxCompleteHolds`, `CatalogueServedHolds` | `SkillAssumption` |

Each follows one pattern: an inductive invariant, one lemma per action that keeps it, and a last step
that derives the property.  The type invariants of all modules but `TokenBilling` and `ConfigSync`, and
`FailuresCounted`, `DebtSplit`, `NothingOwed`, `FinalOnce`, `OnlyBilledLeave`, are
proved and not repeated by a run.

Every invariant the passing runs check is the subject of a theorem.  Premises that a theorem has
and the property as checked does not are named above: `NothingMissed` and `NoLostCredit`
(the instance of `billing_core` has no key), `Orderly` and `Unannounced` (every story of `config_core` is one or the other),
`CatalogueJoined` (a finite fact of the catalogue).

Only model-checked is liveness: `HoldsEventuallyReturn`, `DebtEventuallyCollected`, `EventuallyBilled`,
`Converges`, `ProbedRecover`, `RetriesEnd`, `Vanishes`, `RefreshEnds`, `PolledViewsConverge`, `PageResolves`,
`DeadSessionNoticed`, `TasksEnd`.  The prover does not reason about ENABLED, which fairness is made of.
Nor can it use the induction theorems of its library, which take an operator as a parameter: where
an argument needs one (the sums of `TokenBillingProofs`) it goes through a smallest
counterexample.  No module that holds theorems uses a recursive operator.

## Not modelled

* The event bus (`src/observability/`, `ws.rs`, `RoutingFlow.tsx`): a broadcast channel of 8192
  events relayed over Redis pub/sub, best effort.  A reader that lags skips events; the relay task of an
  instance ends for good when its subscription fails or its connection drops (main.rs:300-325).
* The rate limiter: two counters in fixed windows, each an atomic script.
* The wallet gate: written by `usage.rs:182`, the inspection task of `main.rs` and
  `admin/wallet.rs`, but its reader `check_wallet_balance` (handlers/common.rs:204) is dead code,
  so nothing the program does depends on it.
* The `obs:events` stream and ClickHouse: best effort reporting.
* The arithmetic of `settle_usage` (Decimal and f64), a constant of `TokenBilling`.
* Providers and moderation (translation and matching of data), Casbin, OIDC redirects, the management API,
  single-row CRUD, migrations, startup parsing, encryption of credentials.
* Package files, installations and the proxying of skill requests.
* Rendering, forms, charts, animations and translations of the web applications, and the older
  copy of one under `ui/src/`.  They are most of the TypeScript, which is nearly half of the
  repository's code, and keep no state a property could be about: the share of the lines the models
  stand for is low for this reason.

## Plan

1. Done: billing, pipeline, breakers, requests, flow registry, web data layer and session,
   skills, configuration, with their proofs.
2. `BillingLocks`: the row locks the billing transactions take, and their order
   (reserve and settle lock grants before the wallet, release the wallet before the
   grants).
3. The remaining handlers as instances of `RequestLifecycle`; `RateLimit`.
4. The event feed of the web applications (bus, relay, WebSocket, counts of `RoutingFlow.tsx`).
5. `Settlement`: the arithmetic of `settle_usage` against a reference definition.
6. The requests of the skill runtime and their metering.
