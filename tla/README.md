# TLA+ models of paykernel

paykernel is a payment SDK for TypeScript. Most of it translates between
provider APIs and one set of types; what is hard to get right is the part that
must not process a webhook twice, lose one, or move money twice, although
workers race, crash, stall and retry. This directory models that part, checks
it with TLC on small instances, and proves the core of it with TLAPS.

Contents: [inventory](#inventory), [modules](#modules-and-the-code),
[runs](#runs), [bounds](#bounds), [fairness](#fairness),
[assumptions](#assumptions), [divergences](#divergences-between-code-and-documentation),
[proofs](#proofs), [what is not modelled](#what-is-not-modelled),
[plan](#plan), [running it](#running-it).

## Inventory

Paths are below `src/packages/`.

| Component | State it keeps | Operations | What is hard | What makes it correct |
|---|---|---|---|---|
| Claim rules, `sql-foundation/src/claims/algorithm.ts` and `templates.ts` | none (decisions on one row) | decide a claim or a reserve, classify a conditional write that touched no row, build the SQL | the same rule written five times (decision, SQL, miss classifier, Redis Lua, in-memory); boundaries at the instant of expiry | the five agree on every row |
| In-memory webhook inbox, `webhooks/src/memory-store.ts` | a Map of rows | claim, renew, complete, fail, listRetryable, deleteExpired, eviction | an evicted or deleted key lives again while old tokens are around; soft-release inside claim | lease contract, exact attempt budget, tokens fence, capacity |
| Postgres webhook inbox, `store-postgres/src/stores/webhook-inbox-store.ts` | one table | the same, as SQL statements | a claim is up to five statements; a sweep's subquery reads an older snapshot | the same contract under every interleaving |
| Webhook engine, `webhooks/src/engine.ts` | per call: token, attempt, heartbeat state | processVerified, ackAfterClaim, processRetryable, handler under heartbeat, late failure recording | lease lost under a running handler, token rotated while it settles, payload superseded between list, get and claim, crash after any step | an acknowledged event is not lost and is settled in the end; budgets; one success |
| HTTP ack policy, `integration-http/src/http-policy.ts` | none | outcome to status | 200 too early loses the event for good | an acknowledged event is never lost |
| Idempotency stores, `store-postgres/src/stores/idempotency-store.ts`, Redis script, `testkit/src/memory` | rows with lease, fingerprint, result | reserve, renew, complete, markIndeterminate, deleteExpired | a reserve is up to five statements; hosts' clocks differ; an indeterminate row must never hand out a lease again | lease contract, a lease outlives the clock skew, indeterminate is final |
| Reconciliation stores, `store-postgres`, `store-redis`, `reconciliation/src/memory-store.ts` | jobs with due time and lease | schedule, claim, renew, complete, fail, markManualReview, listDue | reopening a closed job; soft-release; Redis' due index | exact attempts; the claim rules agree |
| Reconciliation scheduler, `reconciliation/src/scheduler.ts` | in-process in-flight counts and hang budgets | schedule, processDue | hung jobs, leases lost under the handler, overlapping polls, several instances, crashes | every due job is closed or in the hands of a person; parking is justified; no leak of the in-flight count |
| Reconciliation policy, `reconciliation/src/{compare,policy,lookup}.ts` | none | compare, look up, decide, forbid a replacement | lookups that are late, incomplete or ambiguous; a payment that moves while it is decided about | a safe decision is true; money moves once |
| Routing and fallback, `routing/src` | none beyond a call | select, classify an attempt, fall back to another gateway | an ambiguous failure must not charge at a second gateway; exclusions must not open the fallback | one charge; an honest fallback |
| Mutation fences, `core/src/gateways/{moyasar,paymob}`, `gateway-myfatoorah`, `gateway-hesabe` over `core/src/utils/idempotency.ts` | a record per key in a shared store; Paymob also a process-local promise cache | reserve, send, settle, replay | the provider may apply a request after the caller gave up; the store may fail after the provider succeeded; crashes; a full store | money moves once per key, callers are told the truth |
| Checkout kernel, `src/examples/checkout-kernel` | the order's record | charge, webhook handler, reconciliation handler | the event races the job | see the policy |
| SQLite, libSQL, D1 | the same rows elsewhere | the same templates | one writer at a time | not modelled |
| Durable Objects store | rows, an alarm | the same, plus alarm scheduling | alarms set, lost and moved by several writers | not modelled |
| Core client, hooks, retry, abort | none beyond a call | request pipeline | retry with deadline and abort | not modelled |
| Migrations, gateways' mapping, observability, framework adapters, testkit, apps | tables of checksums, or none | | | not modelled |

How they interact: an HTTP adapter verifies a delivery and hands it to the
engine; the engine claims the event's row in an inbox store, runs the
application's handler under a lease that a heartbeat renews, and completes or
fails the row under the token of its lease; the ack policy turns the outcome
into the status the provider sees, and the provider redelivers until it sees
200. In durable mode a retry worker polls the store and does the same without a
provider. Independently, an application routes a payment to a gateway, whose
mutations are fenced by records of an idempotency store; when an attempt went
wrong the routing classifies it and may name another gateway. What stays
uncertain is reconciled: a job is scheduled, claimed by a poll, looked up at the
provider, compared and decided, while webhook events update the same order.

`PROJECT.json` lists every component with its files, and every hazard found in
the code with the line where it bites and the properties that cover it.

## Modules and the code

```
Leases ─┬─ WebhookClaims ────────┬─ MemoryWebhookInbox ────┐
        │                        ├─ PostgresWebhookInbox ──┼─ LeaseTable (abstract)
        │                        └─ WebhookEngine          │
        ├─ IdempotencyClaims ────── PostgresIdempotencyStore ┘
        └─ ReconciliationClaims ─── ReconciliationScheduler
   (the three rule modules together: ClaimCalls)

Routing ── RoutedPayment ─┐
                          ├─ RecoveredPayment
ReconciliationPolicy ─────┘

MutationFence
```

Modules `MC*` add what TLC needs (symmetry sets, small tables); modules
`*_proofs` hold the theorems.

**Leases** has what all leased rows share: when a lease is active, which fenced
write a token allows (`decideLeaseMutation`) and the WHERE clause of the same in
SQL. Time and tokens are numbers; a token is the draw's position.

**WebhookClaims, IdempotencyClaims, ReconciliationClaims** have the rules of the
three tables as operators on one row: the decision of `algorithm.ts`, the SQL
statement, the miss classification, the Redis script, the in-memory store, and
the rows that renew, complete and fail write. Each is translated from its own
source, so that their agreement is a fact and not a definition.

**ClaimCalls** applies one claim to an arbitrary row of each table at an
arbitrary time, which is where the formulations are compared.

**LeaseTable** is the abstract specification of a leased store: a row is free,
held under one token, or done; only the presenter of the current token disturbs
a live lease; a token is issued once; what is done stays done unless it is
forgotten. It comes from the prose of `store-contracts/src/contracts.ts`.

**MemoryWebhookInbox**: `rows` is the Map, `born` its insertion order (for the
eviction). One action per method; the store is synchronous, so a method is one
step. `failures` counts recorded handler failures and is only read by
properties.

**PostgresWebhookInbox**: one key, one action per SQL statement. A caller of
`claim` goes through conditional write, SELECT, timestamp repair, second
conditional write and last SELECT, with other callers' statements between; a
poller's soft-release is two steps, because Postgres re-evaluates only the outer
WHERE clause on the locked row and not the subquery. Who takes part is chosen in
`Init` from `Deployments`. `granted`, `promised`, `backoff`, `failures` record
what callers were told and are only read by properties.

**PostgresIdempotencyStore**: the same for `reserve` and the sweep of the
idempotency store, with a clock for each host: host h reads `now + ahead[h]`,
and a statement carries the reading of the host that sends it. The second
conditional write of a reserve carries the reading of the first.

**WebhookEngine**: workers run `engine.ts` against one row that answers by
WebhookClaims. A step of a worker is the code between two awaits; `pc` names the
await it is at (`park`, `get`, `claim`, `refuse`, `running`, `returned`,
`threw`, `reclaim`, `refail`). A heartbeat renewal in flight is the field
`renew`, so that its answer can come before or after the handler settles. Faults
are a crash, a lost reply, a failing heartbeat, and a clock that runs a lease out
under a working owner. The clock is relative (time left of lease and backoff) and
tokens are drawn from the least unused, which keeps the state space finite
without a time bound.

**ReconciliationScheduler**: polls of `processDue` on one or two scheduler
instances over one job, with the same relative clock. `hang` and `live` are the
two maps an instance keeps in memory; a crash clears them. `pc` names the await
(`listed`, `get`, `park`, `parking`, and the states that count as in flight). The
store is a SQL, an in-memory or a Redis one, chosen in `Init`: the SQL and the
in-memory store release an expired lease when they list, Redis finds the job by
the score its claim left in the due index. A store call that fails is
`CallFault` (a listing, a claim, the catch block's get), `SettleFault` or
`HeartbeatFault`; but for the get, which the code takes for another worker's job,
it ends the poll.

**Routing** has `select`, the submission classifier and the fallback rules as
operators. A rule states a value or none for each partition field; the decimal
amounts are numbers; capabilities are one capability.
**RoutedPayment** is an application that uses them: select, attempt, classify,
reroute while gateways' health changes. A report of an attempt holds five
signs, any of which may be missing or wrong as long as one true sign remains of
a request that was accepted. `Eligibilities` are what the application may hand to
the router: the evaluation of the last attempt's state or of any other, with or
without an expert override, or an object it made up. The router takes any that
names a safe state; `vouchedFor` records a reroute that rested on an override or on
a state that is not the last attempt's, since that risk is the application's.

**ReconciliationPolicy** has `compareSnapshots`, `decideReconciliationPolicy`,
`shouldForbidReplacementCharge` and the identity rule of the lookup as operators.
**RecoveredPayment** composes them with RoutedPayment. When the last attempt
stays uncertain the application reconciles it as the checkout kernel does:
`StartJob` is `rebuildTarget`, `LookUp` one lookup of `resolveProviderSnapshot`,
`Apply` the decision and what `reconcileDue` does with it, `Event` the webhook
handler, `Replace` a new charge where `shouldForbidReplacementCharge` allows one.
`ledger` holds the providers' payments, one per attempt, and moves on its own
between any two of these steps; `local` is the record of the last attempt. A
lookup answers with a snapshot that may leave the totals out, with nothing, with
an error, or with several payments. What a key may name when the payment's id is
not known is the constant `OrderReferences`: this attempt's payment, or any of the
order's.

**MutationFence**: calls of applications go through reserve, executor and
settlement (`pc`), for one of four gateways chosen in `Init`. The provider's
`Decide` is independent of the caller: a request that was sent is applied,
declined or refused at any later time. `wire`, `applied` and `paid` are the
provider's side. A process crash loses Paymob's local cache and the calls in it;
a store operation that throws may have been applied.

In every module an operator named `X_Word` with a comment "Bug:" is a plausible
bug of the code `X` models. Nothing of the specifications refers to it: it is
there to show that the properties notice (`mutants` in `PROJECT.json`).

## Runs

| Run | What is asked | Result |
|---|---|---|
| `claim_rules` | do the formulations of the claim and reserve rules of the three tables, and the two of the fenced write, agree on every row, input and time? | yes |
| `memory_inbox` | exact attempt budget, fencing tokens, capacity, and refinement of LeaseTable for two keys in a store with room for one | holds |
| `postgres_inbox` | budget for two claims, or a claim and two pollers, interleaved with renewals, completions and failures; refinement of LeaseTable in the deployment without pollers | holds |
| `postgres_soft_release` | does a poller clear only tokens of expired leases? | violated, see below |
| `idempotency` | refinement of LeaseTable when clocks agree; a reservation taken before its expiry by the skew at most when they do not; an indeterminate row is never touched again | holds |
| `engine` | durable and inline engines: an acknowledged event is not lost, is reported processed at most once, keeps its budget, never runs the handler on a payload other than the claimed one, handlers overlap only after a fault, only deliveries supersede a payload; also from a row an inline engine left without a stored payload | holds |
| `engine_parked` | under ackAfterClaim, where 200 is sent before any handler ran: the budget, and every acknowledged event is eventually completed or dead lettered | holds, the second under fairness |
| `reconciliation` | attempts are the recorded failures; the in-flight count is the number of claims; no overlap without a fault; whoever parks a job has a cause, its handler's word or as many faults or recorded failures as the budget allows, and never a retry_later; every job is eventually closed | holds, the last under fairness |
| `reconciliation_retry_later` | is the budget of retries free of the claims that ended in retry_later? | violated, see below |
| `routing` | one provider accepts a routed payment; the fallback is honest; over fallbacks and replacements one payment of an order takes money; a decision marked safe is true; the last two where an attempt's reference is its own | holds |
| `routing_order_reference` | is a decision marked safe true where the attempts of an order share the reference they are looked up by? | violated, see below |
| `mutation_fence` | money moves at most once per key, callers are told the truth, a recorded result is final, no key is stuck without a fault | holds |

Three more configurations reproduce divergences and are not among these runs:
`MCPostgresBackoff.cfg`
(`BackoffHonoured`), `MCEngineKeepPending.cfg` (`KeepPendingIsKept`) and
`MCReconciliationCap.cfg` (`CapHolds`). TLC finds each of the three violated within
a minute.

The properties are stated in their modules with what they mean in the code. The
ones to read first: `AckedIsNotLost` and `AckedIsSettled` (WebhookEngine),
`ImplementsContract` (the two inboxes and the idempotency store),
`JobIsSettled` (ReconciliationScheduler), `MoneyMovesOnce` and
`SafeDecisionsHold` (RecoveredPayment), `AppliedOnce` and `AnswersAreTrue`
(MutationFence).

`CHECK_DEADLOCK FALSE` stands where the system really may stop: a single call
(`claim_rules`), a settled event with no deliveries left (the engine), a closed
job with no openings left (`reconciliation`), a payment that ended (`routing`), a
finished reservation at the end of the bounded clock (`idempotency`) and calls
that ended (`mutation_fence`). The two inboxes are checked for deadlock.

## Bounds

Every bound is a constant of the configuration.

- `claim_rules` enumerates all rows with two hashes or fingerprints, times 0..2
  and unset, and attempts 0..2. The rules compare times and hashes only with
  each other, so "before, at, after" and "same, different, unset" is all they can
  tell apart. The proofs drop the bound.
- Inboxes: two hashes (a payload and one that supersedes it); in memory a lease
  of 1, a clock up to 2 and three tokens, in Postgres a lease of 2, delays of 0
  and 2, a clock up to 3 and three tokens, that is up to three acquisitions and
  renewals. A lease expires, is reclaimed and the loser comes back within these.
  The in-memory inbox has two keys and room for one, so every insertion evicts or
  is refused. Two claims of Postgres put a whole life of the row between any two
  statements of one claim.
- Idempotency: two hosts, two fingerprints, a skew of at most 1 against a lease
  of 2, a clock up to 4 and four tokens: a host that is ahead takes a reservation
  early, and the loser still has statements to send.
- Engine: two workers, three deliveries of two payloads, two attempts, one fault.
  With two workers one can lose its lease to the other; three deliveries allow a
  supersession and a redelivery after it. The liveness run has two deliveries.
  Two faults in one life of the event were not explored.
- Scheduler: two polls, two instances (a SQL and an in-memory store with both
  polls on one, a Redis store with one each), two openings of the job, two
  attempts, one retry_later, two faults and an in-flight cap of one: a job hangs,
  is taken over, reaches its budget, is closed and reopened while a slow poll
  still holds its old token. The two violations need one opening and no fault
  (retry_later) or one (the cap).
- Routing: tables of two rules for two gateways (and a third that only the
  fallback names), two currencies, ranges with and without a bound, one
  capability, two health reports. One payment with two rules is also reconciled,
  with an amount of 2, so that a capture or refund may be partial, and two
  replacements; the violated run needs one. The proofs drop all of these.
- Fence: three calls (two that race and a retry), two processes, two keys and
  room for one, two sets of parameters, two faults. Calls, processes, keys and
  parameters are symmetric: nothing compares them except for equality.

## Fairness

`engine_parked` and `reconciliation` assume weak fairness of:

- `Continue`: a store call that is awaited returns. The drivers time out, which
  is an error and takes one of the fault branches.
- the step in which the handler settles. The application owes this; a handler
  that never settles keeps its lease as long as its heartbeat succeeds, by
  design.
- `List`: the retry worker, or the periodic `processDue`, keeps polling, which is
  what the documentation asks of a deployment.
- `Tick`: the clock runs.

Deliveries, renewals, schedule calls and faults are owed to nobody. The fairness
conditions are `WF_work`, where `work` is the tuple of the variables that change
after `Init`, so that a poll that finds nothing to do does not count. Weak
fairness is enough because none of these steps, once enabled for a worker, is
disabled by another for ever.

## Assumptions

- One clock, except in PostgresIdempotencyStore. There `ImplementsContract` is
  stated for hosts whose clocks agree, and `LeaseOutlivesSkew` says what is left
  when they do not.
- Postgres runs READ COMMITTED, and an UPDATE or upsert of one key is atomic.
- The heartbeat fires every third of a lease, so a lease that runs out under a
  working owner means that its process stalled: that tick counts as a fault.
- A store operation that throws was applied at the time or never is; there is
  no write that arrives after later operations.
- The scheduler's store methods are each one step: the soft-release together with
  the select of a listing, and in Redis the range of the due index together with
  the reads of the jobs. The in-memory store does not survive a crash.
- The fence's records do not expire (as in `InMemoryIdempotencyStore`; a shared
  store must be configured so), and its `reserve` is atomic, as the interface
  demands.
- A payload is identified with its hash.
- When parking lost its fence the engine answers `handler_failed` or
  `already_processing`; the model has the first. Both make the provider redeliver.
- In MutationFence an answer of the provider that cannot be mapped counts as
  ambiguous, as all four gateways treat it.
- In RoutedPayment a request that a provider accepted leaves at least one true
  sign of it in what the application reports (`Truthful`), and an application
  does not claim to have aborted what it sent. Without the first, nothing in
  `fallback.ts` could tell; the proof shows that it is enough.
- In RecoveredPayment an order has one reconciliation job at a time (that is the
  scheduler's part); a provider's `failed` is final, and its snapshot of a failed
  payment that took money says how much; amounts are in one currency and parsed;
  the three secondary lookup keys are treated alike, as the code does. After a
  reroute at the application's own risk (`vouchedFor`) nothing more is promised. And
  `routing` and the two theorems about money have `OrderReferences` false: where the
  payment's id is not known, a secondary key names this attempt's payment only, as
  in the checkout kernel, whose reference is one attempt's. With the order's own
  reference the properties are not promised: see the next section.

## Divergences between code and documentation

Six configurations check what the documentation says and show that the code does
otherwise; the second, fourth and sixth are runs of `PROJECT.json`. The first three
lose no event; the last can end in a second charge.

1. `MCPostgresBackoff.cfg`, `webhook-inbox-store.ts:137`. A claim that missed reads
   the row and writes its `availableAt` back. If the row was reclaimed and
   failed in between, the repair (fenced only by `status = 'pending'`) replaces
   the new backoff by the old one, and the retried write acquires the row at
   once. `contracts.ts:601` says a claim must not.
2. `MCPostgresSoftRelease.cfg`, `webhook-inbox-store.ts:291`. The soft-release
   re-checks only `status = 'claimed'` on the locked row, so it wipes the token
   of a claim made after its snapshot. The comment above it says it must not
   clear a live token. The loser's fence protects the row. `ImplementsContract`
   is therefore stated for the deployment without pollers.
3. `MCEngineKeepPending.cfg`, `engine.ts:1116`. After a lost lease the failure is
   recorded with `deadLetter || nonRetry`, so `{ deadLetter: false }` is dead
   lettered on its first attempt. `types.ts:98` says it leaves the row pending.
4. `MCReconciliationLater.cfg`, `scheduler.ts:566`. `scheduler.ts:116` and `:154`
   and `reconciliation.md:232` say that retry_later does not consume `maxAttempts`.
   It never parks a job itself, but every claim increments `attempts` and the
   failure that reschedules the job does not give it back, so a later retry finds
   less of the budget: with two attempts, one retry_later and one retry park it.
   `LaterIsFree` is the documented budget; `ParkedForCause`, which holds, counts the
   recorded failures of retry_later as the code does.
5. `MCReconciliationCap.cfg`, `scheduler.ts:449`. `scheduling.md:194` says that
   `maxInFlightByGateway` is enforced over overlapping processDue calls of a
   scheduler, which share the count. The cap is compared at the listing and counted
   after the claim, so both of two overlapping polls pass it. `LiveCountsClaims`,
   which holds, is about the count.
6. `MCRecoveredOrderReference.cfg`, `lookup.ts:248`. `reconciliation.md:20-22` and `:36`
   offer the order's reference as a fallback key when the payment's id is unknown,
   and line 203 calls a safe `update_local_to_failed` identity-bound. While the id is
   unknown nothing distinguishes the attempts of one order: the lookup finds the
   first attempt's failed payment, and the second attempt, whose payment still
   moves, is written off on it and may be charged again.

Met while modelling, without a run of their own:

- A hang counter is kept for a key and outlives a job that another instance
  closes; after a reopening the new job may be parked after fewer hangs. The
  documentation speaks of the key and says nothing of a reopening;
  `ParkedForCause` counts the faults of all openings.
- Nothing ties an eligibility to an attempt (`fallback.ts:583`): one evaluated for an
  earlier attempt, or made up with a safe state, lets the router fall back after an
  attempt that was accepted. `NoDoubleCharge` excepts it.
- deleteExpired of the Postgres reconciliation store picks closed jobs in a
  subquery and deletes by key: a job reopened in between is deleted.
- `routing/src/fallback.ts:165`: a bare `validation_error` kind is no conflicting
  evidence against a safe explicit state, while `invalid_request` is.
- A local record and a provider that both say failed, with money captured, are
  `mark_consistent` (marked safe) although `shouldForbidReplacementCharge` is
  true of them.

## Proofs

Eight modules, all of their theorems for any values of the constants that meet
the named assumptions. Every invariant, action property and refinement that a
passing run checks is also a theorem; in each module an inductive invariant `IInv`
carries the rest, and TLC checked it on the bounds of the run before it was
proved.

1. **ClaimCalls_proofs**: the agreements of `claim_rules`, for every row, input,
   time and bound (`SqlImplementsDecision`, `MissImplementsDecision`,
   `StoresImplementDecision`, `ReserveImplementsDecision`,
   `JobImplementsDecision`, `FencedWriteImplementsDecision`), each by case
   analysis on the status. `StoresImplementDecision` needs that a claimed row has
   a lease and was counted, which the second module proves of the in-memory
   inbox.
2. **MemoryWebhookInbox_proofs**: `TypeCorrect`, `BudgetIsExact`, `TokensFence`,
   `CapacityHolds` and the refinement `Implementation`. The budget equation alone
   is not inductive: soft-release subtracts one only if there is one to subtract,
   and a token fences one row only if tokens of other rows differ and new ones are
   fresh. `IInv` says of each row on its own that its columns fit its status and
   its failure count (`Sound`), and of the rows together that tokens differ. Each
   write is shown to keep a row sound; the step proof says which rows a method
   touches. For the refinement, an acquired claim is `Acquire` of its row and
   `Lapse` of every row it evicts, because eviction skips active leases; a
   soft-release is a `Lapse`. The capacity holds because an insertion that finds
   the Map full drops the oldest evictable row, which exists (`OldestExists`).
3. **PostgresWebhookInbox_proofs**: `BudgetIsExact`, `InboxTypes` and the
   refinement `Implementation`, for any number of callers and pollers between
   whose statements others' come. What a caller knows between two statements is
   old, so `IInv` says what of it stays true: the timestamps it is about to write
   back had expired when it read them (`StaleReads`), and its token is its own and
   not yet granted (`OwnTokens`). From that a repair only reaches a lease that ran
   out, and the column agrees with what was promised about every lease that still
   runs (`LeaseColumn`). The last is what makes a late conditional write an
   `Acquire` of LeaseTable and never a theft. Where pollers run, the refinement is
   false (see the second divergence) and is not claimed; the budget is proved
   there too.
4. **PostgresIdempotencyStore_proofs**: `StoreTypes`, `IndeterminateStays`,
   `LeaseOutlives` and the refinement `Implementation`. The same argument with a
   clock for each host: the column is the promise unless both are over on some
   host's clock (`LeaseIsPromise`), so a reservation is taken at most the skew early
   (`LeaseOutlives`, for any clocks), and not early at all where the clocks agree
   (`Implementation`). In `IndeterminateStays` each statement's own WHERE clause
   excludes the row, except for the sweep, which deletes what it picked earlier: the
   tuple it picked is still the completed one (`SweptIsDone`).
5. **WebhookEngine_proofs**: `EngineTypes`, `ReportedOnce`, `AckedIsKept`,
   `BudgetHolds`, `OneHandler`, `HandlerPayload`, `DeliveriesSupersede`. `IInv`
   is about tokens: a token is fresh when it is issued, so no two workers hold the
   same (`OwnTokens`), and a worker whose token the row shows has counted every
   attempt the row has; without a fault a worker that runs the handler holds the
   row's token under a lease that runs (`RowKnown`). Two results have
   a hypothesis that the code makes necessary: `AckedIsKept` that an inline engine's
   handlers do not throw `{ deadLetter: false }`, since that is acknowledged and
   left to nobody (the hazard at `engine.ts:1135`); `BudgetHolds` that more than one
   attempt is configured where the inbox holds a row an inline engine failed, since
   that row already has one.
6. **ReconciliationScheduler_proofs**: `SchedulerTypes`, `AttemptsRecorded`,
   `LiveIsExact`, `OnePoll`, `ParksForCause`. `IInv` says that no two polls hold
   the same token (`OwnTokens`), that a poll's attempts are within the recorded
   failures plus its own claim in the first opening, that without a fault a poll at
   work holds the job's token under a lease that runs (`Known`), and what a poll on
   its way to parking has established (`RecordOK`). For `ParksForCause` a second
   invariant, `Paid`, is proved on top of it (`HangsArePaid`): every hang counted, and
   every poll that may still count one, has a fault of its own that was spent on it,
   so a counter that stands at the budget means as many faults. A hang counter is not bounded by
   `MaxAttempts` in general: with three faults TLC reaches one above it, so `TypeOK`
   says only that it is a number.
7. **MutationFence_proofs**: `MoneyMovesOnce`, `ResultsAreFinal`, `FenceTypes`,
   `AnswersHold`, `NoKeyStuck`, for any number of calls, processes, keys,
   parameters and faults and any of the four gateways. `AppliedOnce` says nothing
   of requests still on their way, so it is not inductive. The invariant says that
   whoever may still send a request for a key, or make the key free again, can rely
   on the key being *quiet*: the provider moved nothing for it and has nothing left
   to apply (`RelianceIsJustified`); that a free key is quiet; that at most one
   request is in flight for a key; and that two calls hold one key only to repeat
   the result already recorded (`HeldKeys`). The same invariant gives that a
   recorded result never changes. `TInv` builds on it: what a call is about to
   answer, what a record says, and what a shared promise will resolve to are each
   true of the provider and stay so. `SInv` adds that Moyasar and Paymob
   settle a key only by completing, marking or freeing it.
8. **RecoveredPayment_proofs**, on RoutedPayment and on what follows it.
   `ChargedOnce` rests on a lemma about the classifier, `AcceptedIsUnsafe`:
   whatever else a report holds, one true sign of acceptance keeps it from being
   classified as safe; the invariant `ChargedIsDenied` then says that no attempt is
   under way once a provider accepted. `FallbackStaysHonest` rests on the three
   honesty rules not depending on the gateways' health or on exclusions
   (`ClosedIgnoresHealth`). `PaymentTypes` needs that `select`'s ranking has a best
   rule among any that match (`BestExists`): preference, cost, id and order leave
   no tie. `MoneyMovesOnly` and `SafeIsTrue` hold for any number of fallbacks and
   replacements and any moves of the providers, under the hypothesis
   `~OrderReferences`, without which the second is false (sixth divergence). Their
   invariant: all payments but
   the last are dead (they took nothing and never will), and so is the last while
   the application may charge (`PastIsDead`); the local record names the last
   payment or none and never runs ahead of it (`RecordIsBehind`); and what a job
   holds is true although it is old (`JobIsSound`): a snapshot says only what the
   payment's further moves cannot take back (`StillTrue`). From the last,
   `DecisionIsTrue` shows each safe decision true, and `AllowedIsDead` that a
   replacement is allowed for a dead payment only.

The assumptions used are the named ones of the modules. Of those, that keys
(`KeysAssumption`), workers (`WorkersAssumption`) and polls (`PollsAssumption`) are
finitely many is there for the proofs: capacity and overlap are about
cardinalities, and a fresh token is the least that nobody holds.

Only model-checked are the two liveness properties, `AckedIsSettled` and
`JobIsSettled`, with the fairness above: liveness and ENABLED are out of this
prover's reach. So are the six violations, which are TLC's counterexamples. And
that a fold or recursion computes what it should for every input is out of reach
as well; the models use none where a property depends on it.

## What is not modelled

- `withTransaction` of the in-memory inbox (it restores a snapshot of the whole
  Map), `clear`, and the test hook `simulateCrash`.
- Verification of a delivery, hashing, key derivation and redaction: the model
  starts at a verified event with a hash, and an open choice of whether it can
  be stored.
- In the fence: calls without an idempotency key, which run unguarded;
  MyFatoorah's lookup of an earlier invoice before it submits, and its calls where
  the provider itself is idempotent (Kuwait, Saudi Arabia); stored results that do
  not parse.
- In the routing: a rule's tenant configuration and hard merchant preference
  (`match.ts:105-117`), which filter like the fields that are modelled.
- In the engine, a `ctx.renew` that fails otherwise than by a lost lease, and other
  steps between the call and the lost answer of one renewal (`HeartbeatFault`).
- Timestamps are numbers; the SQL compares texts, which order alike in the canonical
  form that all writers of the repository use.
- A row that an inline engine superseded without a snapshot keeps the older
  `payloadRef` under the newer hash (`COALESCE`); the run starts only from a row
  with no stored payload.
- Of the reconciliation stores, the statements inside a claim, deleteExpired and
  listTerminal; of the scheduler the manual operations, each of which passes one
  call to the store, and the arithmetic of the backoff.
- SQLite, libSQL and D1 run the same templates under one writer, and of Redis only
  the claim rules and the due index are here: each script is atomic. Both have
  fewer interleavings than the Postgres modules.
- The Durable Objects alarm: it needs a model of alarms and input gates of its
  own.
- The core client and its retry loop, the gateways' mapping to provider APIs,
  migrations, adapters, observability, testkit, the demo shop and the
  documentation site: data mapping and sequential plumbing, without a protocol of
  their own. Together they are most of the repository's lines.

## Plan

What would come next, in this order:

1. The statements of the Postgres reconciliation store, with deleteExpired, as in
   PostgresIdempotencyStore.
2. The Durable Objects alarm: some alarm is always set for the earliest due row.
3. The core retry loop with abort and deadline around a fenced mutation.
4. The older-payload row in the engine; clock skew in the inbox.

Proofs: what the next modules add. A refinement of LeaseTable by the job rows of
ReconciliationScheduler would state for the third kind of store what is proved of
the other two.

## Running it

```
tlc -workers 2 -config MCEngine.cfg MCWebhookEngine.tla
tlapm MutationFence_proofs.tla
```

`PROJECT.json` names the module, configuration and properties of each run.
`MCPostgresBackoff.cfg` goes with MCPostgresWebhookInbox, `MCEngineKeepPending.cfg`
with MCWebhookEngine and `MCReconciliationCap.cfg` with MCReconciliationScheduler.
