# A TLA+ verification of the x402 mesh inference gateway

The gateway sells inference. A client pays per request over x402, a node of the mesh serves
the request, and the gateway pays the node's operator its share on Algorand. This directory
models the parts of that system where steps of several parties, failures and restarts meet,
and the rules on which two parties have to agree; it model-checks them with TLC, and proves
the central results with TLAPS.

Paths below are relative to `src/packages/`.

## 1. Inventory

### Money: what is owed, and to whom

| Component | State | Operations | Hard because |
|---|---|---|---|
| settlement service (`settlement/src/service.ts`) | routing notes, claimed ids, audit ledger, open accrual per operator, payout jobs, liabilities mirror, one chain of durable writes per operator and per request | `recordRouting`, `settleInbound`, `accrue`, `flushAccrual`, `runPayout`, `finalizeSettled`/`finalizeFailed`, `recoverAccruals`, `hydrateLedger`, `flushPayouts`, `whenIdle`, `getPendingPayouts` | payouts run concurrently with new accruals and with the writes that make them durable; a payout may land after it was given up; a process may stop anywhere |
| accrual store (`registry/src/store/accruals.ts`) | `open:<operator>` and `batch:<id>` rows with an index | `putOpen`, `removeOpen`, `putBatch`, `removeBatch`, `loadAll` | written by independent contexts, read only after a restart |
| audit ledger store (`registry/src/store/ledger.ts`) | records and a capped order list | `put`, `loadRecent` | up to six commands per write; writes of different requests overlap |
| Algorand port (`gateway/src/services/algorand.ts`) | none; the network's pool, leases and the indexer | `pay`, `findLandedPayout` | timeouts that say nothing about the outcome, leases that end, an indexer that lags or fails |
| price split (`shared/src/pricing.ts`) | none | `computeSplit`, `assertSplitInvariant`, `resolveModelPrice` | rounding, zero and 100 per cent |
| process (`gateway/src/server.ts`) | – | boot, graceful shutdown, forced exit | recovery before traffic, drain within a deadline |

Correct means: a settled request is owed to the operator of the node that served it; it is
paid to that operator once; the ledger says settled only of what was paid, and the pending
report hides no debt that is on record; no debt is dropped by a restart; every payout reaches a terminal state and a shutdown ends.

### Traffic: who serves

| Component | State | Operations | Hard because |
|---|---|---|---|
| router (`gateway/src/services/router.ts`) | per request: attempt, nodes tried, sink started | `route`, `callNode`, `performCall`, `pumpStream` | retry only before the first byte; every exit must give the node's slot back |
| node store (`registry/src/store/memory.ts`, `redis.ts`) | record, in-flight count, outcome window per node | `upsert`, `recordOutcome`, `beginRequest`, `endRequest` | read-modify-write across awaits, several gateways, degradation to a mirror |
| selector (`registry/src/selector/`) | none | `select`, score, routability | reads a list that is stale when used |
| chat handler, settlement hook (`gateway/src/routes/chat.ts`, `app.ts`) | disconnect signal, routing note | `handleChat`, `attachSettlementHook`, dynamic price | the response may have ended, and its payment settled, while the call is still being accounted for |
| registration and heartbeat (`gateway/src/routes/nodes.ts`, `services/registryAdapter.ts`, `services/nonceCache.ts`) | nonces | `handleRegister`, `handleHeartbeat` | check, await, then write |
| rate limiter (`gateway/src/middleware/rateLimit.ts`) | token buckets | take, refill, evict | clock edges, capacity |
| node daemon (`node-daemon/src/`) | permits and waiters, beat timer, backoff, cached health | `Semaphore`, server, `HeartbeatLoop`, `register`, SSE reader, providers | aborts against releases, one timer at a time, frames split anywhere |

Correct means: a node's in-flight count and health say what its calls did; no answer mixes
two nodes; whoever served is credited; every request is answered; a node that runs is a
candidate and one that is gone is not; a permit is neither lost nor given twice.

### Rules two parties share

| Component | Shared by |
|---|---|
| prices, tiers, money (`shared/src/pricing.ts`, `money.ts`, `gateway/src/x402/routes.ts`) | operator, catalogue, 402 challenge, settlement |
| network names and what a signature covers (`shared/src/networks.ts`, `signing.ts`) | gateway, daemon, facilitator |
| completions (`shared/src/schemas.ts`, `node-daemon/src/providers/openai-compatible.ts`) | backend, daemon, client |
| environment (`shared/src/config.ts`) | operator, both processes |
| errors (`shared/src/errors.ts`, `gateway/src/middleware/errorHandler.ts`) | gateway, client, daemon |
| checks (`node-daemon/src/doctor.ts`, `scripts/preflight.ts`, `/readyz`) | operator, the running system |

They keep no state; what can go wrong is that two places decide the same question
differently, or that an odd but legal text is read as something else.

### How they meet

The router's `onNodeSelected` writes the settlement service's routing note, and the x402
middleware's after-settle hook calls `settleInbound`, which takes the note. In `Settlement`
these are the actions `RecordRouting` and `SettleInbound`, free to happen for any operator
while a request is live; `Mesh` shows which operator the note names when the hook takes it
(`PaidToServer`). The node store is used by the router's bracket and by the node routes:
`Mesh` composes both over the store's promised operations (`NodeStore`), `RedisNodes` shows
what is left of these when the store is Redis commands of several processes. The daemon
meets the gateway in `Enrolment`, and its clients in `Serving`.

## 2. Modules

| Module | What it is |
|---|---|
| `Debt` | abstract specification: a request's debt is incurred once and discharged once, by a transfer to its operator |
| `PriceSplit` | `computeSplit` and `assertSplitInvariant` over the naturals |
| `Settlement` | the settlement service, its accrual store, the Algorand port and the network, and the process's life; implements `Debt` |
| `MCSettlement` | instances for TLC |
| `SettlementProofs` | what holds of the settlement service whatever fails (inductive invariant and theorems), and what holds in an orderly deployment: the refinement of `Debt`, single payment, no debt lost |
| `AuditLedger`, `AuditLedgerProofs` | the ledger map and its copy in Redis, command by command, with restarts; its theorems |
| `NodeHealth` | the outcome window, `deriveHealth` and `mergeRecord`'s use of it, shared by both stores |
| `NodeStore` | the node store's records, as single steps |
| `Mesh` | the request path over `NodeStore`: selection, call, retry, answer, settlement of the client's payment; registration and heartbeat |
| `MCMesh` | the instance for TLC |
| `MeshProofs` | the inductive invariant of the request path and the theorems |
| `RedisNodes`, `RedisNodesProofs` | the Redis store command by command, several gateways, crashes, the fall to the mirror; its theorems |
| `Enrolment`, `EnrolmentProofs` | the daemon's life and the gateway's memory of it, over an unreliable wire; its theorems |
| `Admission`, `MCAdmission`, `AdmissionProofs` | nonce cache and token buckets under a clock that may be set back; its theorems |
| `Serving`, `ServingProofs` | the daemon's server, semaphore, streams and health probe; its theorems |
| `Sse` | the event stream parser and the provider's reader, fed character by character |
| `Pricing` | money as digit sequences, price tables, the price asked for and the price advertised |
| `Selector` | eligibility, weights, the weighted draw, percentiles, the public list's `routable` |
| `Networks` | the spellings of a chain, both processes' choice of one, and what a signature covers |
| `Completion` | `normalizeCompletion` and the schema it has to meet |
| `Configuration` | both environment schemas field by field, and the node's registration against its schema |
| `Diagnosis` | doctor, preflight and `/readyz` over the states of the world they ask about |
| `Replies` | error classes, details, the error handler, and the daemon's reactions |
| `MCRules` | the rules above but for `Replies` as questions over bounded inputs |
| `MCReplies` | the same with the questions of `Replies`, for TLC |
| `RulesProofs` | the answers, the configuration, the diagnostics, the eligibility and the weights for every input |

### Settlement

One JavaScript thread runs the service, so what runs between two awaits is one action.

* *Intake.* `RecordRouting` (with the pruning of old notes); `SettleDuplicate`,
  `SettleNothingOwed`, `SettleUnbatched` and `SettleAccrued` are the four ends of
  `settleInbound`. `SettleAccrued` contains `accrue` and the flush at the threshold or at the
  size cap; `Deadline` is the age timer.
* *Durable writes.* `enqueueWrite` appends to the operator's chain; `PutOpen`, `Promote`,
  `PutBatch`, `RemoveOpen`, `RemoveBatch` are what the store does with its head, and
  `WriteFails` a command that fails and is swallowed. A records array is serialised when its
  write runs, as in the code. `Promote` is the first half of the promotion, which leaves
  `removeOpen` at the head.
* *Payouts.* `job[b]` is where `runPayout` is: `check` (a resumed batch asks the chain first),
  `pay`, `await` (the confirmation), `look` (after a failed attempt), `last` (after the last
  one), `done`. `findLandedPayout` answers with the indexer's truth or, within the fault
  bound, "nothing".
* *Network (external).* A submitted transfer sits in `pool`, lands or expires. A landed one
  holds its lease until `LeaseEnds`. `LeaseCoversRetry` says whether a window outlasts the
  attempts that follow; the code does not guarantee it, so runs set it either way.
* *Ledger rows.* Both stores are built from the same Redis, so the ledger survives a process.
  `rows[r]` is the set of statuses that may turn out to be the last row stored of a request:
  what was read back or there at the start, and every row queued since (`persistLedger`), any
  of which may fail or die with the process. The `pending` row and the `accrued` one that
  `accrue` queues behind it in the same turn are not told apart. `hydrateLedger` picks one of
  them for each request, fills the ledger and claims the ids, or, within the fault bound, fails
  and leaves both empty. `AuditLedger` has the same rows command by command.
* *Life.* `Shutdown`, `FlushPayouts` (one round of the loop), `Exit`, `Crash`, then `Boot`,
  `RecoverBatch`, `RecoverOpen`, `Listen`; `BootBlind` is a boot whose `loadAll` throws. Both
  boots hydrate the ledger first. A recovered request that the ledger already has keeps the
  status that was read back until its payout ends (`payRecovered`).
* *Refinement.* `debt` and `paid` are history: a request is in debt from its first settlement,
  and paid when a transfer that covers it lands. `ImplementsDebt` maps every step of the
  service, the store, the chain, a crash or a boot to a step of `Debt` or to a stutter.

Payout ids are numbers drawn when an accrual is opened, and never repeat, like
`<time>-<sequence>`. A payable recovered row always has a sum to pay, since only payouts above
zero are accrued, so the branch for a zero sum is left out; the refusal of a bad split is left
out because `SplitNeverRefused` proves it dead.

### AuditLedger

`remember` and `update` append the status to the request's chain (`persistLedger`); each of
`Get`, `Set`, `SetNew`, `Lpush`, `Lrange`, `Ltrim`, `Del` is one command of
`RedisLedgerStore.put` for the head of a chain. A failing command ends its write, as in
`enqueueWrite`. `Restart` forgets the memory and hydrates it: the newest ids of the order
without those whose key is gone, oldest first, and an id that a repeated put listed twice only
once, at its oldest place, as the keys of a JavaScript map keep it (`Hydrated`). A read that
fails leaves the ledger empty. `Restart` resumes any set of requests, because which accrual
rows survive is not this module's business.

### Mesh

Every await of the node store is a step boundary, as for several gateways over one Redis; a
single gateway with the memory store has fewer interleavings. Slots are reused: each `Arrive`
is a new request. `pc` follows `callNode`: `select`, `begin`, `call`, `stream`, `report`
(`recordOutcome`), `release` (`endRequest`, and what follows without an await: the answer, the
retry, the error handler), `done`. A stream's response ends in `StreamEnds`, before the
outcome is reported, whether the stream was complete or broke; `Settle` may then run at any
time. Node handlers keep in `handler` the record they read and will write. Time is the flag
`fresh`: the last sign of life is within `staleAfterMs`.

The x402 middleware is external, modelled as `app.ts` describes it: a response below 400 is
settled, any other cancels the payment.

### RedisNodes

One node, because the keys of different nodes are disjoint. `call[g].at` is the command a
gateway's call to the node does next: INCR, then `recordOutcome`'s GET, LPUSH, LTRIM, LRANGE
and SET, then DECR. `put` is the one registration or heartbeat the daemon has under way:
`UpsertGet`, `UpsertLrange`, `UpsertSet`, `UpsertSadd` after the handler's own read. `Fail` is
a command that fails: the gateway goes to its memory mirror for good and does there what is
left of the operation (`run`'s fallback); `Crash` replaces a gateway by a fresh one. A command
whose answer is lost is the command followed by a failure of the next.

### Enrolment and Serving

`Enrolment` has one node. The daemon is `phase` (off, starting, running, stopping), its
`listening` socket, its one `timer`, its failure `streak` and the one `call` it awaits, which
may be a beat, a registration attempt, a backend probe or a sleep between attempts. What it
sends goes to `wire`, from which the gateway may take it before or after the daemon has given
up (`TimesOut`), once more than it was sent (`Delivery` of a message that stays), or never.
The gateway's handler is `Delivery` and `Handled`, since it awaits the store; `GatewayStops`
forgets nonces and records, as with the memory store. The timer is never armed with less than
a millisecond (`jitter`); the random part of the delay is left out.

`Serving` has the server's requests and other callers of the same semaphore. A caller that gives
up while it waits takes itself out of the queue (`AbortWait`: `indexOf`, `splice`). `pc` of a request
is `body`, `chat`, `stream` or `idle`; `out` is what was written to the response. The health
cache has its own part of the state, with `since` the age of the last moment the backend gave
each answer.

### Admission

`clock` is `Date.now()`: `Tick` and, within a bound, set back. `Claim` is `assertFreshTimestamp`
followed by `NonceCache.claim`; `Limited` and `Let` are the two ends of the limiter's handler,
with refill and eviction. Fractional tokens are exact: one tick refills one unit, a token is `Token` units.

### The rules

`MCRules` has two kinds of behaviour: an event stream body that is read in chunks of any size
(`Sse` with its own actions), and a single question put to one of the other modules; `MCReplies`
adds the questions about failures. Each of those modules ends in the predicates that say what is right (`QuotedAsAdvertised`,
`EligibilitySound`, `DrawSound`, `NetworksSound`, `NormalForm`, `WrittenIsRead`,
`DoctorSound`, `ReplySafe`, …), stated from what the operator wrote or the world is like, and
not from the operators under test.

Two things the code keeps as lists are functions and sets here, because only membership matters:
a daemon's models keep the place in which each was written, with gaps where a blank one was
dropped (`modelsField`), and the facilitator's kinds that settle this chain are the set of
their places in its answer (`settling`).

## 3. Runs

| Run | Shows |
|---|---|
| `settlement_faults` | with a crash at any point and a failing store command, a blind boot or a failing lookup: no request in two payouts, no false `settled`, read back or not, no recorded debt missing from the pending report; no process takes back a verdict of its own, and no debt or stored batch is taken back |
| `settlement_recovery` | two processes that end with their writes done, over a reliable store and indexer: every debt is always held by someone, and the service implements `Debt` |
| `settlement_process` | one process and its graceful end, batched and unbatched, two operators, a request to which nothing is owed: `Debt` is implemented (so a debt is paid once), every record becomes terminal, a shutdown ends |
| `settlement_crash` | *violation*: a payout repeated after a crash before its promotion |
| `audit_ledger` | two requests over a ledger of one entry, a failing command, a restart: the stored order keeps to its cap, a stored row never contradicts the ledger |
| `mesh_requests` | two nodes of two operators with registrations and heartbeats: in-flight counts and health flags are exact, no mixed answer, the server's operator credited, every request answered |
| `mesh_benched` | *violation*: a benched node that works is never chosen again |
| `redis_nodes` | two gateways over one Redis, a failing command or a crash: the shared counter is exact but for the calls a fault cut off, no outcome counted twice, a stale flag heals, a lost node comes back |
| `enrolment` | starts, stops, crashes and restarts of both sides, lost, late and repeated requests: the loop never dies, nothing is left behind, a retry is no replay, who runs is listed, who is gone is not |
| `admission` | both caps and both window edges, a clock set back: a message passes once but for one instant, nobody exceeds the rate, Retry-After is enough |
| `serving` | hang-ups, aborted waits, backend failures, close and reopen: permits exact, nobody stranded, a cut stream says so, a reused health answer is recent, everyone gets a turn |
| `rules` | all the questions, those of `MCReplies` included |

Five more configurations are kept for their counterexamples or as a second instance. They are
not among the runs; `tlc -config <file> <module>` reproduces them.

| Configuration | Module | Result |
|---|---|---|
| `SettlementRetry.cfg` | `MCSettlement` | `PaidAtMostOnce` is violated when a lease ends before the attempts do |
| `SettlementBlindBoot.cfg` | `MCSettlement` | `DebtHeld` is violated after a boot that could not read the store |
| `MeshOwner.cfg` | `MCMesh` | `OwnerKept` is violated by two overlapping registrations |
| `AuditLedgerLeak.cfg` | `AuditLedger` | `NoLeakedRows` is violated by two overlapping writes |
| `MeshLoad.cfg` | `MCMesh` | passes: two requests at a time on one node with a window of three |

### What the violations say

* `settlement_crash`. The promotion of an open accrual to a batch is queued and the payout
  starts without waiting for it. A crash after the transfer is submitted and before the batch
  row is written leaves the open row, which recovery pays under a new id that neither the
  lease nor the lookup connects with the first transfer. When a process ends with its writes
  done the property holds (`settlement_recovery`, whose crashes are *drained*).
* `SettlementRetry`. After a failed attempt the service looks, sleeps and submits again. The
  comments rely on the lease to refuse a repetition; a lease ends with its transfer's validity
  window. A transfer that commits after the look, with a window that ends in the backoff, is
  paid again. With `LeaseCoversRetry` it is not (`settlement_process`).
* `SettlementBlindBoot`. A boot whose `loadAll` throws goes on to serve. The first accrual
  for an operator writes the open row the boot did not read.
* `mesh_benched`. `select` drops an unhealthy node before it weighs the candidates, and only
  an outcome of a call can make it healthy again. A client's disconnect counts as a failure of
  the node, so a node can be benched for ever without a fault of its own.
* `MeshOwner`. Ownership of a node id is checked with `get` and written with `upsert`; two
  registrations of a free id that overlap both pass, and the later one re-points the id.
* `AuditLedgerLeak`. `ledger.ts` reads what falls off the list before trimming it, so that no
  record leaks its key. An entry pushed between another write's LRANGE and LTRIM pushes one
  more off the list, which nobody deletes.

### Narrower than the text around the code

The properties are stated as strong as they hold. Where a comment or a document says more:

* A verdict that was read back is not final. Recovery resumes what the store has, whatever the
  ledger says: a batch that failed in an earlier process is tried again, and may settle; a
  request read back as settled may turn failed, where a crash left its open row and the payout
  under a new id does not get through. `Irrevocable` says that a process takes back no verdict
  of its own, and which others it may replace. `hydrateLedger` has the comment "A request already
  in the ledger must never be paid again, whatever arrives later" (`service.ts:367`); new
  settlements are refused by the claim it makes there, and recovery does not ask.
* A request read back as accrued or failed of which the store has no row, because its write
  failed or died with the process, is owed and in no row of the pending report; nor is, after
  a boot that could not read the store, anything it did not read. The mirror's comment says
  that it may under-report. `PendingReport` is about what the process holds, and about what is
  on record.
* A signed message passes a second time at exactly twice the skew, after its nonce was evicted
  at the cap, and after the clock was set back (`PassedOnce` names the instant and excludes
  the other two). A client whose bucket was evicted at the cap of the limiter starts with a full
  one (`RateHeld` counts from there).
* `docs/deploy-fly.md` says a lost registration heals within one heartbeat interval; after
  failures the next beat may be a backoff of up to two minutes away. `Enrolled` is liveness only.
  The heartbeat interval may be configured above the gateway's staleness limit; the model
  lets a node go stale between any two beats.
* An unreachable algod makes a registration a 400, which the daemon does not retry.
* The backend's end of stream without `[DONE]` counts as a clean end, and `normalizeUsage`
  with a total alone repeats it for prompt and completion.
* The health comment says there is one definition of "routable"; the public node list decides
  on its own. `SelectionSound` shows it hides no eligible node, and not that it lists only
  such.
* The error handler's comment says that destroying the socket is the only honest signal once
  the headers are sent; the code ends the response.
* `doctor` passes a frozen asset holding that `preflight` refuses, and wants money for an
  opt-in that is already there. It says "ready to register" of configurations whose
  registration its own schema refuses (some model ids, endpoints that are not http).
  `DoctorSound` claims that the node can be paid unless its holding was frozen.
* `preflight` is to "verify a deployment can actually take a payment" (`scripts/preflight.ts:2`)
  and accepts a facilitator that lists the canonical network name only. The gateway asks the
  payment library for the full name, and the process ends when no kind has it
  (`shared/src/networks.ts:28-37`). `PreflightSound` says that of the deployments it passes
  just those boot whose chain is listed in full. The price of the next point passes, too.
* `usdcToAtomic` takes "$0.004", so configuration accepts it and the split, the pricing table
  and the body of the 402 show the right amount; but `priceString` puts another dollar sign in
  front, and "$$0.004" is what the middleware asks the payment library to charge. That is no
  price (the repository's own parser refuses it), so such a model cannot be bought.
  `QuotedAsAdvertised` says which prices are charged as written, and that no other amount ever
  is. `/health` compares the batching minimum with "0" as a text, so "0.0" is reported as
  batching.
* The payment window of a route covers one node timeout and a minute; the router makes up to
  two attempts. Durations are not modelled.

### Bounds

*Settlement.* Two requests, because the smallest batch that is not a single request, and the
smallest overlap of an open row and a batch row, need two; four payout ids, so that each
request can be accrued and recovered under an id of its own (three in `settlement_faults`,
where one restart uses no fourth, and two in `settlement_process`, which has no recovery); a threshold of two units, so that an accrual stays open after one
request and flushes after two, and in `settlement_process` also 0 (unbatched) and 1 (every
request flushes). One attempt with faults, two otherwise: a retry is the second attempt. One
or two process ends and, beside them, one fault: every counterexample found needs a single one
(in `settlement_faults`, `OneFault`: of whichever kind). That run also notes each request once
and keeps the note until it settles (`NotedOnce`): notes that lapse, that are written again and
that meet a claimed id are in `settlement_process` and `settlement_recovery`, and the theorems
have them together with every fault.
The guards name every bound: `MaxPayouts`, `MaxEnds`, `MaxStoreFaults`, `MaxLoadFaults`,
`MaxLookupFaults`; `MaxLoadFaults` above zero also lets a boot fail to read the ledger. The two
requests of `settlement_faults` and `settlement_recovery` paid the same, so one stands for the
other (`AlikeRequests`); these runs check safety only, for which that is sound.

*Mesh.* Nothing is counted up, so requests, registrations and heartbeats go on for ever.
`mesh_requests` has one slot and two nodes, which is all a request and its retry can touch, a
window of two and a threshold of two; `MeshLoad.cfg` adds overlapping calls on one node and
trimming beyond the streak. Two slots on two nodes exceed the time of a run.

*RedisNodes.* Two gateways, two calls in all (a lost update needs two), one fault, a window
and a threshold of one, so that every outcome changes the flag. Heartbeats and registrations
are not bounded. *AuditLedger.* Two requests and a cap of one: each write trims the other.
*Enrolment.* Three nonces: one in flight, one late, one remembered; two attempts; a ceiling
that cuts the first doubling; one fault besides crashes, stops and restarts, which are not
bounded. *Admission.* Two messages and two clients at caps of two and one; four ticks, twice
the acceptance window; one tick back. *Serving.* One permit, a request and two callers, so that a
waiter stands behind another; two overlapping probes, which may outlast the cache. *Rules.* Every
body of up to three lines and an unfinished one (whole and divided payloads, `[DONE]`, comments
and blank lines, with either line end), cut in every way; prices of one decimal place where the code has six, tables of two entries, so that the
digit too many and the entry too many both happen; configurations with any two variables at
or past their limits.

`CHECK_DEADLOCK FALSE` is set where the system really stops: in the settlement runs, the
ledger and the admission run the requests are finitely many, and in `rules` a question is
answered. The others check for deadlock.

### Fairness

`Settlement`: weak fairness of what the event loop runs by itself: due timers, store commands
(ioredis answers or fails), the steps of a payout (every network call has a timeout), the
shutdown's loop and a supervisor's restart. None for clients, faults or the network: a
transfer need never land. `Mesh`: weak fairness of the continuations of a request and of a
node handler, and of the end of a call, whose deadline `nodeRequestTimeoutMs` covers the body.
`BusySpec`, for `mesh_benched` only, assumes much more (clients keep coming, every candidate is
chosen, calls succeed, heartbeats arrive), which makes the violation stronger.

`RedisNodes`: weak fairness of a started operation's commands, and strong fairness of a
registration and a heartbeat reaching each gateway: the daemon's beats do not stop and a
balancer spreads them, but the daemon may be busy with another whenever a gateway is ready.
`HealthHeals` asks for a gateway that stays connected, `ComesBack` for nothing more.
`Enrolment`: weak fairness of timers, of awaited calls (each has a deadline), of delivery to a
gateway that runs, of the handler and of time; nothing for starts, stops, crashes and
restarts, so `Enrolled` and `Retired` are about behaviours in which these come to an end.
`Serving`: weak fairness of a request's next end (a body arrives or breaks, a provider call
has a deadline) and of a caller's work.

## 4. Proofs

A run shows a property on a small instance, a theorem for every value of the constants. Each
proof module has an inductive invariant `IInv`, one lemma per action (and in it one step per
conjunct the action can disturb), and the theorem `Inductive` (`Spec => []IInv`) from which the
others follow. `RulesProofs` is about operators: its theorems are about every input, and those about
`RulesSpec` say that each question the run asks is such an input.
The assumptions are the named `ASSUME`s of the modules, which TLC evaluates in the runs.

| Module | Theorem | States |
|---|---|---|
| `SettlementProofs` | `TypeCorrect` | `TypeOK` |
| | `NoRequestInTwoPayouts` | `OnePayoutPerRequest` |
| | `SettledMeansPaid` | `LedgerTruth` |
| | `ReportIsTrue` | `PendingReport` |
| | `SplitNeverRefused` | every split of `computeSplit` passes `assertSplitInvariant` |
| | `WhatIsDoneStands` | `Irrevocable` |
| | `DebtImplemented` | `ImplementsDebt`, if `Orderly` |
| | `NoDoublePayment` | `PaidAtMostOnce`, if `Orderly` |
| | `NoDebtIsLost` | `DebtHeld`, if `Durable` |
| `MeshProofs` | `TypeCorrect`, `CountsAreExact`, `HealthFollowsOutcomes`, `PaymentFollowsService` | `TypeOK`, `InFlightExact`, `HealthIsEarned`, `PaidToServer` |
| `RedisNodesProofs` | `TypeCorrect`, `CounterIsExact`, `OutcomesAreReal` | `TypeOK`, `InFlightExact`, `NoInventedOutcomes` |
| `ServingProofs` | `TypeCorrect`, `PermitsAreExact`, `ResponsesEndHonestly`, `ReusedHealthIsRecent` | `TypeOK`, `PermitsExact`, `HonestEnd`, `HealthIsRecent` |
| `EnrolmentProofs` | `TheLoopLives`, `TheDaemonEndsClean`, `RetriesAreFresh` | `LoopAlive`, `CleanEnds`, `RetryIsNoReplay` |
| `AuditLedgerProofs` | `TypeCorrect`, `OrderStaysCapped`, `RowsAreCurrent` | `TypeOK`, `OrderCapped`, `RowsCurrent` |
| `AdmissionProofs` | `TypeCorrect`, `MessagesPassOnce`, `RateIsHeld`, `RetryAfterIsEnough` | `TypeOK`, `PassedOnce`, `RateHeld`, `RetryAfterSuffices` |
| `RulesProofs` | `AnswersNormalised`, `AnswersAreNormal` | `NormalForm` of any answer; `AnswerNormal` |
| | `GatewayReadsWhatIsWritten`, `DaemonReadsWhatIsWritten`, `ConfigurationFits` | `WrittenIsRead`, `GatewayFits` and `DaemonFits` of any environment; `ConfigFits` |
| | `DoctorIsRight`, `PreflightIsRight`, `DiagnosisIsSound` | `DoctorSound` and `PreflightSound` of any world; `DiagnosisSound` |
| | `EligibilityIsSound` | `EligibilitySound` of any node |
| | `WeightsAreFair` | of `DrawSound`, what is about the weights, of any list |

### Settlement, whatever fails

`SettlementProofs` holds for every set of requests and operators, every threshold, retry policy,
bound and crash mode: however crashes, lost writes, blind boots and failing lookups fall, no
request is in two accruals, payouts or stored batches, and the ledger says settled only of what
was paid. None of the invariants is inductive. `IInv` adds what they lean on:

* `IdsInOrder`: an id that has been handed out has an operator, and one that has not has left
  no trace in memory, store or network, so a fresh id cannot meet an old row or transfer;
* `OpenUnpaid`: an operator's open accrual is its own, and nothing of it has been submitted;
* `OnlyDebts`: what is held or stored is owed, and a request that may still settle for the
  first time is not, so it cannot already be in someone's hands;
* `RecoveryInStep`: a process that has ended holds nothing; one that recovers holds what it
  has handled, and each stored batch is either handled or still to do;
* `RowsInRecs`: a stored batch says no more than the payout of the same id;
* `Covered`: a transfer covers all that its payout and its stored batch hold, which is what
  makes a confirmation, or the indexer's answer, a proof of payment;
* `RowsTruth`: no row stored, queued or lost says settled of what is owed and not paid, so that
  a ledger read back is as true as the one it was written from.

`PendingReport` has two parts, and neither needs reliability. What the process holds follows
from a second invariant on top of `IInv`: `HeldInOrder` (a payout with records is open or has
a job, and recovery makes no unbatched one) and `Mirrored` (this process has settled a request
exactly when its accrual is closed and its batch no longer a liability). That what is on record
is held, as long as every boot could read the store, is `Shown`: nothing is queued of an
unbatched payout (`RecordsBatched`), and every request of a stored row is in a batched payout
or accrual of the process, from the moment recovery has been through the rows
(`RecordedInSight`). Held and not paid, it is not settled, by `LedgerTruth`, and so is reported.

`Irrevocable` is an action property, and needs no reliability either. A payout that has not
ended holds a request with a verdict only where the verdict was read back and no row has been
queued since (`VerdictsLast`), so that a retry, a late look or a recovery that would reach
another verdict than this process's own has no job left to reach it in; this is inductive
with `IInv` and `ReportInv`; that a request is in one payout only is `OnePayoutPerRequest`. That a stored
batch loses nothing unpaid follows from `RemovedLanded`: a removal is queued only after the
payout's transfer has landed. `WritesInOrder` says that the writes before it in the
operator's chain never store less than is there.

### Settlement, in an orderly deployment

That debts are paid, once, depends on what the deployment provides, and the violations of
section 3 show that the conditions cannot be dropped. They are conditions on constants of the
model, each with instances among the runs:

* `Orderly`: a lease outlasts the attempts that follow it (`LeaseCoversRetry`), no process ends
  with a durable write outstanding (`CrashMode # "any"`), and neither store nor indexer fails.
  `SettlementRetry.cfg` drops the first, `settlement_crash` the second. Blind boots are allowed:
  they forget, and pay nothing twice.
* `Durable`: payouts are batched, no process ends with a write outstanding, and the store
  neither fails nor is unreadable at a boot (`SettlementBlindBoot.cfg`). Leases may lapse and
  lookups may fail: they cost a double payment, never a debt.

The proofs add three invariants to `IInv`. `WritesInOrder` needs no condition: a queued
`putOpen` is of the accrual that is still open, or is followed in its queue by a write that
clears the row; only payouts are promoted. `DebtInv` says who may be paid for what: what a
payout id holds, has stored or has sent is owed to its operator (`OwedToOwner`), is carried by
no other id, and if paid was paid by that id's transfer (`Attributed`); after a transfer has
landed no other is pending, and as long as attempts are made the lease is held (`OneTransfer`);
a request in an open row is untouched unless the row is about to be cleared
(`OpenRowsUntouched`), which is why recovery may pay it under a new id. `HeldInv` says where an
unpaid debt is in each phase (`HeldByPhase`), that the open row has or is about to have all that
an open accrual holds (`RowFollows`), and that only rows of landed payouts are removed
(`RemovedLanded`). `StepRefines` maps every step to a step of `Debt` or a stutter.

### Mesh and the node stores

`MeshProofs` proves, for every set of nodes, operators and handlers, every finite set of
concurrent requests, every window, failure threshold and concurrency cap:

* `TypeCorrect`: `TypeOK` always holds.
* `CountsAreExact`: `InFlightExact` always holds.
* `HealthFollowsOutcomes`: `HealthIsEarned` always holds.
* `PaymentFollowsService`: `PaidToServer` always holds.

Here too `IInv` adds what the properties lean on:

* `FreshNodes` and `HandlersSound`: an unregistered node has neither calls nor outcomes, and a
  registration that found it unregistered carries the count zero. `mergeRecord` takes the
  caller's count for a new node only, so the write cannot disturb `InFlightExact`; and it takes
  the caller's health for an empty window only, for which a clean bill is right;
* `CallsRegistered`: a node that is called stays registered, so every outcome and every
  begin or end has a record to go to;
* `Crediting`: the response holds bytes of the current selection only, none before a stream
  begins or a call succeeds, and the routing note names that selection's operator until the
  payment settles. A retry after bytes were sent would break it, which is what
  `sink.started` forbids.

What each store operation does to one entry is stated once, as a lemma (`BeginEffect`,
`EndEffect`, `OutcomeEffect`, `UpsertEffect`, `StaleEffect`), and the step lemmas use those.
`InFlightExact` counts with the cardinality theorems of `FiniteSetTheorems`.

`RedisNodesProofs` holds for every finite set of gateways, every window and threshold, and any
number of calls, failing commands and crashes. Its `IInv` has three parts:

* `CountInv`: the counter in Redis is the connected gateways' calls past their INCR and those
  that a fault cut off; it carries its own types and is inductive with them;
* `TotalsInv`: a record that is stored, *or that some step has read and may write back*, counts
  no outcome of a call that is still to write its own (`Sound`). Read-modify-write loses
  outcomes but cannot invent one, and this is why: every copy in flight is an old truth;
* `WindowInv`: the list is longer than the window only by pushes on their way to LTRIM and by
  trims that failed.

### The daemon

`ServingProofs` holds for every set of connections, callers and probes, every number of permits
and chunks and every lifetime of a cached answer. `IInv` has three independent parts.
`PermitInv`: beside `PermitsExact`, the queue is without repetition and holds exactly those that
wait, which a release (the head is granted) and an abort (a splice) both need. `ResponseInv`
relates what a response has so far to the request's phase and to how its backend ended: nothing
before the body is read, a stream is its head and chunks until its end is written, and a client
that is still there has had the head. `HealthInv`: the age that a cached answer, or a probe
under way, carries is at least the time since the backend last gave that answer.

`EnrolmentProofs` holds for every finite set of nonces, every interval, backoff and number of
attempts. `LoopInv` names, phase by phase, who owns the daemon's next step: nobody, the start
command, the timer, or the beat it started. `NonceInv` adds to `RetryIsNoReplay` that nonces
tell messages apart and that a message still on its way has not been claimed. `Enrolment`'s
`TypeOK` is not proved, because it bounds the timer and the backoff computes with `2^n`, which
the provers do not interpret; the invariants carry the types they need.

### Ledger and admission

`AuditLedgerProofs` holds for every finite set of requests, every cap, and any number of failing
commands and restarts. `OrderCapped` is inductive with the types: each put between its push and
its trim accounts for one entry. `RowsCurrent` speaks of requests whose writes are done; while
no command has failed, `Following` says the same of those under way: the last status queued for
an entry of the ledger is the ledger's, and a write that has set its row finds there what it
wrote or, if another write evicted the request meanwhile, nothing (`Written`). `Written` holds
because the writes of one request are chained, so nobody else sets the row.

`AdmissionProofs` holds for every window, cap, capacity and refill rate, any number of messages
and clients, and every clock that goes back within its bound.

* `PassInv`: of a message that has passed, and whose nonce neither the cap evicted nor a clock
  set back outlived (`excused`), the cache has the last pass until it is as old as the
  retention; by then the only pass left is at the very end of the message's window.
* `RateInv`: the account of a bucket. What it holds now, and what was taken since any request of
  its client, is no more than a full bucket and what time has refilled since, where time that
  was set back counts twice. A client whose bucket the cap on buckets evicted gets a full one,
  and its account, like `RateHeld`, begins anew.
* `RetryInv`: the time promised refills the bucket to a token. The seconds are rounded up, and
  `RoundedUp` is the fact about division that makes it enough.

### The rules, for every input

`RulesProofs` proves what the run `rules` tries on bounded inputs.

* *Answers.* `AnswersNormalised`: whatever a backend answers, any number of choices and deltas,
  any counts, fields of any kind or missing, an object becomes a completion of the contract once
  and for all: no choice and no text is lost, no reported count changes, and the counts add up
  when those reported leave one unknown.
* *Configuration.* For every environment, with any number of odd variables at once where the run
  has two, and any limit on models: `ReadKinds`, `NumberRead`, `TextRead` and `ModelsRead` say
  what each kind of field makes of a text, `WrittenInForce` that the fields do not disturb each
  other. The theorem about the daemon asks that its model ids are of the kinds the gateway tells
  apart (`ModelTexts`), which is no restriction on texts but the model's naming of them.
* *Diagnostics.* Accounts of any amount and any minimum balance, any list of kinds a facilitator
  advertises. A report is a sequence of lines, and each check adds its own: `JoinReports` says
  that two reports under different names make a report under both, which fails when either
  does, and whose skipped lines stay behind a failure. With one lemma per check the theorems
  compose the whole reports. `DoctorWorld` and `PreflightWorld` say what a world is, of one
  more thing only than types: an operator who is the payee has the payee's account. All worlds
  the run shows are such (`AskedDoctor`, `AskedPreflight`).
* *Selection.* `EligibilityIsSound`, for nodes with any number of capabilities. `WeightsAreFair`,
  for lists of any length and any latencies and prices: a list of numbers has a greatest and a
  least element (`GreatestOf`, `LeastOf`, by the least counterexample), and a place in a span,
  rounded down, keeps the order and does not see a common factor (`SpanDivides`,
  `CommonFactor`).

The run's specification is `RepliesSpec`, `RulesSpec` with one more question, about failures; the
invariants proved of `RulesSpec` say nothing about that one.

### Only model-checked

* *Liveness*: `Resolved`, `ShutdownEnds`, `Answered`, `Enrolled`, `Retired`, `Turns`,
  `HealthHeals`, `ComesBack`. Arguments under fairness are out of this prover's reach.
* *The rest of the rules*. `SelectionSound` is proved but for the draw itself (how many
  thresholds pick a candidate, in whatever order the store lists them), the percentile and the
  fall of the quality with each failure: sorting and sums over a list are recursive functions of
  the library, which the provers do not unfold, and what they compute for every list takes
  induction over data. The same is true of `PricesQuoted` (an amount is a sum over its digits),
  of `ChunkingIrrelevant` (frames are folded out of a text) and of `NetworksAgree` (keys are
  sorted), of which the run enumerates every configuration of both sides and every change.
  `Replies` sanitises nested values with RECURSIVE operators, so `RepliesSafe` is out of reach,
  and `MCReplies`, which adds it, is kept apart from `MCRules`, which the proofs build on.
* *The types of `Enrolment`*, for the reason above.
* *The violations* and their counterexamples.

## 5. Not modelled, and what is left

Of the modelled parts: batching without a durable store, two gateways over one accrual store,
the endpoint and the opt-in of a registration (a stale heartbeat writes both back), lifetime
counters and uptime of nodes, a gateway's crash in `Mesh` (it is in `RedisNodes`), durations
other than those of `Admission` and `Enrolment`, and model listing of the providers. A store
command that fails has no effect, and Redis loses nothing it was told. The cap of the ledger is
in `AuditLedger` only: in `Settlement` no row is evicted or trimmed away. How the payment
library turns a price it can read into base units is its own; it is taken to be exact. The two
clock reads of a node route (`nodes.ts:107`, `nonceCache.ts:40`) are one in `Admission`.

`Serving` has the waiting half of the semaphore because it is the exported class that is
modelled; the daemon's server calls `tryAcquire` only.

Of the repository: the network guard (arithmetic over address literals without state or a
second opinion; a refused endpoint is a refused registration or a failed call), pages and
discovery documents (generated text), telemetry and wiring, the command line, and the
simulations and tools under `scripts/` other than preflight. The stand-in gateway used by the
simulation settles before it routes and answers an unknown node with 400, so it is not a model
of this gateway either. `payerFromRequest` in `rateLimit.ts` and `node-daemon/src/canonical.ts`
have no caller.

The map covers about a third of the implementation's lines, tests and tools included in the
count, and two fifths of the packages.

What could still be proved, should the code around it change: `deriveHealth` as an operator (it
is unhealthy exactly when the newest outcomes are failures), that a paid request is never
submitted again in an orderly deployment (an action property; `NoDoublePayment` says that no
second transfer lands), and what a signature covers, once the canonical form is stated without a
sort. What would need another model: two gateways over one accrual store, and registrations with
their endpoints.
