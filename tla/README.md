# TLA+ models of the ORYA wallet core

These modules model the parts of the ORYA omnichain smart account wallet in which the
order of concurrent steps decides whether the result is right: request failover in the RPC
manager and the RPC orchestrator, the signing queue, the Reown adapter that drives it and the
sessions beside it, session keys with the execution contexts and batches built on them, the
threshold policies of the enterprise multi-sig service, the rate-limited calls of the Sui
provider, and the smart account contracts. TLC checks them on small instances; TLAPS proves the
safety results for every value of the constants.

Paths below are relative to the repository; `wc/` stands for `packages/wallet-core/src/`.

## Running

    tlc -workers 2 -config RPCManager_failover.cfg MCRPCManager.tla
    tlapm RPCManagerProofs.tla

`PROJECT.json` lists every run with its module and configuration, the mutants that show
each property can fail, the source lines each definition stands for, and the hazards the
properties are aimed at.

## 1. Inventory

The repository is a TypeScript monorepo (1,859 files) with Rust services and two Solidity
contracts. Most of it is user interface, generated adapters and documents; the logic sits in
`packages/wallet-core`. JavaScript runs one callback at a time, so its concurrency is that of
calls suspended at an `await`, of timers, and of intervals; the contracts' is that of calls
that call back and are rolled back.

| Component | State | Operations | What is hard | What makes it correct |
|---|---|---|---|---|
| RPC manager `wc/services/RPCManager.ts` | per chain: provider list; per provider: health record, request counter, window start | `request` with failover, health-check interval, `addProvider`, `removeProvider`, rate-limit resets, `shutdown` | requests walk a list taken at their start while records change; limit read before the await, counted after it; overlapping check rounds; one record under several registrations | failover in order and exhaustive; list and records agree; verdict and counter agree; bounded overshoot; a dead provider comes back |
| RPC orchestrator `wc/services/rpc/RpcOrchestrator.ts` | two clients that may be missing; health and metrics per provider | `executeWithFallback`, `monitorProviderHealth`, marks, `resetMetrics`, `selectBestProvider` | live health reads between awaits, overlapping rounds and marks under a request, four registered providers without a client | giving up means every provider that stayed healthy failed; verdict and counter agree; the choice can be used; a dead provider comes back |
| Signing queue `wc/connectivity/reown_disabled/SigningQueue.ts` over `sessionStore.ts` | requests with a status, one timer each | add, approve, reject, mark broadcasted/confirmed/failed, remove, clear, timeout, destroy | timers outlive the state they were set for; marks have no status guard | bounded; each request answered once; none waits for ever |
| Reown adapter `wc/connectivity/reown_disabled/ReownAdapter.ts` | initialised flag, broadcast mode, status pollers | `signTransaction`, `signMessage`, the pipeline open/sign/broadcast, polling, `waitForSigningResult`, `destroy` | user, timer, pipeline and overlapping polls write one status; `destroy` during an await | "confirmed" is true; a verdict is lost in no way but one; the queue's contract survives |
| Session manager `wc/connectivity/reown_disabled/SessionManager.ts` | sessions, active session, pending approvals, persisted | create, approve, reject, switch, clean up | eviction at the limit, expiry against approval, reload | the limit is exceeded by sessions in use only; active means approved; what is shown for approval is what was not answered; expired sessions go |
| Session keys `wc/services/session-keys.ts` | keys by id, key ids by wallet | create, look up, validate, revoke (one, all), suspend, resume | creation awaits; expiry noticed only by the next look | the two maps agree, so revoking all keys reaches all |
| Privy/AA integration `wc/services/privy-aa-integration.ts` and batches `wc/services/batch-operations.ts` | contexts, each with a key and a batch; batch status and operations | `createExecutionContext`, `executeTransaction`, `executeBatch`, batch edits and marks | batch changes while a policy or the bundler is awaited | a user operation holds all that its batch lists afterwards; a batch past editing never grows; size bounded |
| Chain health polling `wc/services/chainHealthPollingService.ts` | one interval per chain, a store | start, stop, add, remove, check | calls a React hook outside of a component | – (not modelled, section 6) |
| Enterprise multi-sig `wc/services/ika/enterprise-multisig.service.ts` | policies, transactions with their signatures and threshold | create policy, initiate, sign, reject, execute, add and remove signers | policies change under transactions; rejections and executions during an execution; ids that collide | passed by a threshold of different signers; executed stays executed; counter and list agree |
| Multi-sig client and other Ika services `wc/services/multisig.ts`, `wc/services/ika/` | cached wallets and proposals; recoveries | propose, approve, execute over HTTP; key generation in steps | stale answers replace newer ones; steps that fail midway | depends on the server and the SDK |
| Smart account contracts `packages/zkSync-aa-contracts/contracts/` | signers, signer count, quorum, nonce; accounts by owner | initialize, add/remove signer, validate, execute, create | executions call out before they count the nonce and may be re-entered or rolled back; a count beside the mapping | quorum stays reachable; executions numbered; no nonce takes effect twice |
| Sui RPC provider `wc/sui/rpc-provider.ts` | a token bucket that may be replaced; caches | reads and transactions through `executeWithRetry` and `acquireToken`; `setRateLimitPerSecond`; cache switches | calls sleep for a token another call may take; retries ask again; a wall clock that is set | a bucket's rate holds over any stretch of time; a call is refused only under load |
| Transaction service `services/transaction-service/` | rows in Postgres | create with idempotency key, update, retry, settle | check-then-act across connections | confirmed is final; one row per key |
| Protocol core `packages/protocol-core/` | registry, preferences | quotes, choice of the best | partial failure of quotes | best of those that answered |
| Connectivity, swaps, bridges, payments, offline, stores, hooks, adapters, applications, subgraphs, infrastructure | little or none of their own | calls to vendors, user interface | I/O | – |

How they interact: the applications reach the services through hooks. The RPC manager serves
every balance and transaction call. The Reown adapter owns a `ReOwnWalletManager`, which owns
the signing queue; the queue's requests live in the session store, which the approval modal
reads and answers (`useReOwnApprovals`); beside it the session manager keeps the sessions in
the same store, and the adapter's `destroy` resets both. The RPC manager delegates to the
orchestrator on request. The integration service owns a session key service,
a batch service and an account abstraction service and hands the first two out, so that
callers change keys and batches behind its back. The bundler, the wallet application, the
RPC nodes and the chain are external.

`wc/connectivity/reown_disabled/`, `wc/services/ika/` and `wc/services/multisig.ts` are
excluded from the package's compile (`packages/wallet-core/tsconfig.json`); tests and
documents of the Reown directory remain, and its files are modelled as they stand.

## 2. Modules

| Module | Models | Composes |
|---|---|---|
| `RPCManager` | `RPCManager.ts` | – |
| `SigningLifecycle` | abstract: what the queue promises | – |
| `SigningQueue` | `SigningQueue.ts` and the signing part of `sessionStore.ts` | refines `SigningLifecycle` |
| `ReownAdapter` | `ReownAdapter.ts`, user, wallet and chain | extends `SigningQueue`, refines `SigningLifecycle` |
| `SessionKeys` | `session-keys.ts` | – |
| `PrivyAAIntegration` | `privy-aa-integration.ts`, `batch-operations.ts` | extends `SessionKeys` |
| `RpcOrchestrator` | `RpcOrchestrator.ts` and the registry in `RpcProviderConfig.ts` | – |
| `SessionManager` | `SessionManager.ts`, the session part of `sessionStore.ts`, and how `ReOwnWalletManager` and `ReownAdapter` call them | – |
| `QuorumApproval` | abstract: what a k-of-n approval promises | – |
| `EnterpriseMultiSig` | `enterprise-multisig.service.ts` | refines `QuorumApproval` |
| `AAAccount` | `AAAccount.sol`, `AAFactory.sol` | – |
| `SuiProvider` | `sui/rpc-provider.ts` without its caches | – |
| `MC*` | instances for TLC | extend the module of that name |
| `*Proofs` | TLAPS proofs | extend the module of that name |

A module that builds on another extends it and works on the same variables, so the definitions
of the lower one carry its name (`QueueNext`, `KeysTypeOK`) and its properties are stated once,
checked and proved of both.

An action is the code between two awaits: its guard is what the code tests there, its primed
variables what it writes before it suspends again or returns. A call that throws before it
changed anything is no action. An operator named `X_Something`, placed above `X`, is a
plausible bug in `X`: replacing `X` by it makes the property named in `PROJECT.json` fail.

### RPCManager

One chain (providers of different chains share no key). An *entry* is one provider
configuration object; its *id* is the key `chain:name` of all the maps, which two entries may
share because `addProvider` pushes without looking. `isHealthy`, `failures` and `known` are
the health map, `count` and `elapsed` the rate-limit counter and whether its one-second
window is over. A *caller* is one pending `request()`: `todo` is the rest of the list it
sorted at its start, `cur` the entry it awaits, `pc` whether it awaits headers or body. A
*checker* is one pending `performHealthChecks()` round. `list` and `passed` are history
variables that only properties read. The sort by priority and weight is a fixed rank; the
clock is `WindowElapses`.

Left out: latencies and statistics, which no modelled decision reads, and the
delegates to the orchestrator.

### SigningLifecycle, SigningQueue, ReownAdapter

`SigningLifecycle` is the contract: a request enters while fewer than `Capacity` wait, only a
waiting request is answered (signed or rejected), reports of the network replace each other,
and requests are forgotten; under fairness a waiting request is answered.

`SigningQueue` has one variable for the status in the store and one for the entry in
`requestTimers`. `markBroadcasted`, `updateConfirmations` and `markFailed` overwrite any
status and leave the timer, as in the code.

`ReownAdapter` adds, per request, the await at which `processTransactionRequest` stands, the
status poller, and the polls in flight: `setInterval` starts a poll whether or not the last
one has answered, and an answer may be as old as the poll's start. The chain is external: a
transaction is sent while the wallet or the provider is asked for it and decided once. What
providers answer is assumed true at some time between question and answer; they may also
answer nothing or throw. Every message and transaction is one request with a fresh id, so an id that left the store does
not come back. `processedRequests` is left out, since no fresh id is in it.

### SessionKeys, PrivyAAIntegration

`SessionKeys` has the key's status in `sessionKeys` (`creating` while `createSessionKey`
awaits), whether its `revokedAt` is set, the sets of `sessionsByWallet` and the keys whose
time has passed. A key need not belong to a context, since the service is handed out. Expiry is a fact no call writes down: the calls that meet an expired key
revoke it. Permissions, policies and nonces are left out, being read only by validation.

`PrivyAAIntegration` adds the batch of each context (`batch`, `ops`, and `stored` while the
batch service holds it), and where each `executeTransaction` (`tx`) and `executeBatch`
(`run`) call stands; `carried` records the operations a run put into its user operation. A run
without account abstraction makes none: the code makes up a hash, sends nothing, and marks the
batch submitted. So do callers of the batch service, such as the hook `useBatchOperations`, with a
`markAsSubmitted` of their own: "submitted" says nothing of what was sent, and no property relies on it. The
three feature switches of the configuration are on.

### RpcOrchestrator

Requests for one chain. `Order` is the concatenation of the tiers, `Registry` the order of the
object's keys; a provider outside `Implemented` has no client at all, one outside `instances`
none because its constructor threw (no API key). A request runs without interruption from one
await to the next: `FallBack` takes it past every provider that is unhealthy when reached or
cannot be asked, and those of the latter kind that were healthy fail on the way. Failures are
counted up to the limit, beyond which the code reads no difference; of the metrics only
`served`, whether a success rate is above zero, decides anything. `owed` is a history variable.

### SessionManager

A session's fresh id is its place in the order of creation, `1..created`, by which the code finds
the oldest one. `isApproved` and `isActive` are set together and never reset: one set, `approved`.
All sessions have the same lifetime, so they expire in that order too; `expired` grows on
its own and only the calls that look at it remove sessions. `Without` is the store's
`removeSession`, which leaves the id among the pending approvals. The store persists through
zustand's `createJSONStorage`, which is external: it hands strings to a storage written for
objects, so every write fails and a `Reload` starts empty.

### QuorumApproval, EnterpriseMultiSig

`QuorumApproval` is the contract: a matter is opened with a number of voters it needs, passes
when that many different ones are for it, and may be refused. Only a matter that passed is begun
(`underway`), only one under way is performed, so that a refusal stops all but what was begun before
it; nothing leaves `executed`. A matter may be begun several times over.

`EnterpriseMultiSig` keeps a policy's signers as the array it is (`createMultiSigPolicy` does
not look for repeated addresses) beside its counter. A transaction's id is its dWallet and the
millisecond: `instant` is the transaction whose id this millisecond yields, `named` what the map
holds; an execution that awaits the chain keeps the object (`run`) whether it is named or not. Those
under way, for the contract, are the ones some execution keeps (`InExecution`).
Timelocks are measured against the policy of the moment, thresholds against the one of the start.

### AAAccount

The state is the storage of the accounts and of the factory, and the stack of executions under
way. `_executeTransaction` calls out before the nonce is counted, so a frame keeps the storage a
revert goes back to, and between `Call` and `Finish` any other call may be made, further
executions included. The bootloader calls `executeTransaction` from the top level only.
`executed` and `accepted` are history variables: the nonces of the events, and those among them
that were validated; a revert takes them back with the rest.

### SuiProvider

Time is counted in ticks, milliseconds in the code. `now` is the clock of `setTimeout` and `wall`
the one of `Date.now()`, by which the bucket refills and which `ClockIsSet` may move either way.
`level` and `last` are `tokens` and `lastRefillTime` of every bucket there has been: the
constructor's, and one for each `setRateLimitPerSecond`; `current` is the provider's, `bucket`
the one a call asked and stays with while it sleeps. Tokens are counted in units in which a
token and the refill of a tick are whole numbers; the code's floating point is taken as exact, and
timers as late but never early. A rate may be zero: the constructor replaces zero by its default,
`setRateLimitPerSecond` does not, and such a bucket is empty for good. `requests`, `since` and `wasSet`
are history variables; `requests` is written where a call comes to its request (`Logged`), not where a token is
taken, so a request that went out without one would be counted.

Left out: the caches (a read they answer asks for no token), the wording of errors, and how long a
backoff takes.

## 3. What the runs check

| Run | Question | Bounds |
|---|---|---|
| `rpc_failover` | Are requests failed over in order and exhaustively, and do the two check-then-act counters overshoot no further than the concurrency? | 2 providers with limits 1 and 2, 2 requests, threshold 2 |
| `rpc_reregister` | Do records, verdicts and counters stay in agreement when one name is registered twice and removed while a request and two check rounds are in flight? Does the request leave its fetch phase, and does an unhealthy provider that answers again come back? | 1 name, 2 entries, 1 request, 2 rounds |
| `queue` | Has each pending request its timer? Does the queue implement `SigningLifecycle`, liveness included (bounded, each request answered once)? | 3 requests, 2 places |
| `adapter` | Is "confirmed" true, does a poller follow a broadcast, is a status final once nothing is in flight? Does the adapter keep the queue's contract? Does a tracked transaction get a verdict, and keep it unless a poll from before the decision is still out? | 2 requests, 1 place, 2 overlapping polls each, one awaited by `waitForSigningResult` |
| `adapter_rejected` (finding) | Is a rejected request kept from broadcast? | 1 request, 1 poll |
| `keys_revoke_all` (finding) | Does revoking all keys of a wallet leave none active? | 3 keys, 2 wallets |
| `batch` | Does each user operation hold all that its batch lists from then on, and one of two all of the other? Is a batch past editing frozen? Do the key service's two maps agree, whatever is done to the keys and while executions find one expired? | 1 context with key, another key of the wallet, 2 transactions, 3 runs (two through the bundler), 2 places |
| `orchestrator` | Is every provider that stays healthy asked before a request gives up? Do verdict and counter agree? Can the selected provider be used? Does a provider that was written off come back? | 2 providers with a client that may be missing, 1 without between them, 2 requests, limit 2, 1 check per provider in flight |
| `sessions` | Is the active session approved, are the unanswered ones shown, does only use exceed the limit, are approved ones spared? Does a session that is expired while the interval is set go, whatever destroys and reloads come first? | 6 sessions created, room for 2 |
| `multisig` | Does the policy stand? Does the service implement `QuorumApproval`? | 1 dWallet, 2 signers in lists of 2 to 3, thresholds 1 and 2, 2 transactions, 2 executors |
| `sui` | Is a bucket's rate kept by the requests of first attempts and retries together, whatever the clock is set to? Is a call refused only under load? | 2 calls with 1 retry and 3 passes each, 3 buckets, one with rate zero, 5 ticks, 1 clock setting |
| `account` | Does the quorum stand, are executions numbered, is replay excluded, under re-entry and reverts? | 1 account, 4 addresses, 3 executions, 3 calls deep |

**Why the bounds are enough.** A race in this code is between a call and one other writer of
the same record, or between two calls and a third step that changes what both read. Two
requests and two providers give every order of one overtaking the other and of failover
meeting a limit; one name with two entries is the smallest case in which registrations
share a record. Two overlapping polls let the older answer land last; a queue with one place
fewer than there are requests fills up. Two transactions and three runs let
one join and one leave between two snapshots, with a run that sends nothing before, between or after
them; the batch is never over-full there, and that it cannot be is proved (`BatchesAreBounded`). Six sessions on two places let the
limit be exceeded several times and the oldest be in use. Two transactions and two executors give a
collision of ids, an execution of the replaced one, a double execution and a rejection during
either. Three calls deep and three executions let an inner execution return or revert inside one
that reverts, and every count be reached along different paths. Two calls on a bucket let one
sleep through all its passes while the other, which retries, takes the tokens; a clock that is set to
the second tick goes back or forward, so that a bucket falls below zero or fills up between two calls; between two buckets that refill lies one that never does.
Two keys of a wallet, one of a context, let revoking all meet a key in every state beside another. The theorems below remove the
bounds for every invariant and action property of the passing runs. No run has a state constraint. In `RPCManager`, `failures` and
`count` are bounded by the number of visits the properties speak of, because a record at its
threshold is offered to no new request and a full window admits none.

`MaxSigners`, `MaxNonce`, `MaxDepth`, `MaxChecks`, `MaxCreated` and `MaxTime` are bounds
of the guards, named in the modules.

Deadlock checking is on in every run but those of `SuiProvider`, whose calls all end.

**Fairness.** Each assumption is a mechanism of the code:

* `RPCManager!FairSpec`: a fetch settles, because an `AbortController` rejects it at the
  timeout. The timer is cleared when the headers arrive, so nothing is assumed of the body
  and `LeavesFetch` claims only the fetch phase. The health-check interval fires and a probe
  settles (it has its own abort timer). That a provider which is probed for ever answers
  some probe is the hypothesis of `Recovers`, not a fact of the code.
* `SigningQueue!QueueFairSpec`: `setTimeout` fires unless cleared. The liveness of the contract
  rests on this alone, not on a user.
* `ReownAdapter!FairSpec`: the same, `setInterval` ticks, the network decides a sent
  transaction, and a provider asked for ever about a decided transaction does tell. Nothing
  is assumed of polls that come back empty or throw.
* `RpcOrchestrator!FairSpec`: the interval fires while it is set, and every check is answered,
  at the latest by its timeout. That a provider which is checked again and again answers well at
  some time is an assumption about the provider, and the hypothesis of `Recovers`. Nothing is
  assumed of requests: the clients clear their abort timer when the headers arrive, so a body
  may hang, and no property says that a request ends.
* `SessionManager!FairSpec`: the clean-up interval fires while it is set. `ExpiredLeave` asks that it is
  set at some time at which the session is expired, not that it stays so: a destroy that stops it
  empties the store, and a manager made later sets it again.

## 4. Findings

* `adapter_rejected` – `processTransactionRequest` ignores the verdict of
  `approveSigningRequest`: a request that was rejected, or timed out, while the signature
  was awaited is broadcast all the same.
* `keys_revoke_all` – `suspendSessionKey` accepts a revoked key and `resumeSessionKey` then
  makes it active, while no wallet's set lists it any more: revoking all keys of the wallet
  leaves it active.

Met while modelling, without a run of their own:

* `RPCManager.request` reads the rate-limit counter before its await and counts after it, so
  concurrent requests exceed the limit; `RateOvershootBounded`, proved, says how far.
* `startStatusPolling` starts a poll at every tick without waiting for the last one and does not look
  back when one answers (`ReownAdapter.ts` 595-623): a `pending` asked for before the network decided
  and answered after another poll's `confirmed` or `failed` makes the request `broadcasted` again, and with the poller
  stopped it stays so for ever. `TrackedIsDecided` names this way to lose a verdict (`Overtaken`) and
  excludes every other; without that alternative TLC finds it violated. No document, comment or test
  of the repository promises that a verdict is final, so there is no run of its own for it.
* A poll that throws marks the request failed whatever the chain decides later, and
  `waitForSigningResult` stops the poller on `broadcasted`, after which nothing is followed.
* Without account abstraction `executeBatch` and `executeTransaction` make up a hash and send nothing
  (`privy-aa-integration.ts` 223-226 and 272-273), and the batch is marked submitted. `executeBatch` looks at no
  status: called twice, it sends the operations twice.
* A broadcast that resolves after `ReownAdapter.destroy()` starts an interval on the destroyed
  adapter, which polls until the network decides and marks nothing.
* `getSessionKey` returns revoked and suspended keys, where two tests of the service expect
  `undefined` (`wc/__tests__/session-keys.test.ts` 191 and 227).
* Sessions do not survive a reload, because the storage of `sessionStore.ts` 210-251 expects
  objects where `createJSONStorage` gives strings; `INTEGRATION_GUIDE.md` 529 of that directory
  says they are persisted to localStorage.
* `createSession` evicts inactive sessions only, so approved ones exceed `maxSessions`, and
  `ReOwnWalletManager.createSigningRequest` asks that the session exists, not that it is approved.
* Without an Ankr key, `selectBestProvider` names Ankr first among providers that never
  succeeded and returns `{ provider: undefined }`; `SelectionUsable` therefore supposes that
  both clients were built. A success that arrives late takes back `markProviderUnhealthy`, errors
  that the caller's own parameters cause count as failures of the provider, and a request that
  finds every provider unhealthy reports "Last error: undefined".
* `_validateTransaction` counts signatures and not different signers, so one signer's signature
  given twice makes the quorum of two. `Validates` models that as it stands, and no property here
  claims more.
* `executeTransactionFromOutside` validates nothing; it shares the nonce with validated
  transactions, which is why `accepted` is told apart from `executed`.
* `acquireToken` bounds passes and not time: of many calls that wait, the ones that others
  overtake are refused after ten sleeps, and after the last one without another look at the bucket.
  `RefusedUnderLoad` says what a refusal takes. A clock that is set back refuses without load.
* A token bucket starts full, so a new provider at ten requests per second sends ten at once; the test
  "should enforce rate limit" (`wc/__tests__/sui-rpc-provider.test.ts` 258) expects five to take a
  tenth of a second. The limit is one of each bucket: `setRateLimitPerSecond` starts another full
  one, and calls that sleep stay with the old one, so that for a while requests go out on both.
* `executeMultiSigTransaction` writes `executed` over a rejection that came while the chain was
  awaited, and two calls execute a transaction twice. `QuorumApproval` allows the first only for an execution that
  was begun before the rejection, and says nothing of the second. A transaction initiated in the same
  millisecond as another one of its dWallet replaces it.

## 5. What is proved

All proofs hold for every value of the constants under the named assumptions of the modules
(functions have the domains and ranges they should; provider entries, callers,
transactions and account addresses are finite sets; thresholds and maxima are positive or natural numbers).

| Module | Theorems | Argument |
|---|---|---|
| `RPCManagerProofs` | `TypeCorrect`, `HealthyIsBelowThreshold`, `RecordsAgree`, `RateOvershootIsBounded`, `FailoverIsInOrder`, `GivingUpIsExhaustive`, `FailureOvershootIsBounded` | `TypeInv` adds to the types that a caller in flight has an entry. `HealthInv` adds to the health property that an id without record is unhealthy with no failures, since a late success may write only an existing record. `RecordsMatchProviders` is inductive given the types. The bound on the rate is proved per provider and limit: admission raises the callers in flight by one while the count is below the limit, an answer moves one from flight to count. `OrderInv` splits a request's list into what it passed, the entry it is at and what is to do, each before the next in its order, which `BeforeIsOrder` shows to be strict and total: both failover properties follow. For the overshoot of failures, `FailureInv` bounds a record's failures and the *visits* callers may still pay to entries of its name: entering a record below the threshold adds at most one such visit for each caller and entry, and a failure uses up one (`VisitUsed`). |
| `ReownAdapterProofs`, the queue | `QueueTypeCorrect`, `PendingIsTimed`, `QueueIsBounded`, `AnsweredOnlyOnce`, `QueueImplementsLifecycle` | Stated of `QueueSpec`. `PendingGrowth`: a step either leaves no new pending request or adds exactly one to a queue with room. The refinement maps each action to one of the contract's or a stutter: `RequestTimesOut` is an answer only for a request still pending. |
| `ReownAdapterProofs` | `AdapterTypeCorrect`, `ConfirmedRequestsAreTrue`, `PollersFollowBroadcasts`, `SettledRequestsStay`, `AdapterImplementsLifecycle`, `AdapterQueueIsBounded`, `AdapterAnswersOnce`, `AdapterPendingIsTimed` | `Consistent(r)`: what a poll in flight saw stays true, a poller starts only when the pipeline is through, a destroyed adapter knows no request. A step of one request leaves the others alone (`OthersUntouched`), so one request suffices. What the queue promises by itself is carried over to the composed system: the bound and the single answer follow from the contract it refines, the timers from its own steps. |
| `SessionManagerProofs` | `SessionsTypeCorrect`, `ActiveSessionIsApproved`, `ShownAreTheUnanswered`, `OnlyUseExceedsTheLimit`, `CreationSparesApproved` | The three invariants are inductive given the types. Every removal is a `Without` (`WithoutKeepsIInv`). For the limit, creation is split by how full the store is: below it there is room; at it one unapproved session goes, if there is one, because a nonempty set of sessions has an oldest (`LeastElement`); above it only the newest could be unapproved and makes room for the next. |
| `PrivyAAIntegrationProofs`, the keys | `KeysTypeCorrect`, `IndexIsExact`, `RevokeAllReachesTheUnrevoked` | Stated of `KeysSpec`, for any set of keys. The invariant adds that a key with `revokedAt` is known: without it a revoked key could be created again into its wallet's set. |
| `PrivyAAIntegrationProofs` | `KeysAgreeInIntegration`, `IntegrationTypeCorrect`, `SnapshotsCoverTheBatch`, `BatchesStayFrozen`, `BatchesAreBounded`, `IntegrationKeepsKeys` | `StepShrinks`: a batch past editing stays so and only loses operations. Hence a run's snapshot covers the batch from `executeBatch` on (`RunCovers`), and each snapshot taken later lies within the earlier ones (`Nested`). A context is made only after its key (`KeyIsMadeFirst`), so the integration refines `SessionKeys`, and what is proved of the keys alone holds under it. |
| `EnterpriseMultiSigProofs` | `MultiSigTypeCorrect`, `PoliciesStand`, `MultiSigImplementsApproval`, `ExecutionTakesQuorum`, `VerdictsStand` | The invariant adds that a transaction an executor holds has had its threshold of signatures and is approved, rejected or executed (`RunsPassed`): this is what makes the late write of `executed` a step of the contract. The last two theorems say what the contract means for a transaction: they are proved of its steps and reach the service through the refinement. `VerdictsStand` holds of a rejected transaction from the time at which no execution keeps it. |
| `AAAccountProofs` | `AccountTypeCorrect`, `QuorumAlwaysStands`, `ExecutionsAreNumbered`, `ReplayIsProtected` | What holds of the storage (`Good`) must also hold of every storage a revert may bring back, so it is stated of a *world* and required of the present one and of every saved one. `Since` ties each of them to the outermost execution: since it began nothing was accepted and its account's nonce has not fallen, so the nonce it was validated with is still new when it takes effect. |
| `SuiProviderProofs` | `SuiTypeCorrect`, `RateHolds`, `RefusalsNeedLoad` | A step leaves a bucket alone, refills it, takes a token from it and logs a request, or makes it (`BucketStep`); no other step sends one (`OtherStepsSendNothing`). The rate is not inductive: `Balanced` also counts what is left in the bucket, so that from any token on, what was given out and what is left is no more than a full bucket and the refill up to the last look; a refill cut off at the capacity, or a clock set back, only lowers the left side with the right (`RefillBalances`). For refusals, `Waits` says what the bucket will hold when a sleeping call wakes up, if nobody takes a token: while no token goes to another call, after one sleep less than the refill of a tick is missing, and after two nothing. A look by another call does not change that forecast (`KeptIsServed`), since a refill that yields no token is never cut off; a token that goes to another call grants the sleeper two more sleeps. |
| `RpcOrchestratorProofs` | `OrchestratorTypeCorrect`, `InUseIsBelowLimit`, `NoProviderIsSkipped`, `SelectionIsUsable` | The three invariants are inductive together (`IInv`). Failures never make a provider healthy (`FailureKeepsLimits`), so what a request owes only shrinks, and `FallBack` stops at the first provider it can ask; selection follows from the types, since only what has a client ever succeeded. |

`RateHolds` assumes nothing of the clock. `RefusalsNeedLoad` supposes that the clock was not set and
that the bucket refills a token in the longest sleep: at the code's 100 milliseconds, ten per second
or more, which is the default. A call on a slower bucket may be refused with nobody else about, since
ten sleeps refill less than a token or leave the last one untried.

Only model-checked are the liveness properties: `LeavesFetch`, both `Recovers`, `TrackedIsDecided`,
`ExpiredLeave` and the fairness half of `ImplementsLifecycle`. They rest on fairness and ENABLED,
which are outside the prover's reach. Every invariant and action property of the passing runs is
proved.

## 6. Not modelled, and why

`PROJECT.json` lists every component with its reason. In short: vendor clients, user
interface, adapters and subgraphs have no state worth a model; key generation is
cryptography. The chain health polling service calls the hook `useChainHealthStore` from its
timer at every check (`chainHealthPollingService.ts` 32, 75, 201), outside of a component,
which React refuses: no check gets past it, and a model of the intended behaviour would be
one of another program. What the multi-sig client shows depends on a server, and what the other
Ika services do on an SDK, that are not in the repository. The transaction service has the right kind of hazards, but its
`get_transaction` selects fewer columns than its row type needs (`db.rs` 98-114,
`models.rs` 71), so as written no row is ever read back or updated; a model would describe a
program that does not exist until that is settled. Within the modelled components, payloads,
signatures, hashes, gas, logging, analytics and statistics are left out: no modelled decision
reads them.

## 7. Plan

The modules planned at the start are written, except for chain health polling (section 6). Left:

1. The caches of `SuiProvider`, as soon as the code promises something of a key that was cleared
   while a read of it is in flight.
2. `AggregatorRouter` as pure operators: the best quote of those that answered.
3. The transaction service, once its row type and its query agree.

`SessionManager` and `ReownAdapter` are checked apart and stay so. Their sessions and requests lie
in one store, but meet twice only: `destroy` empties both, and a new request asks that there is a
session at that moment (`ReOwnWalletManager.ts` 156), which in `ReownAdapter` is left open, since a
request may come or not at any time. The code promises nothing of a request whose session has
gone, so a composition would have no property its parts do not have.
