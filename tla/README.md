# Dadieng, verified

TLA+ models of Dadieng, the TLC configurations that check them on small instances
and the TLAPS proofs about them. Paths are relative to the repository.

Dadieng lets agents report attacks, turn them into versioned defenses, have
independent validators replay the defenses and let SDKs in the field run what was
released. Three contracts on Monad hold the decisions, a control plane on Postgres
holds the documents and carries the writes to the chain, an indexer and signed
manifests carry them back to the clients, and an agent carries incidents to the
people who respond.

## Inventory

| Component | State | Operations | Talks to | Hard part | What makes it correct |
|---|---|---|---|---|---|
| `contracts/contracts/DadiengRegistry.sol` | defenses, versions with their status, receipts, pauses | register, publish, replay bundle, promote, reject, quarantine, revoke, receipts, pauses | reads the validation contract on promotion | long legal sequences of calls by different roles, pauses that expire | only moves of the lifecycle; a published version never changes otherwise; lineage without cycles |
| `contracts/contracts/DadiengValidation.sol` | identities, threshold, attestations, counter, finality | bind and unbind identities, attest, challenge, finalize | reads the registry | identities rebound between attestations, challenge against finalize, threshold changes | the counter is the number of independent approvals that stand; finality is not revisited |
| `contracts/contracts/DadiengRewards.sol` | usage batches, funding, allocations, claims, pauses | commit, challenge, finalize, fund, allocate, claim | reads the registry | claims between two allocations, one balance for all epochs | the balance covers what is owed |
| Outbox: `packages/contracts-client/src/{coordinator,adapter,operations}.ts`, `apps/control-plane/src/repository.ts` | operation rows with a lease, worker's copy, node's pool and chain | enqueue, claim, prepare, broadcast, inspect, update | Postgres, the Monad RPC | crashes and late workers, broadcasts with no answer, nonces, reorganisations | one transaction per operation; stages go forward; confirmed means executed |
| Manifest publisher `apps/control-plane/src/manifest.ts` | signed manifests in a hash lineage | get (verify, refresh, sign, store) | registry, Postgres, SDKs | two publishers with clocks that differ, versions that change while they are read | one lineage; the latest is its head; only stable versions |
| Manifest sync `packages/sdk/src/manifest-sync.ts` | cached manifest and its predecessor, active defenses | sync | publisher, registry, file system | missed manifests, failures between save and activation, fail modes | no rollback; a client catches up; what runs was verified |
| Receipt intake `apps/control-plane/src/{service,http,retention,object-store}.ts` | receipts, evidence objects, idempotency keys | receipts, defenses, versions, replays and quarantines; purge | object store, outbox | effects that outlive a failed request, two requests under one key | what was answered is stored; one answer per key; evidence exists until it is purged |
| Replay and validation jobs, same service | replays, validation jobs with claims | run a replay, claim, submit an attestation | validators, chain | crashes while running, takeover of a claim | a job has a report; only the holder of a claim completes it |
| Validator CLI `apps/validator-cli/src/*.ts` | workspace file, outbox of its own | claim, verify, attest | control plane, chain | commands that die at any await, repeated idempotency keys | one attestation per job; what was confirmed is recorded |
| Multi-app agent `packages/multi-app-agent/src/index.ts` | workflow with one step per app | coordinate | GitHub, Slack, Notion | crash between an app's action and its record, redelivery | each app acts once per incident, in order |
| Indexer `indexer/src/{handlers/Dadieng,model}.ts` | entities and metrics | one handler per event | contracts | statuses and counters kept apart from the contract | the index shows what the contracts hold |
| SDK protection `packages/sdk/src/index.ts`, `packages/policy-engine`, `packages/receipt-sanitizer`, `packages/adapters` | active defenses, incidents, diagnostics | hooks before and after a call, sync | applications | which failure opens and which closes; what an adapter cannot carry out | nothing held back passes; no incident is lost |
| Replay engine `packages/replay-engine`, defense module `packages/defense-module`, schemas | none | run a replay, verify a report | workers, control plane, validators | rounding, reports from elsewhere | an own report verifies; an accepted one adds up |
| Contract call encoding, CRE cycle, sponsor integrations, examples, landing, console redirect, scripts | none of the protocol's | | third parties | | not modelled |

They meet in this order. An SDK in an agent blocks an attack (`Protection`) and
posts a receipt; the control plane stores it with its evidence (`ReceiptIntake`)
and enqueues a write to the chain (`ChainOperations`); the incident agent carries
it to three apps (`IncidentWorkflow`). An author posts a version, a worker replays
it (`ReplayEngine` inside `ValidationJobs`), validators replay it again and attest
on the chain (`ValidatorCli`, `DadiengValidation`), the registry promotes it
(`DadiengRegistry`), the indexer shows it (`Indexer`), and a signed manifest
(`StableManifests`) takes it to the SDKs (`ManifestSync`).

## Modules

| Module | Models | Extends |
|---|---|---|
| `DadiengRegistry` | the registry contract, also alone with finality as an input (`RegistryAloneSpec`) | |
| `DadiengValidation` | the validation contract; `ReleaseSpec` is the two together | `DadiengRegistry` |
| `ReleaseLifecycle` | abstract: what the two promise, phases of a version and an endorsement by a quorum | |
| `DadiengRewards` | the rewards contract: one balance, payouts as lists | `DadiengRegistry` |
| `TrustContracts` | the three together | the three |
| `Indexer` | the handlers of the events of the three; `IndexedSpec` is index and contracts | `TrustContracts` |
| `ChainOperations` | the outbox, its workers, Postgres and the node | |
| `DurableWrites` | abstract: what the outbox promises, bytes fixed once before they are issued, and stages that follow | |
| `StableManifests` | the publisher, its requests and the table of manifests | |
| `ManifestSync` | the SDK's synchronizer and its two caches over the publisher | `StableManifests` |
| `HttpWrites` | the write boundary: idempotency keys with their claims | |
| `ReceiptIntake` | the handlers behind it, the stores and the retention command | `HttpWrites` |
| `ValidationJobs` | replays, workers, validation jobs | |
| `ValidatorCli` | validators at their command line, their workspace and operations | `ValidationJobs` |
| `IncidentWorkflow` | deliveries, processes, the workflow's file and three apps | |
| `DefenseRules` | pure: bundles, their verification, evaluation of rules, the engine | |
| `Protection` | the SDK between an agent and its tools | `DefenseRules` |
| `ReplayEngine` | running and verifying replays | `DefenseRules` |
| `ContractProofs` | theorems about the three contracts | `TrustContracts` |
| `IndexProofs` | theorems about the index | `Indexer`, `ContractProofs` |
| `ChainOperationsProofs`, `IntakeProofs`, `JobsProofs`, `IncidentProofs` | theorems about the outbox, the intake, the jobs, the incident agent | the module they are about |
| `SyncProofs` | theorems about the publisher and its clients | `ManifestSync` |
| `DefenseProofs` | theorems about the client and the replay engine | `Protection`, `ReplayEngine` |
| `MC...` | definitions and symmetry sets for TLC; the other constants are in the `.cfg` files | |

### The contracts

A variable is a storage variable of the contract with its name; a transaction is
one step and its revert conditions are conjuncts of the action's guard. Malformed
arguments (zero hashes, empty URIs, counts out of order) revert and are not
enumerated. Roles held by nobody in particular (release manager, guardian,
treasury, reporter) are "somebody calls"; the author's address matters to the
validation contract, so `Authors` and `Accounts` are constants. Version keys and
batch identifiers are hashes, hence injective: tuples. `now` is `block.timestamp`;
a pause holds strictly before its expiry. In `DadiengValidation` the attestation
also records its sender, which the contract does not store: `NoSelfApproval`
speaks of it. `balance` in `DadiengRewards` is the ether held by the contract, and
a transfer is taken to succeed: a refused one reverts the claim and changes
nothing. The reentrant call is closed by `nonReentrant` and by the flag that is set
before the transfer.

### The indexer

`index` is a record of the tables of `handlers/Dadieng.ts`; a handler is an
operator from the index to the index, and a missing row of `getOrThrow` sets
`thrown`. The index depends on nothing but the events up to the block it has
reached and is rolled back with them, so it is compared with the contracts at that
block: every transaction is one step that also runs the handlers of its events in
the order of emission. The codes of the enums are those of the contracts. Left out:
the rows of `UsageBatchCommitted`, which are keyed by root, so that two batches
with one root overwrite each other, and which nothing reads; freshness. The
contract emits no event for its first threshold, so the metric is 0 until it is
changed, and a version's `passingAttestationCount` is not lowered by a challenge: no
property speaks of either.

### The outbox

`record[o]` is the durable row of operation `o`, `claim[o]` its token and whether its
lease is still ahead, `due[o]` whether `next_attempt_at` has come. A turn of worker
`w` is split where `runNext` and the adapter await: `Claim` (one UPDATE), `Prepare`,
`Broadcast` or `ReadReceipt`/`ReadHead` and their failures, `Update` (one UPDATE
guarded by the token). Between any two of them anything may happen. Time is not a
number: a lease may expire and a retry delay elapse at any moment, which includes
every difference of clocks and every slow call. A broadcast that fails may have
reached the node all the same, whether its error is one the adapter retries
(`BroadcastTimesOut`) or one it does not (`RefusesBroadcast`). `Abandon` is a process
that dies or a database call that throws. A claim token is a fresh UUID; the model
uses the worker, which has one turn in flight.

The statement of `claimNextChainOperation` picks the oldest claimable row and then
meets the unique index on `signer_slot`: a claimed row elsewhere, live or expired,
makes the statement fail with 23505, which the code takes for "nothing to do".

External and modelled from what the adapter relies on: the node's pool holds one
transaction per nonce, mines in the order of nonces, answers "already known" for
what is in its pool, and refuses a nonce that is used or taken with an error whose
text and name the adapter does not recognise as retryable. Transactions whose
broadcast timed out may arrive later, or never. Blocks less than `Confirmations`
deep may be replaced.

### The stable channel

`stored` is the table `stable_manifests` in the order of insertion; a manifest is
its place in it, which stands for its hash, and 0 is the `null` of
`previousManifestHash`. Times are those of `generatedAt`; the latest manifest is the
one with the greatest, and between equal times any, since the hash decides. A
request `r` to `StableManifestPublisher.get` is the record `call[r]` with what the
method holds at an await: the clock it read (`now`), the manifest it read
(`latest`), the versions still to be looked up (`todo`) and the stable ones among
those seen (`found`). Between two look-ups anything may happen: promotions,
quarantines, other requests. A control plane's clock is behind by `MaxSkew` at
most. The order of the look-ups is arbitrary, which includes the code's. Every
version is taken to be stored before the registry knows it, and bundles to match
their commitments; a mismatch throws, as a failing RPC does (`Fails`).

A client `c` of `ManifestSync` is a caller: `BeginSync` is its request, `Receive`
takes the answer, 0 for a 503, and checks window and lineage; `VerifyVersion` looks
one version up; `Save` and `Activate` are separate, so that a crash may come in
between; `FallsBack` is the `catch`, which every failure reaches. `pending` lets the
syncs of a client follow one another, hence one `sync[c]`. A request whose client
has died goes on in the control plane, and the client asks again when it has ended.
`outcome` and `rejected` are the result of the last sync and what it found not to
be Stable, `barred` the versions that were quarantined when a request came in:
histories, for the properties only. The engine starts without the defenses of its
configuration, which are no part of the channel, and restores nothing before a
first sync, as in the code. `SaveFails` is the `chmod` that follows the `rename`.
The shadow suite is taken to pass; `manifest-sync.ts:337` asks for 95 % of the
cases, the defense module for every one.

### The intake

An attempt `a` is one HTTP request; `pc[a]` is the await it is at. `Receive` is
`claimIdempotency`, one statement: an entry is free, held, expired, of another body
(409) or has a response, which is replayed. Then the handler: `Put`, `Save`, `Drop`
and `Enqueue` of `createReceipt` with `Undo` for its `catch`, or `Write`, one
statement for the other writes; then `Complete`, which only the token that claimed may
do, and `Answer`; errors lead to `Abandon`. Every statement may fail with its effect
(`Goes`), without it (`Fails`), or be where the process dies (`Dies`). The five
minutes of a claim may end at any moment (`LeaseEnds`), hence the retry beside its
first request. `objects` is the object store by uri (tenant, receipt, hash), `purge`
the retention command: `List` a batch, `Delete` an object, `Mark` its row, again until
a batch is not full. Whether evidence is older than the cutoff (`old`) changes only
between runs, since a run fixes its cutoff. The state of the operation that an answer
quotes is left out. An object that is put while its purged row stays behind, or by a
`put` that stores it and fails, is an orphan that nothing deletes; nothing in the
repository promises otherwise.

### Replays, jobs and the command line

A worker `w` is at an await of `runNextReplay`; `replay[r]` and `job[r]` are the
rows. `FailReplay` after a stored report meets the CHECK of the table and fails. A
claim has a number, and a report that of the claim it ran under, which stands for
the comparison of times. `cli[v]` is the command validator `v` runs, `workspace`
its file, `answered` the claim that the control plane has stored under the
idempotency key `claim-r`, which the client always uses. `operation` is a chain
operation with the outcome it comes to, which `ChainOperations` has in detail: the
contract may refuse an attestation and takes one of a validator for a version. One
command at a time
per validator, so the lost update of the unlocked workspace is outside the model.
`verifyReplayReport` does not compare thresholds and environment with those of the
job; in `ReplayEngine` the thresholds of a report are whatever a job may ask for.

### The incident agent

A delivery is a call of `coordinateIncident`, `at[d]` its await. The lock is in the
memory of a process, the file on the disk they share. `StoreThrows`, `CheckpointFails`
and `RequestFails` are failures of the load and the saves outside the `try`, of the
save inside it and of an app, which may have acted; `ProcessDies` takes every delivery
of a process. External: GitHub and Notion are searched before they are asked to
create, and `SearchLags` says whether a search may miss what was created a moment ago;
Slack takes a message with a `client_msg_id` it knows as the one it has.

### The client and the replay engine

A hook of the SDK is synchronous, so it is one step: normalize, ask the engine,
listeners, receipt and evidence. A call asks before it leaves and after it
returns; in between other calls go on and a sync may replace the defenses. A
content is the set of indicators it mentions, a name the set of words its patterns
look for, a hash the record of what it is of. `decided`, `incidents` and
`diagnostics` count what came of every decision. An earlier defense that answers
hides a later one's BLOCK, which the code intends and `NothingHeldBackPasses`
respects; listeners that throw are caught one by one and left out. In `ReplayEngine` a
worker runs a bundle with every timing, somebody may alter, reseal or resummarize
the report, and `verifyReplayReport` says what it thinks. With fewer than twenty
cases the 95th percentile is the slowest; the rounding of `0.95 * n` in floating
point is not modelled.

## What the runs check

Runs say `CHECK_DEADLOCK FALSE` where the system really may stop: contracts wait
for callers, settled operations, requests, jobs and deliveries have nothing left
to do, and under fairness requests to the publisher come at fresh times, which
`MaxTime` bounds. `MCSync` checks deadlock: a request or a client can always begin.

| Run | Instance | Shows |
|---|---|---|
| `MCRegistry` | two authors, one defense with two versions, one receipt, all three scopes paused with expiries, `MaxTime` 2 | lineage without cycles; a published version only moves along its lifecycle; a paused scope lets nothing through, to the second |
| `MCQuorum` (`MCIndexer`) | registry, validation and index; three identities on two wallets, quorum up to 2, changed at any time; no receipt; pauses of promotion that expire | the counter, independence and finality; the validators' records in the index; the two contracts implement `ReleaseLifecycle` |
| `MCIndexer` | the three contracts and the index; one version, two batches in an epoch, two claimants, a receipt and its resolutions, pauses of claims | the balance covers what is owed; index and contracts agree, the resolutions of receipts, the batches and the metrics included |
| `MCChain` | one operation, two workers, three signatures, two crashes, refusals, evictions, reorganisations | one transaction per operation; the outbox implements `DurableWrites` |
| `MCChainLive` | two operations, one worker that lives, a node that keeps what it has, under fairness | every operation is settled in the end; confirmed means executed that deep, also with colliding nonces |
| `MCSync` | a client with a file cache, one crash or failure, another request, clocks one apart | one lineage whatever the clocks; a successful sync leaves nothing active that was quarantined before it; the engine runs on the cached set or on none; the cache goes from a manifest to its successor |
| `MCSyncLive` | two versions of a defense, a client with a cache in memory, one failure of the publisher and one of the client, under fairness | a quarantined version leaves the latest manifest; the client comes to have a manifest |
| `MCIntake` | three requests among six inputs (three receipts of two tenants, a version, a replay, a quarantine), one fault, one claim that runs out, batches of one | one answer per key; what was answered is stored; evidence is lost for a cause only; an effect is repeated only after a misfortune; a purge is complete |
| `MCJobs` | one replay, two workers, two validators, one fault, one claim that runs out, two reports, under fairness | a job has a report; one attestation; claims are respected and the submitted attestation is of the claim's holder; what was confirmed is recorded |
| `MCIncident` | five deliveries to one process, one with other data, one unsanitized, two attempts, three faults, under fairness | each app acts once; for the incident on the disk; completed steps stay; every delivery settles |
| `MCDefense` | two guarded calls through three adapters in every mode, with a sync in between; separately, five bundles with every timing | nothing held back passes; incidents are whole and converge; reports verify and add up |
| `MCIntakeRetry` | two requests for one receipt, two faults | **violated**: an exact retry deletes the object of the accepted receipt |

`Protection` and `ReplayEngine` share the rules and no state, so `MCDefense` lets
one step only while the other is as it began; interleaving them would multiply
states and add none.

Bounds. `MaxTime` lets a pause start, hold and end. `MaxSigned` bounds how often
one operation is signed again after a lost lease: two signatures are enough for two
workers to hold different transactions of one row. `MaxAbandons` two leaves one
crash for each of two workers. Two operations are what a collision of nonces and
the wedge need. Two batches and two payouts let an allocation exceed, meet and
undershoot the funds, and let a recipient occur twice in one list. Quorum 2 among
three identities has both a surplus and a shortage of approvals, and two wallets
for three identities make rebinding happen. Two versions of a defense are what a
rollback needs, two requests a conflict, and three times or more a client that
misses a manifest. `TTL` is chosen so that manifests expire, and in the runs under
fairness so that they also live through a request. In `MCIntake` three attempts are
a request, its retry and another tenant's or a duplicate's; one fault and one
lapse are what makes two of them run beside each other with one half done; `Limit`
1 makes two rows two batches. In `MCJobs` two workers and two validators are what a
takeover needs, one fault a death between any two statements. Three faults in
`MCIncident` exhaust the attempts of a step and kill the process besides. The
theorems below hold for all values of these constants.

### What is refuted

One run of the check refutes a statement of the repository; the other
configurations here are small and kept to be run by hand, with the module that the
name begins with. TLC finds each violated.

1. `ExactRetryKeepsEvidence` (`MCIntakeRetry`, a run).
   `docs/architecture/0008-durable-storage-boundaries.md:19`: "an exact crash retry
   never deletes the object already referenced by the accepted receipt". The `catch`
   of `createReceipt` deletes the uploaded object on every error after the put. The
   first request stores the receipt and fails; its exact retry finds the row and
   fails at a later await, and the object that the row names is gone.
2. `LeaseRecovery` (`MCChainWedge`). `packages/contracts-client/README.md:15`: "Leases
   expire after a worker crash, and another worker can safely continue from the last
   durable state." Operation 1 is prepared and waits for its retry; a worker claims
   operation 2 and dies. Both the lease and the retry delay elapse. The claim
   statement picks operation 1, the older one, and violates the unique index,
   since operation 2 still carries its token: `undefined`, on every turn. Nothing
   clears the token.
3. `NoNonceCollision` (`MCChainRefuted`). The same README: "This prevents concurrent
   workers from preparing colliding nonces." The lease covers one turn and is
   released when the prepared bytes are stored; the pool has not seen them, so the
   next prepare reads the same pending nonce. One worker is enough. The later of the
   two fails with `BROADCAST_FAILED`, and its deduplication key keeps it from being
   enqueued again.
4. `FailedNotExecuted` (`MCChainRefuted` with `-continue`). A broadcast times out,
   arrives and is mined; the repeated broadcast is answered "nonce too low", which is
   neither "already known" nor retryable: the row is failed, the write is in the chain.
5. `ConfirmedExecuted` under reorganisation, which `MCChainLive` leaves out:
   `inspect` reads the receipt, then the head, and depth is computed from a block
   that is no longer there.
6. `QuarantineIsPublished` with two requests (`MCManifestsFork`).
   `docs/architecture/0013-quarantine-and-rollback.md:7`: "When a selected version
   becomes Quarantined, the publisher creates a new signed manifest linked to the
   prior manifest hash." `get` reads its clock first and the table afterwards. A
   slow request reads its clock, a quick one stores manifest 1 with a later time,
   the slow one reads 1 and stores 2 as its child, with the earlier time. The latest
   by `generated_at` is 1, whose child exists already: every later insert conflicts
   and answers 1, whatever is quarantined. Clocks need not differ.
7. `AnswersRechecked` (`MCManifestsStale`). The same page: publication "rechecks
   every active entry against current Monad state even while the cached manifest is
   unexpired". The request that loses a conflict answers with the winner's manifest
   as it is, and the winner may have looked before the quarantine. Clients do not
   rely on it: `SyncedWasStable` holds.
8. `FreshClientSyncs` with a file cache, which `MCSyncLive` leaves out.
   `packages/sdk/README.md:76`: "Configure a trusted manifest signer and the deployed
   Monad Registry, then synchronize before serving agent traffic". `performSync` lets
   a client without a cache begin anywhere in the lineage, and `verifyState` of the
   file cache refuses a set whose predecessor is not beside it: only the very first
   manifest can be a client's first.
9. `ClientsCatchUp` (`MCSyncCatchUp`). Page 0013, line 13: clients "expose
   last-known-good use as degraded behavior until they can observe current Monad
   state". A client that misses one manifest finds no successor of its own any more,
   since only the latest is served, and falls back for good, online or not.
10. `RecheckIsObeyed` (`MCSyncRecheck`). Page 0013, line 21: "A signed manifest cannot
    keep a quarantined version active after an online Monad recheck." The recheck
    throws, and the `catch` activates the cached set, with the version in it.
11. `QuarantinedCountAgrees` (`MCIndexerCounts`).
    `docs/architecture/0014-envio-indexer.md:11` promises status counters that stay
    coherent through emergency transitions. `handlers/Dadieng.ts:66` counts status 4
    as quarantined; in the contract's enum 4 is Rejected and 5 is Quarantined, and
    the unit test (`tests/indexer.test.ts:9`) uses the handler's numbers.
12. `ReplayRecovers` (`MCJobsReplay`). `docs/runbooks/recovery.md:8`: "Replay stuck:
    allow the lease to expire, verify no worker is still active, and requeue the
    idempotent job". A replay is claimed by setting it running, without a lease: when
    its worker dies it stays running, and nothing requeues it.
13. `ReclaimWorks` after a claim ran out (`MCJobsReclaim`). `service.ts:385`: "Claim
    the validation job again before submitting an attestation." The client claims
    with the idempotency key `claim-<job>` always, so the second claim is answered
    with the first one's response, and the job stays as it is.
14. `ReclaimWorks` with a second report (`MCJobsVerify`). `BUILD_STATUS.md:291`:
    "Repeating submission must reuse the persisted attestation and transaction
    operation." A validator that runs `verify` again after `attest` has another report
    beside the attestation of the first, and the submission that combines them is
    refused.
15. `NoDuplicateActions` when a search lags (`MCIncidentSearch`).
    `docs/MULTI_APP_HACKATHON_BRIEF.md`: "no-duplicate resume". An issue is created,
    the answer is lost, the retry's search does not find it yet, and a second one is
    created. Two processes duplicate actions as well (definition `TwoProcesses` in
    `MCIncident`): the lock is in the memory of one.
16. Not a run: `Drop` deletes the object of another row when a receipt id comes again
    with the same evidence under another deduplication key. Inputs with that
    property violate `EvidenceLossHasCause`; `EvidenceIsKept` assumes it away.

### Fairness

`MCChainLive` and `MCChainWedge` assume what the code's scheduling gives: the
interval of `start.ts` starts a turn again and again (WF of `Claim`), every await of
a turn returns, the RPC calls because of their ten-second timeout (WF of `Work` and
`Update`), clocks advance (WF of `RetryElapses`, `LeaseExpires`), and the node mines
what it can. One assumption is about the RPC and is strong fairness: a call asked
again and again is answered some time, `Answered` and `ReadReceipt`; without it no
client gets anywhere. Nothing is assumed of `Arrives`, `Evict`, `Reorg` or
`Abandon`. Liveness is checked on a node that does not evict: a submitted operation
is never broadcast again, and one the node drops stays submitted.

`FairManifestSpec` and `FairSyncSpec` assume that requests keep coming and that
every await of a request and of a sync returns (WF of `Start`, `Advance`, `Finish`,
`BeginSync`, `ClientStep`), and nothing of the registry, the time or failures. Two
assumptions are about time. No request comes in the very millisecond of another or
of a stored manifest (`FreshTime`), which leaves requests free to overlap; and the
properties say of themselves that time goes on, `[]<>FreshTime`, since a model whose
clock stands still at its bound would refute them for no reason of the code's.
`FreshClientSyncs` also presupposes that a manifest within its window is on offer
again and again.

`FairSpec` of `ValidatorCli` assumes that workers and commands go on (WF), that a
validator who has not submitted runs each command again and again (SF of `Claim`,
`Verify` and `Attest`, since another command may be running whenever it looks), and
that an operation is not pending for ever, which `EveryOperationSettles` shows of the
outbox. Nothing is assumed of faults, deaths and lapses. `FairWorkflowSpec` assumes that
every await of a live process returns.

## What is proved

For every number of versions, accounts, agents, operations, workers, requests, keys,
deliveries and validators; TLC has checked each statement first, and the invariants
that strengthen it where they are not plain.

`ContractProofs`. Of registry and validation, the invariant `ReleaseInv` conjoins the
types, `CountIsApprovals`, `VersionsBoundToAuthor`, `NoSelfApproval` and
`EndorsedSound`. The counter is a number and the quorum a set, so the heart is
finite cardinality: submitting adds one fresh agent to the set of standing
approvals, a challenge removes one that is there; that an agent attests at most once
per version is what makes it fresh. `NoSelfApproval` needs that a version's
`authorAgentId` and its defense's author never change, which is
`VersionsBoundToAuthor`. From the invariant follow `StableIsValidated` (promotion
reads the flag, and nothing unsets it), `FinalizationIsFinal`, and the refinement
`ContractsImplementLifecycle`: every transaction of the two contracts is a step of
`ReleaseLifecycle` or a stutter.
Of the registry with any validation contract, `HistoryInv` adds what nobody has
written yet (`Unwritten`): an unpublished version is all zeros, and so supersedes
nothing and passes for no defense's. A new version is superseded by none, so a set
of versions that supersede one another would have done so without it
(`HistoryIsReal`); a draft has no report, so none is replaced (`PublicationIsFinal`);
and each write of a version names the scope it needs open (`PausesHold`).

Of the three together: every step is one of the two or leaves them alone, so
`Spec => ReleaseSpec` and `Spec => RegistryAloneSpec`, and the theorems carry over.
`UsageOfReleased` adds that a version with a usage batch was Stable, and what was
Stable is now Stable, Quarantined or Revoked. `Solvent` compares the balance with a
sum over epochs of sums over accounts. The lemmas on `SumFunctionOnSet` come first:
it is the value of a recursive function on the subsets of a finite set, which takes
any one member out of the set (`SumTakes`), and so adds, agrees and is monotone. With
them, `RewardsInv` says that no epoch has allocated more than its funding and that the
balance is the sum of the reserves of the epochs: what was paid in and not allocated,
and what was allocated and not claimed. Each transaction moves the reserve of one
epoch and the balance by as much. What is owed is within the reserves (`Solvent`), so
no claim is refused for want of ether (`ClaimsAreFunded`).

`IndexProofs`. `IndexInv` says of each table which row stands for which storage, with
`MetricsAgree` and `TrackRecordsKept` beside it, since a handler reads rows to move
counters; that a validator has a row before it attests keeps `getOrThrow` from
throwing. Receipts are shown with the number of their resolution in the enum of the
contract, 0 to 3; batches with what they funded and allocated: one without a row has
neither, since an allocation is of a positive total. The counters of an agent are
cardinalities, of which a submission or a challenge moves one member; the totals are
sums over the agents (`TrackRecordsSplit`), of which it moves one summand, and a claim
moves one of `rewardClaimed`.

`ChainOperationsProofs`. `SingleTransaction` is not inductive: a worker that lost its
lease still holds a signed transaction. `IndInv` adds who may write: the worker whose
token is in the row is at most one move ahead of the row, one row is claimed at a time
by it, and whatever a worker holds in a stage after "prepared" is what the row holds
(`HeldTxDurable`), because bytes are stored before they are sent. `Update` without the
token changes nothing, which is where the proof uses the WHERE clause.
`StagesGoForward` follows from the same invariant. For the refinement of
`DurableWrites` (`OutboxIsDurable`), `DurableInv` adds that what is submitted, in a
row or in a worker's copy of it, has been sent, and that new bytes are in the hands of
the row's owner together with the stage that stores them; then the update of a row is
the one step that fixes, submits, confirms or fails the write, and every call of the
adapter, in time or late, issues the stored bytes again or nothing.
`ConfirmedExecuted` is proved for a chain that does not reorganise (`~ MayReorg`; it
is false otherwise, refutation 5): the invariant follows the depth from the receipt a
worker has read, through the head, to the row it writes, and blocks only get deeper.

`SyncProofs`. Of the publisher: `Lineage` says more than the unique index: the index
keeps two manifests from one parent, and a gap or a cycle is excluded because a parent
is always a place in the table. By induction the places 0 to n - 1 are all taken as
parents when the table has n manifests, so an unclaimed one can only be n, the last.
`SignedRechecked` is inductive only with `Lookups`: what is barred is quarantined, and
stays so, hence a look-up that reads "stable" never admits it; and a request that
rechecks has a manifest in hand. For `LineageOfReleases` it adds that whatever has
been found was released.

Of the clients: every step of publisher and clients is one of the publisher or leaves
it alone, `SyncSpec => ManifestSpec`, so a client's crash disturbs no theorem about
the table. `SyncedWasStable` needs that the versions of the manifest under
verification which are no longer in `todo` are not barred, and that a client's
`barred` only changes when a sync begins; it owes nothing to the publisher.
`EngineIsCached` needs that between save and activation the cache already holds the
manifest in hand. `ForwardOnly` needs that the manifest in hand continues the cached
one, which `Receive` has checked and no other step of the client changes.

`IntakeProofs`. For the answers, `AnswerInv` says of every entry that it is of the
attempt of its token, that its body is that attempt's, and that its response, if
any, is recorded in the database; and of every attempt what it holds at each await.
A response, once stored, never changes (`EntriesKeep`: the claim, the lapse and the
abandon all ask for an entry without one), so whoever answers from the entry says
the same (`OneAnswer`), and it stays recorded, because rows, operations and versions
are never taken back (`RecordedStays`; the retention command only takes the uri). For
the retention command, `LastBatchIsAll`: a batch that is not full was all there was,
by cardinality, and nothing gets older than the cutoff while it runs. For the
evidence, `EvidenceInv`: each object is of one row at most; an attempt about to
drop its object found a row of its deduplication key that names another, and since
that row keeps the key, no row will ever name this one. This needs the hypothesis
`EvidenceIdentifies`, that one receipt id does not come with the same evidence under
two keys; without it the statement is false (refutation 16). For `RepeatsHaveCause`,
`RepeatInv` keeps an account for each key: the requests under it that have had, or
are about to have, their effect are no more than the faults and lapses so far, and
one more while the key's entry is held and not about to be given back. A claim is
granted only on an entry that is free or has expired, so each new request under a
key is paid for by the fault or the lapse that freed it.

`JobsProofs`. `JobsInv` has two halves. `ClaimedByOne`: a replay that a worker is
executing, saving or failing is running and is no other worker's, so nobody is left to
fail it once its report is stored, hence `JobsHaveReports`. `SavedFirst` and
`OperationOfSaved`: a command's attestation is in the validator's workspace before its
operation exists, a repeated command reads it back, and an operation bears the id of
the saved attestation, hence one operation per job (`AttestationsAreSingle`).
`OwnSaved`: the attestation in a validator's workspace is signed by that validator,
which `ClaimsHold` needs where a job is completed, because the completion compares the
claim with the attestation's signer. For the rest, `ClaimsHold` follows from the
claim's and the completion's conditions on the row, read in the step that writes it;
no other step changes a job that is there, except that its lease lapses.

`IncidentProofs`. All under `SingleProcess`: every delivery is to one process, as
the agent is deployed, since the lock is in memory. `WorkflowInv` says that whoever
works holds the lock (`HoldsLock`); that its copy is of the incident on the disk and
never behind it, and what is completed in the copy has been done in the app
(`Consistent`); and that an app has acted for the incident on the disk only, and not
before the ones before it completed (`OfRecord`). `ActionsAreSingle` adds, for apps
whose search finds what is there (`~ SearchLags`), that what was created is found
before it is created again.

`DefenseProofs`. Of the client, `NothingHeldBackPasses` needs that the answer is that
of the first defense that speaks, a least element of the places of a list that match,
and that what fails closed does not pass. `IncidentInv` says that each incident is
what `createThreatReceipt` made of a decision to block or to observe, that the
incidents are numbered, and that each such decision is counted once, as an incident or
as a diagnostic. From it come `IncidentsAreWhole` and `EquivalentIncidentsConverge`.
Of the replay engine, the list of durations is sorted by definition, as the one
ascending arrangement; that there is one is shown by induction on its length, and that
the percentile at a place has the rank it claims by counting (`Rank`,
`PercentilePlace`). `OwnReportsVerify` unfolds a run, the parse of the report at its
end, which throws for one that does not add up, and the verification; for
`AcceptedReportsAddUp`, each way a report may be altered keeps that its cases were
measured (`AlterationsAreMeasured`), and the verification recomputes all the rest.

Assumptions: those named in the modules (`RegistryAssumption`, `ValuesAssumption`
and the like), which TLC evaluates in the runs: markers such as `NoTx` differ from
values; `Agents`, `Accounts`, `Epochs`, `Defenses`, `Numbers`, `Ops` and `Ids` are
finite; engines, rules and suites are lists; what is published is a defense or a
version. Beside them there are the four hypotheses named above (`~ MayReorg`,
`EvidenceIdentifies`, `SingleProcess`, `~ SearchLags`), which are part of the theorems
that need them. The bounds on counters are constants, so the theorems hold for every
value of them.

Only model-checked is liveness, which is beyond the prover: `EveryOperationSettles` of
the outbox, `QuarantineIsPublished` and `FreshClientSyncs` of the channel,
`ConfirmedIsRecorded` of the validators and `DeliveriesSettle` of the incident agent.
Every invariant and every action property of a passing run has a theorem. The
library's induction theorems take a predicate as a parameter, which the provers cannot
instantiate; where a proof needs induction, over the subsets of a finite set or over
the numbers, a family of subsets or a set of numbers takes the predicate's place, and
a smallest counterexample is taken from a well-founded order (`SubsetInduction`,
`LeastNumber`).

## Plan

Done: (A) the contracts with their index, (B) the outbox, (C) the stable channel, (D)
the intake, (E) jobs and validators, (F) the incident agent, (G) the client and the
replay engine; theorems for all of them.

Left, in the order of what matters: `ValidatorCli` with `DurableWrites` instead of an
outcome; two commands of one
validator at once, with the workspace that reads, changes and writes without a lock; the
freshness and the usage rows of the index; the streams of the AI SDK adapter, which
the code does not look at.

## Not modelled

Gas, view functions, upgradeability (there is none), the encoding of contract calls,
text patterns, hashing and signatures (taken as injective and unforgeable), HTTP
routing, authentication, rate limiting, the CRE cycle and the other sponsor
integrations, which wrap services and keep no state, examples, user interfaces and
deployment.
