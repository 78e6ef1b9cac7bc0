# TLA+ verification of mx-chain-go: consensus, finality, asynchronous execution, staking and epoch start

This directory holds TLA+ specifications of the parts of the MultiversX node
that decide which block is final, which execution results are kept, who waits
for a place among the validators and when an epoch begins, TLC
configurations that model-check them on small instances, and TLAPS proofs of
theorems that hold for every instance. `PROJECT.json` maps every definition
that models code to the lines it stands for.

To check one run: `tlc -workers 2 -config <cfg> <module>`. To check the proofs
of a module: `tlapm <module>Proofs.tla`.

## 1. The system

A node belongs to a shard (or to the metachain). In each round a consensus
group with one leader tries to certify a header: the leader proposes, the
members send BLS signature shares, and whoever holds `Threshold` shares
aggregates them into an *equivalent proof*. Since the Supernova changes, a
block is executed *asynchronously*: consensus is on its order, a separate
goroutine executes it, and a later header notarises the execution result.

### Inventory

| Component | State it keeps | Operations | Hard behaviour | What makes it correct |
|---|---|---|---|---|
| Equivalent proofs pool (`dataRetriever/dataPool/proofsCache`) | proofs by hash, buckets of hashes by nonce with a cached `maxNonce` | `AddProof`, `UpsertProof`, `AddProofIfNoneAtNonce`, `CleanupProofsBehindNonce`, notification of subscribers | existence test and insertion in two critical sections, notification after the unlock, per-nonce limit, cleanup by bucket | two indexes agree; the limit keeps the lowest (round, hash), whatever the order of arrival; equivocation is always reported; cleanup drops nothing recent |
| Signature evidence and self-assembly (`consensus/spos/bls/v2/signatureEvidence.go`, `proofSelfAssembly.go`) | two slots (`previous`, `retainedQuorum`) that share snapshot objects with goroutines | capture at the start of a round, promotion, drop, launch of `trySelfAssembleProof`, stripping of invalid shares | shared mutable snapshots, goroutines that run rounds later, proofs that arrive in between, verification that fails for all shares | assembled proofs are valid, alone at their nonce and carry a quorum; quorum evidence is not lost; it ends in a proof |
| Consensus subrounds v2 (`consensus/spos/bls/v2`, `consensus/spos`, `consensus/chronology`, `consensus/round`) | consensus data, job and subround status, shares, round index, head | StartRound, Block, Signature, EndRound jobs and checks, receipt of header, signature and proof | message handlers beside the chronology goroutine, timeouts that cut waits short, clock corrections, equivocating leaders | a key signs one header a round; a quorum seen without a proof is respected in the next round; every proof has a quorum behind it |
| Sent signatures tracker (`process/track/sentSignaturesTracker.go`) | per key: signed hash per round, latest signature per nonce | reserve, record | bounded memory against a clock that steps back | as above |
| Execution results tracker (`process/asyncExecution/executionTrack`) | notarised result, pending results by hash and by nonce, last executed hash, committed hashes, dismissed batches | add, confirm, commit, remove, clean, rewind, pop | any order of calls, results delivered late | no gap, indexes agree, nothing pending contradicts a committed block, dismissed batches keep their anchor |
| Asynchronous execution (`headersExecutor.go`, `executionManager.go`, `headerBodyCache.go`) | queue by nonce, pause flags, last execution result, manager mutex | executor loop with retries, `AddPairForExecution`, `CleanConfirmedExecutionResults`, `RemoveAtNonceAndHigher`, `RewindExecutionStateToTip`, `Close` | pause handshake with a lock held, replacement of executed blocks, consensus and sync calling at once, failures of every step | a pause excludes execution, calls return, pending results form a chain |
| Fork detector (`process/sync/baseForkDetector.go`, `shardForkDetector.go`, `metaForkDetector.go`) | records of headers near the tip, chain of checkpoints, final and settled checkpoint, probable nonce, rollback nonce, ambiguity flag | add header, notarisation, proof received, restore, reconcile, compute final, check fork | an update of finality reads pool and records that others change meanwhile; finality given on a proof and taken back when a competing proof arrives | the settled checkpoint only grows and lies below the final one; the final block stays on the chain; the flag never misses an ambiguity |
| Block synchroniser (`process/sync/baseSync.go`) | head, pending rollback, evidence to reconcile, blacklist | the tick of the loop, rollback with interruption and resumption, fetch, commit; callbacks for headers, proofs, notarisations | loop, callbacks and consensus commits side by side; rollbacks interrupted half way | no settled block is exchanged; a forced rollback can start; a shard ends on the branch the metachain settles |
| Staking contract (`vm/systemSmartContracts/staking.go`, `stakingWaitingList.go`) | registrations, count of staked nodes, waiting list linked in storage | stake, unStake, unJail, unBond, switch of jailed and waiting, stake from queue, end of epoch calls | long sequences of calls on a linked list with a pointer to its jailed part, three eras of epoch flags | the list stays one list, the records agree, nobody but unjailed nodes overtakes |
| Shard epoch start trigger (`epochStart/shardchain/trigger.go`) | epoch, metaEpoch, retained headers, settled epochs, pending proofs, headers and finality, recovery generation | received header and proof, admission after bootstrap, retries, SetProcessed, RevertStateToBlock, disarm | callbacks in any order and across a rollback, competing epoch start blocks, caches that evict | armed exactly by the block that settled the next epoch; nothing that is needed is forgotten; in the end it is armed |
| Cross-shard tracking (`process/track`) | notarised headers per shard | track, notarise, clean | out-of-order headers | planned, see section 7 |
| Block processing, state, trie, VM, transaction pool, validators selection, heartbeat, API, ... | | | | not modelled, see section 8 |

Interaction: the chronology goroutine runs the subrounds; network handlers
call `receivedBlockHeader`, `receivedSignature`, `receivedProof` on other
goroutines; the proofs pool is shared by all of them, by the interceptors and
by self-assembly; the sync loop commits proven headers on a further goroutine
and shares head, queue and results tracker with consensus; the executor's
goroutine shares the tracker and the queue with both. The fork detector hears
of headers, proofs and notarisations from network goroutines and of commits from
both committers, and tells the sync loop when to roll back. The epoch start
trigger hears of metachain blocks from the pools and of the shard's own commits
and rollbacks. The staking contract runs in the metachain's system VM, one call
at a time.

The full list of components, with what is left out of each, is `components` in
`PROJECT.json`; what can go wrong and which property looks for it is `hazards`.

## 2. Modules

| Module | Models | Composition |
|---|---|---|
| `ProofsPool` | the cache of one shard and the pool calls of several goroutines | stands alone; other modules see the pool as a set of hashes |
| `Committee` | abstract specification: members that follow the protocol vote once a round, a certificate needs a quorum | implemented by `ConsensusNode` |
| `SignatureEvidence` | the evidence store and self-assembly goroutines, driven by every sequence of snapshots | |
| `ConsensusNode` | one validator: clock, four subrounds, handlers, tracker of sent signatures | EXTENDS `SignatureEvidence`; `Abstract == INSTANCE Committee` with its signatures and its pool |
| `ResultsTracker` | the results tracker under every sequence of calls | |
| `AsyncExecution` | executor, queue, manager, and consensus and sync as callers | EXTENDS `ResultsTracker`, whose actions are its sub-steps |
| `ForkDetector` | the records, checkpoints and finality updates of the fork detector | |
| `BlockSync` | the sync loop, the commits of consensus and the callbacks | EXTENDS `ForkDetector`, whose updates are its sub-steps |
| `StakingQueue` | registrations, count and waiting list of the staking contract | stands alone |
| `EpochTrigger` | the trigger, its pending data and its callers | stands alone |
| `*Proofs` | the theorems about the module of that name; `AsyncExecutionProofs` also has those about `ResultsTracker` | EXTENDS it and TLAPS |
| `MC*` | constants for TLC | |
| `MCComponents` | five modules that share no state | in each behaviour `part` chooses the one that moves |
| `MCProgress` | the liveness properties of evidence, synchroniser and trigger | as above, each part under its own fairness |

Hashes are numbers because the code orders them with `bytes.Compare`.
Definitions named `Mutant...` are faulty variants of the definition below them;
no specification uses them. They show that a property notices that fault.

### ProofsPool

`buckets` is `proofsByNonceBuckets` (key, `maxNonce`, hashes by nonce),
`proofsByHash` the map of that name. `call[t]` is the pool call goroutine `t`
is in: the existence test of `AddProof` and the insertion (shared with
`UpsertProof`, which has no test) are two steps, as the code takes two locks;
`AddProofIfNoneAtNonce` and the cleanup are one step each. `callSubscribers`
is a step after the insertion. The competing hashes it reports are those found
in the critical section that stored the proof. `added` and `reports` are histories. The list
of hashes at a nonce is a set, since it is sorted wherever its order matters.

### Committee

`votes` per member outside `Equivocators` and `certs`, the headers with a
proof. `Certify` needs a quorum whose protocol-following members have signed
nothing else of that round.

### SignatureEvidence

`evs` is the heap of `roundSignatureEvidence` objects, because the two slots
and the goroutines hold *pointers* and stripping changes the shared object.
A goroutine is a snapshot with `launched` set (started, not yet run) or `asm`
at `aggregate` or `add` (behind `assemblyRunning`). `AssembleStart` is the
round gate, the flag and the checks; `AssembleAggregate` is the aggregation,
the stripping and the second aggregation; `AssembleAdd` the last checks and
the atomic add. `InfraFailures` lets verification fail for all shares at once
and aggregation fail for no reason.

### ConsensusNode

`pc` is the step of the chronology goroutine. A job that fails leaves its
subround waiting for the deadline; that is one step to `pc = "before"`.
Handlers that read, wait and then write are two steps: `rh` holds a header
between the checks of `receivedBlockHeader` and `SetDataIfNotSet`, `rp` a hash
between `receivedProof`'s wait and its commit. `doEndRoundJob` is split where
shares may arrive: collect, verify one by one, recompute, add. Deadlines are
not timed: what a timeout may cut short may be cut short at any time.
`UpdateRound` advances by up to `MaxSkip` rounds or, after a clock correction,
goes back up to `MaxStepBack`. Other members are modelled by what they may
send: honest ones (`Honest`) vote once a round, `Faulty` ones send invalid
shares, `Equivocators` sign anything. `ReceiveProof` takes a proof from the
network only when a quorum can be behind it (the interceptor verifies it).

### ResultsTracker

A result is a header hash and a root. Every exported method holds the mutex
throughout, so each is one action; `TrackerNext` calls them in every order
with every argument.

### AsyncExecution

`epc` is the place of the executor in `start` and `process`; `call[t]` is the
call of `consensus` or `sync`; `mut` holds the manager's mutex. The steps are
cut where the code releases a lock: the pair is read, the context updated
(`ExecReplace`, `ExecTrim`), the block executed, verified, its state committed,
the result added, the last execution result published. `PauseExecution` sets
the flags and the caller waits until `processingDone` is cleared; the executor
clears it at the top of its loop and in its retry wait. `CommitBlock` reads
the head, checks it, records the committed hash, sets the head and confirms
results; when it fails its deferred function puts back the head it read.
Callers do what the two goroutines do: consensus adds a verified proposal and
may commit it; sync adds, commits, backfills, recovers from a mismatch and
rolls back. With `Failures` every call that can return an error may.

### ForkDetector and BlockSync

A record (`headerInfo`) is kept once per hash, state and proof, so `headers` is a
set; a checkpoint is the hash of its block. `job` is the update that holds
`mutFinalityUpdate`: its steps are cut where a proof, a record or a commit of
another goroutine can fall. `probable` is recomputed in the last step of the
operation that recomputes it. `boot.pc` is the place of the loop in a tick;
`pending` is a rollback that was begun (`pendingV3RollBack`), which may be
interrupted and resumed; `evidence` what a reconciliation waits for. Commits and
rollbacks exclude each other (`baseSync.go:2413`), so `committing` and
`pending` never work at once. The settlement authority decides for the blocks
of `Canonical`, a chain, as no decision of it is against another one
(`SyncAssumption`); headers of a losing metachain branch may notarise others first.
Headers are V3 and of one epoch. Left out: finality without a genesis hash, the
forced fork of a stuck consensus (it needs an unproven tip), `RemoveHeader` as
the consensus worker calls it, and the rollback branch of a committed sibling,
which that exclusion makes unreachable.

### StakingQueue

Contract calls are sequential and a call that fails leaves the storage as it
was: a call is one action, an error path no step. The helpers work on the list
as on a record and turn its field `ok` to FALSE where the code returns an error.
`era` is the state of the epoch flags: the waiting list in use, the epoch start
that empties it, staking v4. The correction flags are on; `unBond` is the one
before `FixCorrectSmallIntAndGasLimits`. Left out: the repairs of lists broken
before these flags (`fixWaitingListQueueSize`, `addMissingNodeToQueue`,
`searchPreviousFromHead`) and `jail`, which no contract calls, so that the count
of jailed nodes stays 0.

### EpochTrigger

`trigger` and `pend` are the fields under the two mutexes, `view` what the
pools hold; `calls` are the goroutines inside the trigger, cut where it releases a
lock. The support of a block abstracts the metachain finality view: 1 is a
proven parent in an uncontended round or a proven child, 2 two proven
descendants, which a block with a proven sibling needs. Siblings share their
parent. Epochs follow one another, and finality is that after Supernova.
A retry takes up one pending entry. The check and the commit of the shard's
epoch start block are one step. Left out: missing miniblocks and validator info,
header validity, the map of prepared headers, the request of the last finalised
header, the order, cursors and limits of requests, `Close`, persistence and
import mode.

## 3. Runs

Distinct states are those TLC reports.

| Run | Instance | Checks | States |
|---|---|---|---|
| `evidence` | 3 members, one may send invalid shares, threshold 2, 4 rounds, 3 snapshots alive, infrastructure failures | `TypeOK`, `AssembledSharesValid`, `AssembledOnFreeNonce`, `QuorumEvidenceKept` | 1.89 M |
| `evidence_quorum` | as `evidence` | `AssembledHasQuorum`: **violated** | |
| `node` | group of 4, one own key, equivocating leader of both rounds, threshold 3, 4 headers | `NodeTypeOK`, `QuorumHolds`, `ImplementsCommittee` | 737,537 |
| `node_leader` | metachain, group of 3, 3 headers, the node leads round 2, one member sends invalid shares, the clock may step back once | `OneSignaturePerRound`, `MadeHasQuorum`, `QuorumHolds` | 1,668,643 |
| `node_late_share` | as `node`, `f1` also sends invalid shares | `MadeProofsVerified`: **violated** | |
| `async` | two blocks at nonce 1, a child of each, queue of 2 | `PauseExcludesExecution`, `PendingIsChain`, `ReplacedResultsRemoved` | 1.95 M |
| `async_failures` | one chain of two blocks, queue of 1, failures everywhere, fair | `AsyncTypeOK`, `CallsReturn` | 144,650 |
| `block_sync` | shard and metachain; blocks 1, 2 at nonce 1, 3, 4 on 1 at nonce 2, 4 late and in a contended round; the metachain settles 2 and may notarise 1, 2, 3; one fault | `SyncTypeOK`, `SettledBelowFinal`, `SettledNotReplaced`, `AmbiguityFlagged`, `RollBackNotBlocked`, `FinalForward`, `FinalOnChain` | 380,656 |
| `block_sync_final` | as `block_sync` | `RollBackAboveFinal`: **violated** | |
| `progress` | evidence as above with 3 rounds; two competing blocks of which the canonical one arrives late, one fault; epoch starts 1 and 3, one rollback | `QuorumSettles`, `Converges`, `EpochStartArms` | 46,912 |
| `components` | committee: 4 members, 1 equivocator, threshold 3; tracker: 4 headers of which two compete, 2 roots; pool: 2 goroutines, at most 2 proofs a nonce; staking: 4 keys of 2 owners, limits 1 and 3; trigger: blocks 1, 2 compete for epoch 1, 3 starts epoch 2 | `Agreement`, `IndexesAgree`, `PendingGapless`, `PendingAsCommitted`, `DismissedAnchored`, `IndexConsistent`, `KeepsLowestProofs`, `EquivocationReported`, `CleanupKeepsRecent`, `QueueWellFormed`, `RegistrationAgrees`, `UnjailedInFront`, `ArmedBySettled`, `NotForgotten` | 460,385 |
| `epoch_rearm` | trigger alone | `SettledArms`: **violated** | |

What they show, beyond their names:

* `components`, pool: the two critical sections of `AddProof` let two goroutines
  insert the same or competing hashes in any order, with a cleanup between.
  The limit of 2 (4 in the code) is reached with 3 competing hashes, and the
  nonces lie in different buckets around the cleanup boundary; two goroutines
  are enough for every race of a test with an insertion.
* `components`, staking: three keys of one owner and two jailings reach every
  place of a list of three and both sides of the jailed part; a limit that grows
  from 1 to 3 makes keys wait and then be staked from the queue.
* `components`, trigger: two calls at a time, one rollback and, where the blocks
  do not compete, one eviction. Competing blocks of the first epoch and the
  blocks of two epochs are two parts, as their product is out of reach.
* `evidence`: four rounds are needed for a snapshot to be captured, promoted,
  retried and replaced; three live snapshots for both slots and an orphan a
  goroutine still works on. `QuorumEvidenceKept` excepts demotion: see
  section 6.
* `progress`, evidence: the quorum of the last round is turned into a proof although
  another member's share in it is invalid and earlier attempts have failed.
* `progress`, synchroniser: a shard that committed the losing sibling first, and
  whose rollback was interrupted or whose sync failed once, ends on the branch
  of the metachain, unless headers of a losing metachain branch made it settle
  another block. A divergence from the metachain (`MCEarlyDivergence`) is met where
  the dead block has become final and its sibling is not proven yet: the case in
  which finality has to be set back.
* `progress`, trigger: an epoch start block whose header, proof and neighbours
  came in any order, before or after bootstrap or a rollback, arms the trigger.
* `node`: what the node signs and puts into its pool is a behaviour of
  `Committee`. This is checked with members that send valid shares only and
  without infrastructure failures: with them the two violations of section 6
  make it false. `QuorumHolds` spans two rounds: the
  end of one, the snapshot, and the header that arrives and the wait in the next.
* `node_leader`: the node as the one who proposes and assembles. The consensus
  state is reset when a round is entered again after a step back of the clock;
  only the tracker's slot prevents the second signature. `MCOneStepBack` allows
  one such step.
* `block_sync`: two competing blocks and two competing children reach finality on
  a proof and its withdrawal, ambiguous notarisation, reconciliation, and a
  rollback of two blocks with proofs, commits and notarisations between its
  steps. `MCFewProvenBlocks` has at most three of the four blocks proven, in every
  combination, and lets a fault happen only while at most one block beside 1 is.
* `async`: two competing blocks and a child of each reach replacement of an
  executed block, of a queued block and of one in process, notarisation during
  a replacement, and both goroutines inside `CommitBlock`.
* `async_failures`: a pause asked for while the executor is in any step,
  stopped or in a retry wait is acknowledged; the queue-full branch is reached
  because the queue holds one pair.

Symmetry is used where the permuted values occur in no ordering (the members
`o1`, `o2` or `k1`, `k2`; goroutines of the pool; the three keys of one owner)
and in no run with a liveness property.

Deadlock checking is on in `components`, whose parts never stop. It is off where
the bounded system really ends: the round bound is reached in the evidence and
node runs, `Close` stops the executor and no caller has to call again, and in
`block_sync` and `progress` every block has arrived and the bounds are used up.

**Bounds.** `MaxRound`, `MaxEvidence`, `MaxSkip`, `MaxStepBack` bound the
consensus models; `MaxNotarized` the results in a header; `MaxCacheSize`,
`MaxRetryAttempts`, `MaxDismissedBatches`, `MaxProofsPerNonce`, `BucketSize`,
`CleanupNonceDelta`, `Retention` are limits the code has itself, set small so
that they are reached. `MaxFaults` bounds dead metachain blocks, interrupted
rollbacks and failed syncs; `MaxEvictions`, `MaxReverts`, `MaxCalls` the
trigger's environment; `MaxJailings` and `MaxFromQueue` the staking calls.

## 4. Fairness

* `EvidenceFairness` (`progress`): weak fairness of each step of a started
  self-assembly goroutine. The Go scheduler runs every runnable goroutine, and
  none of these steps waits for a message. Nothing is assumed of rounds, of
  other members or of the network.
* `AsyncFairness` (`async_failures`): weak fairness of the executor's goroutine,
  whose loop never blocks for good (its waits are timers and the context), and
  strong fairness of a call that has begun: it waits for the manager's
  `sync.Mutex`, which is released and taken by others again and again and
  which Go hands to a waiter that has starved for a millisecond. No fairness is
  given to starting calls, to rounds or to `Close`, and none against failures:
  every fallible call may fail for ever.

* `SyncFairness` (`progress`): weak fairness of the detector's updates, of the end
  of a commit, of the loop and of the callbacks, which are goroutines that
  run when they can; weak fairness that the canonical blocks are proven and
  decided, which is what the other nodes and the metachain do. Strong fairness
  of the notarisation callback, which waits for `mutFinalityUpdate`, and of
  `ComputeNodeState` and `Reconcile`: the loop evaluates them in every tick,
  while what they need is true again and again but not without interruption.
* `TriggerFairness` (`progress`): weak fairness of the calls in progress and of
  the 200 ms ticker with its retries. What the trigger asks the network for
  arrives; nothing is assumed of what it does not ask for.

## 5. Proofs

| Theorem | Statement | From |
|---|---|---|
| `ProofsPoolProofs!IndexesAgree` | `PoolSpec => [](PoolTypeOK /\ IndexConsistent)` | `PoolAssumption` |
| `ProofsPoolProofs!CleanupIsSafe` | `PoolSpec => CleanupKeepsRecent` | same |
| `ProofsPoolProofs!LowestProofsKept` | `PoolSpec => []KeepsLowestProofs` | same |
| `ProofsPoolProofs!EquivocationIsReported` | `PoolSpec => []EquivocationReported` | same |
| `CommitteeProofs!CommitteeAgrees` | `Spec => []Agreement` | `CommitteeAssumption`, `QuorumAssumption` |
| `SignatureEvidenceProofs!EvidenceTyped` | `Spec => []TypeOK` | `EvidenceAssumption` |
| `SignatureEvidenceProofs!AssembledProofsValid` | `Spec => []AssembledSharesValid` | same |
| `SignatureEvidenceProofs!AssemblyNeverCompetes` | `Spec => AssembledOnFreeNonce` | same |
| `SignatureEvidenceProofs!QuorumEvidenceStays` | `Spec => QuorumEvidenceKept` | same |
| `ConsensusNodeProofs!KeysSignOnce` | `NodeSpec => []OneSignaturePerRound` | `ClockAssumption` |
| `ConsensusNodeProofs!NodeTyped` | `NodeSpec => []NodeTypeOK` | `NodeAssumption`, `EvidenceAssumption` |
| `ConsensusNodeProofs!MadeProofsHaveQuorum` | `NodeSpec => []MadeHasQuorum` | same |
| `ConsensusNodeProofs!QuorumBindsNextRound` | `NodeSpec => QuorumHolds` | same |
| `ConsensusNodeProofs!NodeImplementsCommittee` | `NodeSpec => ImplementsCommittee` | same, and `MaxStepBack = 0`, `Faulty = {}` |
| `ConsensusNodeProofs!PoolAgrees` | two proofs in the node's pool are of different rounds | same, and any two quorums share a member that follows the protocol |
| `AsyncExecutionProofs!TrackerIndexesAgree` | `TrackerSpec => [](TrackerTypeOK /\ IndexesAgree)` | `TrackerAssumption` |
| `AsyncExecutionProofs!TrackerGapless` | `TrackerSpec => []PendingGapless` | same |
| `AsyncExecutionProofs!TrackerAsCommitted` | `TrackerSpec => []PendingAsCommitted` | same |
| `AsyncExecutionProofs!TrackerDismissedAnchored` | `TrackerSpec => []DismissedAnchored` | same |
| `AsyncExecutionProofs!PauseIsExclusive` | `AsyncSpec => []PauseExcludesExecution` | none |
| `AsyncExecutionProofs!AsyncTyped` | `AsyncSpec => []AsyncTypeOK` | `TrackerAssumption`, `ExecutionAssumption` |
| `AsyncExecutionProofs!PendingIsAChain` | `AsyncSpec => []PendingIsChain` | same |
| `AsyncExecutionProofs!ReplacedAreRemoved` | `AsyncSpec => []ReplacedResultsRemoved` | same |
| `BlockSyncProofs!AmbiguityIsFlagged` | `SyncSpec => []AmbiguityFlagged` | `ForkAssumption`, `SyncAssumption` |
| `BlockSyncProofs!ForcedRollBackStarts` | `SyncSpec => []RollBackNotBlocked` | same |
| `BlockSyncProofs!SettledNeverGoesBack` | `SyncSpec => SettledGrows` | same |
| `BlockSyncProofs!SettledIsBelowFinal` | `SyncSpec => []SettledBelowFinal` | same |
| `BlockSyncProofs!FinalityMovesForward` | `SyncSpec => FinalForward` | same |
| `BlockSyncProofs!FinalStaysOnChain` | `SyncSpec => FinalOnChain` | same |
| `BlockSyncProofs!SyncTyped` | `SyncSpec => []SyncTypeOK` | same |
| `StakingQueueProofs!QueueStaysWellFormed` | `StakingSpec => []QueueWellFormed` | `StakingAssumption` |
| `StakingQueueProofs!RegistrationsAgree` | `StakingSpec => []RegistrationAgrees` | same |
| `StakingQueueProofs!UnjailedStayInFront` | `StakingSpec => []UnjailedInFront` | same |
| `EpochTriggerProofs!TriggerArmedBySettled` | `TriggerSpec => []ArmedBySettled` | `StartAssumption` |
| `EpochTriggerProofs!TriggerForgetsNothing` | `TriggerSpec => []NotForgotten` | same |

How they go:

* **Proofs pool.** `Inv == PoolTypeOK /\ IndexConsistent` is inductive. The type
  invariant has to say more than types: a bucket holds only nonces of its own
  window and its `maxNonce` bounds them (`BucketOK`). Without the window, a
  deletion in one bucket could leave a hash listed in another. `CleanupIsSafe`
  follows from the same bound: a bucket is dropped only if its `maxNonce` is old.
  `LowestInv` says that what is stored at a nonce is `Lowest` of all that was
  added there since its cleanup; the step is the lemma that the lowest of
  (the lowest of A, and h) are the lowest of (A and h), for the order by round and
  hash. Equivocation is reported because the competing set is taken in the
  critical section that stores the proof.
* **Committee.** `CommitteeInv` adds to the votes' types that each member has
  one vote a round and that every certificate has a quorum of votes
  (`CertsBacked`). `QuorumsMeet` is the counting argument: under
  `2 * Threshold > |Group| + |Equivocators|` two quorums share a member that
  follows the protocol.
* **Signature evidence.** `EvidenceInv` is `TypeOK`, `HeapOK` and
  `AssembledSharesValid`: slots and goroutines point into the heap of snapshots, no
  snapshot in use is reused, and stripping only removes shares, so a proof that
  was verified stays one of valid shares. `QuorumEvidenceStays` goes through
  every step of the store and says what each may take out of a slot.
* **Consensus node.** `OneSignaturePerRound` is not inductive: it needs that
  the slot of every round the clock can still return to holds what was signed
  (`SlotsHeld`), and that the clock stays in that window (`ClockInv`). The
  window is `MaxStepBack`, the memory `Retention`; `ClockAssumption` says the
  first is not larger, which is what the tracker's retention is for.
  `MadeInv` carries the count of shares from the check to the add. `QuorumInv`
  adds to the types that evidence of the last round stays in its slot until the
  next StartRound (`QuorumHeld`, `Decided`) and that everything is at most one
  nonce above the head, which never goes back (`NearHead`). The refinement's
  invariant `RefineInv` says which snapshots and shares are backed by votes
  (`SharesBacked`, `EvidenceBacked`, `VotesOnce`) and that the round of what is
  in progress is the clock's (`Timely`, `Sequenced`). Both were checked by TLC on
  `node` first. The two hypotheses are needed. With a clock that steps back, TLC
  finds a behaviour in which a header of round 2, checked before the step back, is
  signed in round 1 and another one in round 2. With invalid shares the two
  violations of section 6 apply. `PoolAgrees` is `CommitteeAgrees` carried over by
  the refinement.
* **Results tracker.** `TrackerInv` is the conjunction of the five properties: none is
  inductive alone (a removal keeps the indexes in agreement only if there is
  no gap). Every action is treated as a change of the `Window` of pending
  nonces between the notarised and the last executed one.
* **Asynchronous execution.** `PauseInv` adds that the flags are Booleans. The
  argument is over every step of the executor: leaving the top of the loop
  needs `~isPaused`, or finds a pause not yet acknowledged. `TypeInv` adds the
  tracker's invariant, which the tracker's theorems give for each of its calls,
  and the places of the calls: who holds the mutex, who has asked for the pause,
  and that the pair which `AddToCache` queued is still there when `AddRaced` takes
  it out. `LinkInv` says what the executor may rely on while others change the
  tracker under it: the last execution result, the results it read below a
  replacement, and the block it has just added agree with the tracker at every nonce
  that the tracker *still has* (`AgreesAt`), and the tracker's hashes form a chain
  (`ChainByNonce`). It is kept because a commit or a consensus decision only takes
  results away at either end and changes none between (`Shrinks`), and because a
  paused section, which moves the tracker and the last execution result together,
  runs while the executor is between two blocks (`PauseInv`). That the block added
  is above the last execution result, and not a replacement of it, follows from
  the two checks before the commit: a block at the same nonce would be its own
  parent. TLC checked the invariant on both instances first (1,954,213 and 144,650
  states). `Chain`, the branch of a header, is the intersection of all sets closed under
  parents, not a recursive function, so that the provers can use it.
* **Synchroniser.** `FlagInv` adds to `AmbiguityFlagged` the types of the records
  and that a metachain node has no notarised ones; an insertion can make one nonce
  ambiguous, and that nonce is the one tested. `RollBackInv` says what an update
  in progress has established before its next step (`JobOK`), what evidence to
  reconcile is about (`EvidenceOK`), that processed records are proven and where
  the pointers may lie (`PointersOK`), and that an ordered rollback waits with the
  final checkpoint below it (`RollBackWaits`): an update that was begun before the
  reconciliation does not raise it again.

  `ChainInv` is about the chain the records belong to. The branch of the final block
  goes through the settled one and is processed above it (`Grounded`); no other branch
  is processed between the two (`OneBranch`); a processed block beside the final one
  is on the chain (`BesideOnChain`). These facts hold although a block that became
  final while it was rolled back keeps its record. Such a record may be met again when
  finality is raised along the records; `StraysBurnt` says why nothing is built on it:
  above the block finality falls back to (`Base`, the support of the update in progress
  or the final block), its branch has a nonce with two proofs, which stops finality on
  proofs, and from there on its ancestors are dead and not notarised, which stops
  finality by settlement. Here `Canonical` has to be a chain: a dead block stays
  dead, and an own decision is never against another one. `JobOnChain` and `LoopOK`
  say what the update in progress and the loop have established before their next
  step. `SettledIsBelowFinal` is part of the invariant; the two action properties go
  through every step and say where it moves finality and the tip. `Branch` is a
  recursive function; what the proofs need of it (that it exists, is closed under
  parents, and has one block per nonce) is proved through `Ancestors`, the
  intersection of all sets closed under parents, and the block of least nonce that
  would be an exception.

  `SyncTyped` rests on what the probable nonce is computed from. The nonces of the
  blocks are bounded, so the greatest one with a proof or a notarisation exists; the
  walk of `computeBranchAwareProbable` is a function, built from its upper end down to
  the final block, and every value of it is a nonce (`WalksExist`, `WalkIsNumber`). The
  list of checkpoints is filtered the same way (`KeptCheckpoints`). `KindStep` lists
  what a step may do to these variables, and `NoncesOK` follows the nonce of a forced
  rollback back to the evidence it came from.
* **Staking contract.** `StakingInv` says that *some* sequence `w` without repetition
  runs over the linked list (`Linked`): it holds the keys of the waiting
  registrations, the stored elements are theirs, each points to its neighbours, and a
  jailed part, if there is one, is a prefix of keys that were jailed (`Fronted`).
  The walk along the list, which `QueueWellFormed` speaks of, is then shown to visit
  `w`. Each of the code's ways to insert (at the front, behind the last jailed key, at
  the end) and to take out (the first, the last, one in between) is shown to insert or
  take out at one place of `w`, whatever the list held; the calls that remove several keys
  apply this one key after the other. The registrations follow the keys
  a call writes (`Written`), and the count of staked nodes changes with them.
* **Epoch start trigger.** `RetainedInv` is `WellArmed` (the fields agree with the
  settled epochs), what the calls in progress name, that the epoch follows the
  entered blocks, that only canonical blocks have two descendants, and that what
  `NotForgotten` is about is retained or in the hands of a call of the current
  generation. A dead block stays dead, since an epoch has one canonical block.
  TLC checked the invariant on three instances with two epochs, the second of
  them contended in one (1,137,830 states).

The type invariants of pool and tracker are proved and not part of a run.

Only model-checked:

* the liveness properties (`QuorumSettles`, `Converges`, `EpochStartArms`,
  `CallsReturn`), which need fairness and ENABLED;
* `SettledNotReplaced`: while the head is below the settled block, it depends on what
  consensus and the loop may commit next, that is on `probable` and on `synced`, which may be stale,
  on the directed hash and on the blacklist, and so on an invariant about the walk
  that computes the probable nonce.

## 6. Where the code and its comments disagree

Four runs show a disagreement and are expected to be violated.

* `evidence_quorum`. `trySelfAssembleProof` compares the number of shares with
  the threshold only after a failed aggregation. A goroutine that was launched
  on a nominal quorum and is scheduled after another attempt stripped the
  snapshot below the threshold aggregates what is left, and the proof enters
  the pool and is broadcast with too few signatures.
* `node_late_share`. After a failed aggregate the end round job checks the
  shares one by one and then takes a *fresh* bitmap of the members whose share
  is marked as done. A share that arrives in between is aggregated without
  having been verified, and so is the proof, which later code treats as
  "already verified when it was added to the proofs pool".

* `block_sync_final`. "A header v3 switch must never cross the final checkpoint"
  (`baseSync.go:2037`), but the guard is read before the block is put back into
  the pools and the head moved, without the detector's lock: a notarisation that
  comes in between makes the head final, and the head moves below it.
  `RemoveCommittedHeader` then refuses to drop the record. On a longer chain,
  with a competing proof stored by then, the node commits the sibling beside its
  final block, and two processed records stand at that nonce. `FinalOnChain`
  therefore excepts the block that is being rolled back. It also excepts a block
  that is settled in the same step: the record that was kept can be settled later,
  when finality has been withdrawn from the block and the chain goes through its sibling.
  The proof attempt asked for this case.
* `epoch_rearm`. `RevertStateToBlock` leaves the field `epoch` at the epoch rolled
  back. When the block that arms the trigger again turns out dead,
  `DisarmDeadEpochStartActivation` restores `metaEpoch` from that stale field, and
  its canonical sibling settles the epoch without arming the trigger, although
  the function disarms "so the canonical sibling can re-arm"
  (`trigger.go:3129`). The same field makes `SetProcessed` (`trigger.go:2876`)
  skip the look into the pools in an epoch entered again.

Four more were met; the passing runs state the weaker property that holds.

* `DropRetained(nonce)` after a demotion drops the retained slot whatever block
  it is of, although it "keeps the last quorum-level evidence for a still
  unsettled nonce" (`signatureEvidence.go:89`): valid quorum evidence of a
  competing block is lost. `QuorumEvidenceKept` therefore has the disjunct
  `DemotedAt(n)`; without it the run `evidence` is violated.
* `UpdateContextForReplacedHeader` holds no lock over its steps. A commit that
  notarises the replaced block between them leaves the tracker above the last
  execution result, although all results after the one set "need to" be
  removed (`process/common.go:1700`). `ReplacedResultsRemoved` therefore has
  the disjunct `notarizedNonce > lastNonce`; without it `async` is violated.
* `CommitBlock`'s deferred clean-up puts the head back but cannot lower the
  notarised result (`RemoveAtNonceAndHigher` never does), and a slower commit
  of the same header may set the head backwards. `lastNotarizedResult.hash =
  NotarizedBy[head]` is not an invariant, even with no call in progress.
* `reconsiderPooledEpochStart` (`trigger.go:2898`) takes up one of the pooled blocks
  of the epoch that has become the next one. When two siblings were pooled before
  that and the one taken up is dead, the other is owned by nobody until a proposal
  names it. `NotForgotten` therefore speaks, once an epoch has been entered, of
  blocks without siblings only; without that restriction an instance with two
  blocks of epoch 2 violates it.

In the pool, a hash evicted by the per-nonce limit is reported as new
equivocation each time it is received again, although a comment says that
"equivocation reports once" (`proofsCache.go:139`).

Smaller things that no property is about: `GetPreviousRoundEvidence` lets a low
count of the last round mask a retained quorum (`signatureEvidence.go:130`); a
snapshot is not taken when any proof stands at the nonce, also one of another
branch (`subroundStartRound.go:141`); the wait before a competing block is for the
first own key that signed another one (`subroundSignature.go:431`); dismissed
results are announced after the tracker's unlock
(`executionResultsTracker.go:60`); before `FixCorrectSmallIntAndGasLimits` a key that
was never unstaked can be unbonded (`staking.go:733`).

## 7. Plan

Done: the ten models of section 2 with their runs, and the theorems of section
5. Left:

1. Theorems: `SettledNotReplaced`, with an invariant about the probable nonce.
2. Cross-shard tracking (`process/track`): notarised headers and their cleanup.
3. `BlockSync` composed with `AsyncExecution` as its caller; with the flag
   `preparedForSync`, "every committed block is eventually executed", and
   recovery from the states of the third weaker property of section 6.
4. Transaction pool selection and eviction (`txcache`); main and backup machine
   (`redundancy`, `keysManagement`).
5. `receivedSignature` split where a new round may begin in it; the recovery
   generation in `removePendingEpochStartProof` (`trigger.go:1227`).

## 8. Not modelled

* Data processing: transactions, smart contracts, gas, state trie and storage,
  validators' rating and selection. The group, the leaders, the headers, the
  execution results and the metachain's decisions are parameters or
  nondeterministic.
* The v1 subrounds, and the paths before Supernova activation: superseded.
* Message syntax, rate limits and peer honesty; broadcast of block data; the
  invalid-signers message; metrics.
* Wall-clock time: every wait may end at any moment, so no property speaks of
  durations.
* The listeners of dismissed execution results, and pruning.
* The other system contracts: sequential arithmetic on amounts.
* API, outport, heartbeat, genesis, hardfork and tooling.
